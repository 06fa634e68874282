------------------------------ MODULE RunStore ------------------------------
(***************************************************************************)
(* The durable Run store (SQLiteRunStore): the runs, run_events and        *)
(* thread_states tables and the store's public operations.  Every public   *)
(* method of the store is one BEGIN IMMEDIATE transaction, so it is one    *)
(* action here; interleavings and crashes happen between actions.          *)
(*                                                                         *)
(* A Run is its position in the persisted (created_at, run_id) order.      *)
(* created_at is stamped when the record is built, before the transaction  *)
(* that inserts it, so Runs may be inserted in any order.                  *)
(*                                                                         *)
(* Each claim draws a fresh uuid as lease token.  The k-th claim of a Run  *)
(* is modelled as drawing token k; 0 is NULL.  An attempt that lost its    *)
(* lease keeps its token, so any t \in Tokens(r) may be presented.         *)
(***************************************************************************)
EXTENDS Integers, Sequences, FiniteSets

CONSTANTS
  Run,            \* Runs that clients may submit
  Thread,         \* (tenant_id, thread_id) pairs
  Clock,          \* readings of the store's wall clock
  LeaseDuration,  \* lease_duration_seconds
  MaxAttempts,    \* bound: claims per Run
  MaxEvents       \* bound: events per Run at which observations stop

ASSUME RunStoreAssumption ==
  /\ Run \subseteq Nat
  /\ Clock \subseteq Int
  /\ Clock # {}
  /\ LeaseDuration \in Nat \ {0}
  /\ MaxAttempts \in Nat
  /\ MaxEvents \in Nat

VARIABLES
  thread_id,         \* the thread the submission of a Run names
  has_state,         \* whether that submission carries a client state (a seed)
  status,            \* runs.status, "absent" before the row exists
  cancel_requested,  \* runs.cancel_requested
  base,              \* runs.checkpoint_base_revision
  lease_token,       \* runs.lease_token
  lease_expires_at,  \* runs.lease_expires_at (meaningless under a NULL token)
  attempt,           \* runs.attempt
  error_code,        \* runs.error_code
  revision,          \* thread_states.revision, 0 when the thread has no row
  events,            \* run_events of a Run, in sequence order
  now                \* the store clock

requestVars == <<thread_id, has_state>>
leaseVars == <<lease_token, lease_expires_at>>
vars == <<requestVars, status, cancel_requested, base, leaseVars, attempt,
          error_code, revision, events, now>>

NoRevision == -1
NoToken == 0

Terminal == {"completed", "failed", "cancelled"}
Status == {"absent", "queued", "running"} \cup Terminal

PENDING == "external_action_reconciliation_pending"
CONFLICT == "thread_checkpoint_conflict"
BLOCKED == "thread_checkpoint_conflict_reconciliation_pending"
SAFETY == "external_action_failed"
EXECUTION == "runtime_execution_failed"
ErrorCode == {"none", PENDING, CONFLICT, BLOCKED, SAFETY, EXECUTION}

EventType == {"run.queued", "run.recovered", "run.started",
              "run.cancel_requested", "run.cancelled", "run.failed",
              "run.completed", "checkpoint.loaded", "checkpoint.saved",
              "checkpoint.conflict", "quarantine.resolution_applied",
              "sandbox.completed"}

Tokens(r) == 1 .. attempt[r]

-----------------------------------------------------------------------------
(* Reading the tables. *)

SameThread(q, r) == thread_id[q] = thread_id[r]

LiveLease(r) == lease_token[r] # NoToken /\ lease_expires_at[r] > now

CurrentLease(r, t) == lease_token[r] = t /\ lease_expires_at[r] > now

Nonterminal(r) == status[r] \in {"queued", "running"}

_thread_revision(r) == revision[thread_id[r]]

\* What a commit that matched no row reports to its caller.
_classify_commit_outcome(r, t) ==
  IF status[r] \in Terminal THEN "already_terminal"
  ELSE IF ~CurrentLease(r, t) THEN "lease_lost"
  ELSE IF cancel_requested[r] THEN "cancel_requested"
  ELSE "not_eligible"

\* A revision-qualified load finds the captured revision.
load_thread_state_snapshot(r) == base[r] = _thread_revision(r)

-----------------------------------------------------------------------------
(* Writing the tables. *)

_append_event(r, es) == events' = [events EXCEPT ![r] = @ \o es]

_clear_lease(r) ==
  /\ lease_token' = [lease_token EXCEPT ![r] = NoToken]
  /\ lease_expires_at' = [lease_expires_at EXCEPT ![r] = 0]

\* Leave the running (or queued) state for good, releasing the lease.
_terminalize(r, s, code, es) ==
  /\ status' = [status EXCEPT ![r] = s]
  /\ error_code' = [error_code EXCEPT ![r] = code]
  /\ _clear_lease(r)
  /\ _append_event(r, es)
  /\ UNCHANGED <<requestVars, cancel_requested, base, attempt, now>>

-----------------------------------------------------------------------------
(* Submission.  A client state may only seed an empty, idle thread. *)

_prepare_client_state_seed(r) ==
  has_state[r] =>
    /\ _thread_revision(r) = 0
    /\ \A q \in Run \ {r} : SameThread(q, r) => ~Nonterminal(q)

\* The row as inserted, with the base revision a seed is given.
_insert_run(r) ==
  /\ status[r] = "absent"
  /\ status' = [status EXCEPT ![r] = "queued"]
  /\ base' = [base EXCEPT ![r] = IF has_state[r] THEN 0 ELSE NoRevision]
  /\ _append_event(r, <<"run.queued">>)
  /\ UNCHANGED <<requestVars, cancel_requested, leaseVars, attempt, error_code,
                 revision, now>>

create_run_with_event(r) == _prepare_client_state_seed(r) /\ _insert_run(r)

-----------------------------------------------------------------------------
(* Claiming. *)

\* Mutant: a queued Run is claimed beside a running one of its thread.
FreshCandidate_parallel(r) == status[r] = "queued" /\ ~cancel_requested[r]

FreshCandidate(r) ==
  /\ status[r] = "queued"
  /\ ~cancel_requested[r]
  /\ \A q \in Run : SameThread(q, r) => status[q] # "running"

ExpiredCandidate(r) ==
  /\ status[r] = "running"
  /\ base[r] # NoRevision
  /\ error_code[r] # BLOCKED
  /\ ~LiveLease(r)
  /\ \A q \in Run \ {r} :
       SameThread(q, r) => ~(status[q] = "running" /\ LiveLease(q))

Candidate(r) == FreshCandidate(r) \/ ExpiredCandidate(r)

\* The claim's UPDATE: the Run becomes running under a fresh token and has
\* captured revision b.
Lease(r, b) ==
  /\ attempt[r] < MaxAttempts
  /\ status' = [status EXCEPT ![r] = "running"]
  /\ attempt' = [attempt EXCEPT ![r] = @ + 1]
  /\ error_code' = [error_code EXCEPT ![r] = IF @ = PENDING THEN @ ELSE "none"]
  /\ lease_token' = [lease_token EXCEPT ![r] = attempt[r] + 1]
  /\ lease_expires_at' = [lease_expires_at EXCEPT ![r] = now + LeaseDuration]
  /\ base' = [base EXCEPT ![r] = b]
  /\ _append_event(r, IF status[r] = "running"
                      THEN <<"run.recovered", "run.started">>
                      ELSE <<"run.started">>)
  /\ UNCHANGED <<requestVars, cancel_requested, revision, now>>

\* COALESCE(checkpoint_base_revision, current revision).
Captured(r) == IF base[r] = NoRevision THEN _thread_revision(r) ELSE base[r]

\* Mutant: a claim takes the thread for a new one.
claim_next_run_from_scratch(r) ==
  /\ Candidate(r)
  /\ \A q \in Run : Candidate(q) => r <= q
  /\ Lease(r, 0)

claim_next_run(r) ==
  /\ Candidate(r)
  /\ \A q \in Run : Candidate(q) => r <= q
  /\ Lease(r, Captured(r))

-----------------------------------------------------------------------------
(* Lease upkeep and attempt-owned evidence. *)

\* Mutant: a heartbeat renews a lease that has expired.
renew_run_lease_late(r, t) ==
  /\ status[r] = "running"
  /\ lease_token[r] = t
  /\ lease_expires_at' = [lease_expires_at EXCEPT ![r] = now + LeaseDuration]
  /\ UNCHANGED <<requestVars, status, cancel_requested, base, lease_token,
                 attempt, error_code, revision, events, now>>

renew_run_lease(r, t) ==
  /\ status[r] = "running"
  /\ CurrentLease(r, t)
  /\ lease_expires_at' = [lease_expires_at EXCEPT ![r] = now + LeaseDuration]
  /\ UNCHANGED <<requestVars, status, cancel_requested, base, lease_token,
                 attempt, error_code, revision, events, now>>

expire_run_lease(r, t) ==
  /\ status[r] = "running"
  /\ lease_token[r] = t
  /\ lease_expires_at' = [lease_expires_at EXCEPT ![r] = now]
  /\ UNCHANGED <<requestVars, status, cancel_requested, base, lease_token,
                 attempt, error_code, revision, events, now>>

assert_current_run_lease(r, t) == status[r] = "running" /\ CurrentLease(r, t)

append_attempt_event(r, t) ==
  /\ assert_current_run_lease(r, t)
  /\ Len(events[r]) < MaxEvents
  /\ _append_event(r, <<"checkpoint.loaded">>)
  /\ UNCHANGED <<requestVars, status, cancel_requested, base, leaseVars,
                 attempt, error_code, revision, now>>

append_control_plane_event(r) ==
  /\ status[r] # "absent"
  /\ Len(events[r]) < MaxEvents
  /\ _append_event(r, <<"sandbox.completed">>)
  /\ UNCHANGED <<requestVars, status, cancel_requested, base, leaseVars,
                 attempt, error_code, revision, now>>

commit_reconciliation_pending(r, t) ==
  /\ status[r] = "running"
  /\ CurrentLease(r, t)
  /\ error_code' = [error_code EXCEPT ![r] = PENDING]
  /\ UNCHANGED <<requestVars, status, cancel_requested, base, leaseVars,
                 attempt, revision, events, now>>

-----------------------------------------------------------------------------
(* Cancellation. *)

\* Mutant: a repeated request is not recognised (events bounded).
request_cancel_repeated(r) ==
  /\ Nonterminal(r)
  /\ Len(events[r]) < 5
  /\ cancel_requested' = [cancel_requested EXCEPT ![r] = TRUE]
  /\ _append_event(r, <<"run.cancel_requested">>)
  /\ UNCHANGED <<requestVars, status, base, leaseVars, attempt, error_code,
                 revision, now>>

request_cancel_atomically(r) ==
  /\ Nonterminal(r)
  /\ ~cancel_requested[r]
  /\ cancel_requested' = [cancel_requested EXCEPT ![r] = TRUE]
  /\ _append_event(r, <<"run.cancel_requested">>)
  /\ UNCHANGED <<requestVars, status, base, leaseVars, attempt, error_code,
                 revision, now>>

QueuedCancellation(r) == status[r] = "queued" /\ cancel_requested[r]

finalize_next_queued_cancellation(r) ==
  /\ QueuedCancellation(r)
  /\ \A q \in Run : QueuedCancellation(q) => r <= q
  /\ _terminalize(r, "cancelled", "none", <<"run.cancelled">>)
  /\ UNCHANGED revision

commit_cancelled_run(r, t) ==
  /\ Nonterminal(r)
  /\ cancel_requested[r]
  /\ CurrentLease(r, t)
  /\ _terminalize(r, "cancelled", "none", <<"run.cancelled">>)
  /\ UNCHANGED revision

-----------------------------------------------------------------------------
(* Terminal commits of an attempt. *)

\* Mutant: the failure of a worker is committed after its lease expired.
commit_failed_run_late(r, t, code, allow_cancel_requested) ==
  /\ status[r] = "running"
  /\ ~cancel_requested[r] \/ allow_cancel_requested
  /\ lease_token[r] = t
  /\ _terminalize(r, "failed", code, <<"run.failed">>)
  /\ UNCHANGED revision

commit_failed_run(r, t, code, allow_cancel_requested) ==
  /\ status[r] = "running"
  /\ ~cancel_requested[r] \/ allow_cancel_requested
  /\ CurrentLease(r, t)
  /\ _terminalize(r, "failed", code, <<"run.failed">>)
  /\ UNCHANGED revision

_fail_checkpoint_conflict(r, t) ==
  /\ status[r] = "running"
  /\ ~cancel_requested[r]
  /\ CurrentLease(r, t)
  /\ _terminalize(r, "failed", CONFLICT, <<"checkpoint.conflict", "run.failed">>)
  /\ UNCHANGED revision

\* Called only after a load found another revision than the captured one.
commit_checkpoint_conflict(r, t) ==
  /\ ~load_thread_state_snapshot(r)
  /\ _fail_checkpoint_conflict(r, t)

\* Mutant: the checkpoint is written without counting its revision up.
SaveCheckpoint_unversioned(r, t) ==
  /\ status[r] = "running"
  /\ ~cancel_requested[r]
  /\ CurrentLease(r, t)
  /\ base[r] = _thread_revision(r)
  /\ _terminalize(r, "completed", "none", <<"checkpoint.saved", "run.completed">>)
  /\ UNCHANGED revision

SaveCheckpoint(r, t) ==
  /\ status[r] = "running"
  /\ ~cancel_requested[r]
  /\ CurrentLease(r, t)
  /\ base[r] = _thread_revision(r)
  /\ _terminalize(r, "completed", "none", <<"checkpoint.saved", "run.completed">>)
  /\ revision' = [revision EXCEPT ![thread_id[r]] = @ + 1]

RejectStaleResult(r, t) ==
  /\ base[r] # _thread_revision(r)
  /\ _fail_checkpoint_conflict(r, t)

commit_completed_run(r, t) == SaveCheckpoint(r, t) \/ RejectStaleResult(r, t)

-----------------------------------------------------------------------------
(* The store clock is the host's wall clock: it may jump either way. *)

AdvanceClock ==
  /\ now' \in Clock
  /\ UNCHANGED <<requestVars, status, cancel_requested, base, leaseVars,
                 attempt, error_code, revision, events>>

Init ==
  /\ thread_id \in [Run -> Thread]
  /\ has_state \in [Run -> BOOLEAN]
  /\ status = [r \in Run |-> "absent"]
  /\ cancel_requested = [r \in Run |-> FALSE]
  /\ base = [r \in Run |-> NoRevision]
  /\ lease_token = [r \in Run |-> NoToken]
  /\ lease_expires_at = [r \in Run |-> 0]
  /\ attempt = [r \in Run |-> 0]
  /\ error_code = [r \in Run |-> "none"]
  /\ revision = [th \in Thread |-> 0]
  /\ events = [r \in Run |-> <<>>]
  /\ now \in Clock

\* An attempt may present its token to any operation at any time.
AttemptStep(r, t) ==
  \/ renew_run_lease(r, t)
  \/ expire_run_lease(r, t)
  \/ append_attempt_event(r, t)
  \/ commit_reconciliation_pending(r, t)
  \/ commit_cancelled_run(r, t)
  \/ commit_failed_run(r, t, EXECUTION, FALSE)
  \/ commit_failed_run(r, t, SAFETY, TRUE)
  \/ commit_checkpoint_conflict(r, t)
  \/ commit_completed_run(r, t)

Next ==
  \/ AdvanceClock
  \/ \E r \in Run :
       \/ create_run_with_event(r)
       \/ claim_next_run(r)
       \/ request_cancel_atomically(r)
       \/ finalize_next_queued_cancellation(r)
       \/ append_control_plane_event(r)
       \/ \E t \in Tokens(r) : AttemptStep(r, t)

Spec == Init /\ [][Next]_vars

-----------------------------------------------------------------------------
(* Properties. *)

\* Every column holds a value of its type; in particular a status is one of the
\* lifecycle and an error code one the store writes.
TypeOK ==
  /\ thread_id \in [Run -> Thread]
  /\ has_state \in [Run -> BOOLEAN]
  /\ status \in [Run -> Status]
  /\ cancel_requested \in [Run -> BOOLEAN]
  /\ base \in [Run -> Nat \cup {NoRevision}]
  /\ lease_token \in [Run -> Nat]
  /\ lease_expires_at \in [Run -> Int]
  /\ attempt \in [Run -> Nat]
  /\ error_code \in [Run -> ErrorCode]
  /\ revision \in [Thread -> Nat]
  /\ events \in [Run -> Seq(EventType)]
  /\ now \in Clock

\* A running Run is the only owner of its thread, whatever happened to its
\* lease: expiry makes it recoverable and never lets a queued Run overtake it.
OneRunningPerThread ==
  \A q, r \in Run :
    status[q] = "running" /\ status[r] = "running" /\ SameThread(q, r) => q = r

\* No lost update: the checkpoints of a thread form one chain.  Revision n + 1
\* was saved by exactly one completed Run, and that Run had loaded revision n.
LinearHistory ==
  /\ \A r \in Run : status[r] = "completed" => base[r] \in 0 .. _thread_revision(r) - 1
  /\ \A q, r \in Run :
       /\ status[q] = "completed" /\ status[r] = "completed"
       /\ SameThread(q, r) /\ base[q] = base[r]
       => q = r
  /\ \A th \in Thread : \A n \in 0 .. revision[th] - 1 :
       \E r \in Run : status[r] = "completed" /\ thread_id[r] = th /\ base[r] = n

\* Between claim and terminal commit nobody moves the thread's checkpoint away
\* from the revision the Run captured.  Only a client-state seed can find its
\* revision gone, because it captured revision 0 when it was submitted.
CapturedRevisionHeld ==
  \A r \in Run : status[r] = "running" /\ ~has_state[r] => load_thread_state_snapshot(r)

\* Before its first claim only a seed has a base revision (part of the
\* inductive invariant: it is why a claim captures the current revision).
UnclaimedHasNoBase ==
  \A r \in Run :
    status[r] = "absent" \/ (status[r] = "queued" /\ ~has_state[r])
    => base[r] = NoRevision

\* A cancellation that was accepted before the result was committed wins.
CancellationBeatsCompletion ==
  \A r \in Run : status[r] = "completed" => ~cancel_requested[r]

CountOf(r, types) == Cardinality({i \in DOMAIN events[r] : events[r][i] \in types})

\* The event stream tells the Run's life: one run.started per claim, one
\* terminal event exactly when the Run is terminal, and saved checkpoints only
\* of completed Runs.
EventsTellStatus ==
  \A r \in Run :
    /\ CountOf(r, {"run.started"}) = attempt[r]
    /\ CountOf(r, {"run.completed"}) = (IF status[r] = "completed" THEN 1 ELSE 0)
    /\ CountOf(r, {"run.failed"}) = (IF status[r] = "failed" THEN 1 ELSE 0)
    /\ CountOf(r, {"run.cancelled"}) = (IF status[r] = "cancelled" THEN 1 ELSE 0)
    /\ CountOf(r, {"checkpoint.saved"}) = CountOf(r, {"run.completed"})
    /\ CountOf(r, {"run.cancel_requested"}) = (IF cancel_requested[r] THEN 1 ELSE 0)

\* A running Run is terminalized only under its unexpired lease, so a worker
\* that lost its lease can no longer decide the Run's outcome.
OnlyLiveLeaseTerminalizes ==
  [][\A r \in Run :
       status[r] = "running" /\ status'[r] \in Terminal => LiveLease(r)]_vars

\* No operation of the same attempt revives an expired lease: a late heartbeat
\* cannot take back a Run another worker may already be claiming.  Only the
\* wall clock moving backward can make an old deadline lie in the future again.
ExpiredLeaseNotRevived ==
  [][\A r \in Run :
       /\ ~LiveLease(r)
       /\ attempt'[r] = attempt[r]
       /\ now' = now
       => ~LiveLease(r)']_vars

\* A live lease is never stolen: while it is unexpired its token stays current
\* until its own holder gives it up by a terminal commit.
LiveLeaseNotStolen ==
  [][\A r \in Run :
       status[r] = "running" /\ LiveLease(r) /\ status'[r] = "running"
       => lease_token'[r] = lease_token[r]]_vars

\* Runs of a thread start in submission order: a claim of a queued Run leaves
\* no earlier uncancelled queued Run of that thread behind.
ThreadFifo ==
  [][\A q, r \in Run :
       /\ status[r] = "queued" /\ status'[r] = "running"
       /\ SameThread(q, r) /\ q < r
       => ~(status[q] = "queued" /\ ~cancel_requested[q])]_vars

\* Once captured, the base revision of a Run survives every takeover.
BasePreserved ==
  [][\A r \in Run : base[r] # NoRevision => base'[r] = base[r]]_vars

\* A terminal Run is final: no late commit, cancellation or recovery touches it.
TerminalIsFinal ==
  [][\A r \in Run : status[r] \in Terminal =>
       /\ status'[r] = status[r]
       /\ cancel_requested'[r] = cancel_requested[r]
       /\ attempt'[r] = attempt[r]
       /\ error_code'[r] = error_code[r]]_vars

\* A Run cancelled while queued is never started.
CancelledWhileQueuedNeverStarts ==
  [][\A r \in Run : QueuedCancellation(r) => status'[r] # "running"]_vars

\* A thread changes hands in order: its Runs start in the order they were
\* submitted, a live lease is not stolen, a late heartbeat does not take an
\* expired one back, and whoever takes a Run over goes on from the revision
\* that was captured for it (claim_next_run, renew_run_lease).
HandoverIsOrderly ==
  ThreadFifo /\ LiveLeaseNotStolen /\ ExpiredLeaseNotRevived /\ BasePreserved

\* The outcome of a Run is decided once, by the holder of its lease, and stands;
\* a cancellation accepted before the decision is not overridden by a result and
\* keeps a queued Run from starting (the commit_ methods, request_cancel).
OutcomeStands ==
  /\ OnlyLiveLeaseTerminalizes /\ TerminalIsFinal
  /\ []CancellationBeatsCompletion /\ CancelledWhileQueuedNeverStarts

\* Refinement.  The n-th entry of a thread's log is the completed Run that had
\* loaded revision n - 1.
Phase(s) ==
  CASE s = "absent" -> "absent"
    [] s = "queued" -> "waiting"
    [] s = "running" -> "active"
    [] s = "completed" -> "saved"
    [] s \in {"failed", "cancelled"} -> "dropped"

SavedBy(th, n) ==
  CHOOSE r \in Run : status[r] = "completed" /\ thread_id[r] = th /\ base[r] = n - 1

History == INSTANCE ThreadHistory WITH
  lane <- thread_id,
  phase <- [r \in Run |-> Phase(status[r])],
  log <- [th \in Thread |-> [n \in 1 .. revision[th] |-> SavedBy(th, n)]]

\* Leases, takeovers, cancellations, clock jumps and checkpoint revisions
\* together implement one serial log of saved Runs per thread.
ImplementsThreadHistory == History!Spec

\* "A revision conflict should be impossible when every writer uses the new
\* boundary" (docs/thread-execution-serialization.md).
RevisionConflictImpossible ==
  \A r \in Run : status[r] = "running" => load_thread_state_snapshot(r)
=============================================================================
