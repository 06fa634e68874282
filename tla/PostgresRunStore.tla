-------------------------- MODULE PostgresRunStore --------------------------
(***************************************************************************)
(* The Run store on PostgreSQL (PostgresRunStore).  The tables are those   *)
(* of RunStore and hold committed rows only.  A transaction runs at READ   *)
(* COMMITTED: each statement sees what was committed when it began, row    *)
(* locks last until commit, and the lease clock is read once, at BEGIN.    *)
(*                                                                         *)
(* A transaction of several statements is a sequence of actions of its     *)
(* session.  One that touches a single row takes effect in one action when *)
(* the row is free; SKIP LOCKED may pass over that row meanwhile, so a     *)
(* scan may settle for any candidate, not only the first.                  *)
(***************************************************************************)
EXTENDS RunStore

CONSTANT Session  \* connections that run store transactions

VARIABLE txn      \* the open transaction of each session

pgVars == <<vars, txn>>

NoTxn == [stage |-> "idle", now |-> 0, run |-> 0, token |-> NoToken, seen |-> 0]

\* The store's transitions under the timestamp of transaction x.
At(x) == INSTANCE RunStore WITH now <- x.now

Enter(s, stage, r, t, seen) ==
  txn' = [txn EXCEPT ![s] = [stage |-> stage, now |-> @.now, run |-> r,
                             token |-> t, seen |-> seen]]

\* COMMIT and ROLLBACK release every lock of the transaction.
Close(s) == txn' = [txn EXCEPT ![s] = NoTxn]

In(s, stage) == txn[s].stage = stage

Others(s) == Session \ {s}

\* A statement of the open transaction of s has locked Run r.
Holds(s, r) ==
  /\ txn[s].run = r
  /\ txn[s].stage \in {"claiming", "leasing", "leased", "completing", "saving"}

\* Mutant: commit_completed_run reads the Run without FOR UPDATE.
Locked_claims_only(r) ==
  \E s \in Session : Holds(s, r) /\ txn[s].stage \notin {"completing", "saving"}

Locked(r) == \E s \in Session : Holds(s, r)

-----------------------------------------------------------------------------

\* connection.transaction() and _lease_now_ms.
Begin(s) ==
  /\ In(s, "idle")
  /\ txn' = [txn EXCEPT ![s] = [NoTxn EXCEPT !.stage = "open", !.now = now]]
  /\ UNCHANGED vars

\* Nothing to do, a lock or statement timeout, or a lost connection.
Rollback(s) ==
  /\ ~In(s, "idle")
  /\ Close(s)
  /\ UNCHANGED vars

-----------------------------------------------------------------------------
(* Submission. *)

CreateRun(s) ==
  /\ In(s, "open")
  /\ \E r \in Run : ~has_state[r] /\ _insert_run(r)
  /\ Close(s)

SeedRequest(s, r) ==
  /\ has_state[r] /\ status[r] = "absent"
  /\ _thread_revision(r) = 0
  /\ Enter(s, "seeding", r, NoToken, 0)

\* Mutant: there is no advisory lock.
LockSeed_free(s) ==
  /\ In(s, "open")
  /\ \E r \in Run : SeedRequest(s, r)
  /\ UNCHANGED vars

\* A seed takes its thread's advisory lock until commit and finds no checkpoint.
LockSeed(s) ==
  /\ In(s, "open")
  /\ \E r \in Run :
       /\ \A o \in Others(s) :
            ~(txn[o].stage \in {"seeding", "seeded"} /\ SameThread(txn[o].run, r))
       /\ SeedRequest(s, r)
  /\ UNCHANGED vars

\* The next statement finds no nonterminal Run.
CheckSeed(s) ==
  LET r == txn[s].run IN
  /\ In(s, "seeding")
  /\ \A q \in Run \ {r} : SameThread(q, r) => ~Nonterminal(q)
  /\ Enter(s, "seeded", r, NoToken, 0)
  /\ UNCHANGED vars

CommitSeed(s) ==
  /\ In(s, "seeded")
  /\ _insert_run(txn[s].run)
  /\ Close(s)

-----------------------------------------------------------------------------
(* claim_next_run: SELECT ... FOR UPDATE SKIP LOCKED, conditional UPDATE, index. *)

FreshRow(r) == status[r] = "queued" /\ ~cancel_requested[r]

ExpiredRow(r, n) ==
  /\ status[r] = "running"
  /\ base[r] # NoRevision
  /\ error_code[r] # BLOCKED
  /\ lease_token[r] = NoToken \/ lease_expires_at[r] <= n

\* NOT EXISTS another running Run of the thread (live, for a recovery).
Alone(r, n) ==
  \A q \in Run \ {r} : SameThread(q, r) =>
    /\ FreshRow(r) => status[q] # "running"
    /\ ~(status[q] = "running" /\ lease_token[q] # NoToken /\ lease_expires_at[q] > n)

NoneEarlier(r) ==
  FreshRow(r) => \A q \in Run : SameThread(q, r) /\ FreshRow(q) => r <= q

\* The snapshot of the SELECT picks a row.
Scan(s) ==
  LET n == txn[s].now IN
  /\ In(s, "open")
  /\ \E r \in Run :
       /\ FreshRow(r) \/ ExpiredRow(r, n)
       /\ Alone(r, n)
       /\ NoneEarlier(r)
       /\ attempt[r] < MaxAttempts
       /\ Enter(s, "scanned", r, NoToken, 0)
  /\ UNCHANGED vars

\* FOR UPDATE locks the row if nobody else did and evaluates the condition again
\* on its newest version; what it says of other rows is as old as the snapshot.
LockCandidate(s) ==
  LET r == txn[s].run IN
  /\ In(s, "scanned")
  /\ ~Locked(r)
  /\ FreshRow(r) \/ ExpiredRow(r, txn[s].now)
  /\ Enter(s, "claiming", r, NoToken, 0)
  /\ UNCHANGED vars

\* The snapshot of the UPDATE: its conditions and the captured revision.
Update(s) ==
  LET r == txn[s].run IN
  /\ In(s, "claiming")
  /\ FreshRow(r) \/ ExpiredRow(r, txn[s].now)
  /\ Alone(r, txn[s].now)
  /\ Enter(s, "leasing", r, NoToken, Captured(r))
  /\ UNCHANGED vars

\* Mutant: there is no partial unique index.
EnterIndex_free(s) ==
  /\ In(s, "leasing")
  /\ Enter(s, "leased", txn[s].run, NoToken, txn[s].seen)
  /\ UNCHANGED vars

\* idx_runs_one_running_per_thread: wait for the entry another transaction has
\* not committed yet; a committed one is a UniqueViolation, hence a Rollback.
EnterIndex(s) ==
  LET r == txn[s].run IN
  /\ In(s, "leasing")
  /\ \A o \in Others(s) : ~(In(o, "leased") /\ SameThread(txn[o].run, r))
  /\ \A q \in Run \ {r} : SameThread(q, r) => status[q] # "running"
  /\ Enter(s, "leased", r, NoToken, txn[s].seen)
  /\ UNCHANGED vars

CommitClaim(s) ==
  /\ In(s, "leased")
  /\ \E x \in {txn[s]} : At(x)!Lease(txn[s].run, txn[s].seen)
  /\ Close(s)
  /\ UNCHANGED now

-----------------------------------------------------------------------------
(* commit_completed_run: lock the Run, lock and compare the revision, write. *)

\* The Run still awaits the result of the attempt holding token t.
Completable(r, t, n) ==
  /\ status[r] = "running" /\ ~cancel_requested[r]
  /\ lease_token[r] = t /\ lease_expires_at[r] > n

LockCompletion(s) ==
  /\ In(s, "open")
  /\ \E r \in Run : \E t \in Tokens(r) :
       /\ ~Locked(r)
       /\ Completable(r, t, txn[s].now)
       /\ Enter(s, "completing", r, t, 0)
  /\ UNCHANGED vars

\* thread_states is locked only if it has a row for the thread.
ThreadLocked(s, r) ==
  \E o \in Others(s) : In(o, "saving") /\ SameThread(txn[o].run, r) /\ txn[o].seen > 0

\* The observed revision is the captured one: the Run is updated.
CompareRevision(s) ==
  LET r == txn[s].run IN
  /\ In(s, "completing")
  /\ ~ThreadLocked(s, r)
  /\ load_thread_state_snapshot(r)
  /\ Enter(s, "saving", r, txn[s].token, _thread_revision(r))
  /\ UNCHANGED vars

\* It is not: the Run fails in the same transaction.
RejectStale(s) ==
  LET r == txn[s].run IN
  /\ In(s, "completing")
  /\ ~ThreadLocked(s, r)
  /\ \E x \in {txn[s]} : At(x)!RejectStaleResult(r, txn[s].token)
  /\ Close(s)
  /\ UNCHANGED now

\* The Run is completed and the upsert advances the observed revision; if that
\* is gone (_CheckpointCASChanged) everything rolls back, and the session goes on
\* with commit_checkpoint_conflict.
CommitCompletion(s) ==
  LET r == txn[s].run IN
  /\ In(s, "saving")
  /\ Completable(r, txn[s].token, txn[s].now)
  /\ IF _thread_revision(r) = txn[s].seen
     THEN /\ _terminalize(r, "completed", "none", <<"checkpoint.saved", "run.completed">>)
          /\ revision' = [revision EXCEPT ![thread_id[r]] = @ + 1]
     ELSE UNCHANGED vars
  /\ Close(s)

-----------------------------------------------------------------------------
(* Transactions that write one Run.  The observations of RunStore are left   *)
(* out: they append to events under the Run's row lock and nothing else.      *)

\* FOR UPDATE SKIP LOCKED: any cancelled queued Run.
finalize_queued_cancellation(r) ==
  /\ QueuedCancellation(r)
  /\ _terminalize(r, "cancelled", "none", <<"run.cancelled">>)
  /\ UNCHANGED revision

LeaseWrite(r, t, x) == At(x)!renew_run_lease(r, t) \/ At(x)!expire_run_lease(r, t)

PendingWrite(r, t, x) == At(x)!commit_reconciliation_pending(r, t)

ConflictWrite(r, t, x) == At(x)!commit_checkpoint_conflict(r, t)

EndWrite(r, t, x) ==
  \/ At(x)!commit_cancelled_run(r, t)
  \/ At(x)!commit_failed_run(r, t, EXECUTION, FALSE)
  \/ At(x)!commit_failed_run(r, t, SAFETY, TRUE)

AttemptWrite(r, t, x) ==
  \/ LeaseWrite(r, t, x) \/ PendingWrite(r, t, x)
  \/ ConflictWrite(r, t, x) \/ EndWrite(r, t, x)

ClientWrite(r) ==
  \/ request_cancel_atomically(r)
  \/ finalize_queued_cancellation(r)

WriteRun(s) ==
  /\ In(s, "open")
  /\ \E r \in Run :
       /\ ~Locked(r)
       /\ \/ ClientWrite(r)
          \/ /\ \E t \in Tokens(r), x \in {txn[s]} : AttemptWrite(r, t, x)
             /\ UNCHANGED now
  /\ Close(s)

-----------------------------------------------------------------------------

PgInit == Init /\ txn = [s \in Session |-> NoTxn]

Transaction(s) ==
  \/ Begin(s) \/ Rollback(s)
  \/ CreateRun(s) \/ LockSeed(s) \/ CheckSeed(s) \/ CommitSeed(s)
  \/ Scan(s) \/ LockCandidate(s) \/ Update(s) \/ EnterIndex(s) \/ CommitClaim(s)
  \/ LockCompletion(s) \/ CompareRevision(s) \/ RejectStale(s) \/ CommitCompletion(s)
  \/ WriteRun(s)

PgNext ==
  \/ AdvanceClock /\ UNCHANGED txn
  \/ \E s \in Session : Transaction(s)

PgSpec == PgInit /\ [][PgNext]_pgVars

-----------------------------------------------------------------------------
(* Properties. *)

\* Concurrent submissions admit one client state per thread at a time: the
\* advisory lock stands in for the checkpoint row that does not exist yet
\* (_prepare_client_state_seed).
SeedsAreSerial ==
  \A q, r \in Run :
    /\ has_state[q] /\ has_state[r] /\ SameThread(q, r)
    /\ Nonterminal(q) /\ Nonterminal(r)
    => q = r

\* What commit_completed_run found true at one of its statements is true at the
\* next: no cancellation, takeover or other completion slips in between, and
\* _CheckpointCASChanged is not raised.
CompletionIsStable ==
  \A s \in Session :
    /\ txn[s].stage \in {"completing", "saving"} =>
         Completable(txn[s].run, txn[s].token, txn[s].now)
    /\ txn[s].stage = "saving" => _thread_revision(txn[s].run) = txn[s].seen
=============================================================================
