--------------------------- MODULE RunStoreProofs ---------------------------
(***************************************************************************)
(* Proofs about the Run store for every set of Runs, threads and clock     *)
(* readings, every lease duration and every bound: its invariants, that it *)
(* implements ThreadHistory, and what one step may never do.  The event    *)
(* stream is in PostgresRunStoreProofs, where finite sets are at hand.     *)
(***************************************************************************)
EXTENDS RunStore, TLAPS

\* The inductive invariant.  OneRunningPerThread and UnclaimedHasNoBase carry
\* CapturedRevisionHeld: a claim captures the current revision, and only the
\* thread's one running Run can move it.
IInv ==
  /\ TypeOK
  /\ OneRunningPerThread
  /\ LinearHistory
  /\ CapturedRevisionHeld
  /\ UnclaimedHasNoBase
  /\ CancellationBeatsCompletion

\* The store starts with no Runs and no checkpoints.
LEMMA InitIInv == Init => IInv
<1> SUFFICES ASSUME Init PROVE IInv
  OBVIOUS
<1> USE RunStoreAssumption DEF Init
<1>1. TypeOK
  BY DEF TypeOK, Status, Terminal, ErrorCode, NoRevision, NoToken
<1>2. OneRunningPerThread
  BY DEF OneRunningPerThread
<1>3. LinearHistory
  BY DEF LinearHistory
<1>4. CapturedRevisionHeld /\ UnclaimedHasNoBase /\ CancellationBeatsCompletion
  BY DEF CapturedRevisionHeld, UnclaimedHasNoBase, CancellationBeatsCompletion
<1> QED
  BY <1>1, <1>2, <1>3, <1>4 DEF IInv

\* What the store appends are events.
LEMMA EventSequences ==
  /\ <<"run.queued">> \in Seq(EventType)
  /\ <<"run.started">> \in Seq(EventType)
  /\ <<"run.recovered", "run.started">> \in Seq(EventType)
  /\ <<"run.cancel_requested">> \in Seq(EventType)
  /\ <<"run.cancelled">> \in Seq(EventType)
  /\ <<"run.failed">> \in Seq(EventType)
  /\ <<"checkpoint.conflict", "run.failed">> \in Seq(EventType)
  /\ <<"checkpoint.saved", "run.completed">> \in Seq(EventType)
BY DEF EventType

\* _terminalize writes an outcome, a code and events of their types.
LEMMA EndingKeepsTypes ==
  ASSUME TypeOK, NEW r \in Run, NEW s \in Terminal, NEW code \in ErrorCode,
         NEW es \in Seq(EventType),
         _terminalize(r, s, code, es), revision' \in [Thread -> Nat]
  PROVE  TypeOK'
<1> USE DEF TypeOK, Status, Terminal, NoToken, requestVars, leaseVars
<1>1. events' \in [Run -> Seq(EventType)]
  BY DEF _terminalize, _append_event
<1>2. status' \in [Run -> Status] /\ error_code' \in [Run -> ErrorCode]
  BY DEF _terminalize
<1>3. lease_token' \in [Run -> Nat] /\ lease_expires_at' \in [Run -> Int]
  BY DEF _terminalize, _clear_lease
<1> QED
  BY Zenon, <1>1, <1>2, <1>3 DEF _terminalize

\* A step that writes the row of a Run r preserves the types when the values
\* it writes have them.
LEMMA TypeStep == TypeOK /\ [Next]_vars => TypeOK'
<1> SUFFICES ASSUME TypeOK, [Next]_vars PROVE TypeOK'
  OBVIOUS
<1> USE RunStoreAssumption DEF TypeOK, Status, Terminal, ErrorCode, NoRevision,
        NoToken, requestVars, leaseVars, PENDING, CONFLICT, BLOCKED, SAFETY,
        EXECUTION
<1>0. \A es \in Seq(EventType), r \in Run :
        _append_event(r, es) => events' \in [Run -> Seq(EventType)]
  BY DEF _append_event
<1>a. now \in Int /\ now + LeaseDuration \in Int
  OBVIOUS
<1>1. CASE UNCHANGED vars
  BY Zenon, <1>1 DEF vars
<1>2. CASE AdvanceClock
  BY Zenon, <1>2 DEF AdvanceClock
<1>3. ASSUME NEW r \in Run, create_run_with_event(r) PROVE TypeOK'
  <2>1. <<"run.queued">> \in Seq(EventType)
    BY DEF EventType
  <2> QED
    BY Zenon, <1>3, <1>0, <2>1 DEF create_run_with_event, _insert_run
<1>4. ASSUME NEW r \in Run, claim_next_run(r) PROVE TypeOK'
  <2>1. /\ <<"run.recovered", "run.started">> \in Seq(EventType)
        /\ <<"run.started">> \in Seq(EventType)
    BY DEF EventType
  <2>2. events' \in [Run -> Seq(EventType)]
    BY Zenon, <1>4, <1>0, <2>1 DEF claim_next_run, Lease
  <2>3. /\ status' \in [Run -> Status]
        /\ attempt' \in [Run -> Nat]
        /\ lease_token' \in [Run -> Nat]
    BY <1>4 DEF claim_next_run, Lease
  <2>4. error_code' \in [Run -> ErrorCode]
    BY <1>4 DEF claim_next_run, Lease
  <2>5. lease_expires_at' \in [Run -> Int]
    BY <1>4, <1>a DEF claim_next_run, Lease
  <2>6. base' \in [Run -> Nat \cup {NoRevision}]
    BY Zenon, <1>4 DEF claim_next_run, Lease, Captured, _thread_revision
  <2> QED
    BY Zenon, <1>4, <2>2, <2>3, <2>4, <2>5, <2>6 DEF claim_next_run, Lease
<1>5. ASSUME NEW r \in Run, request_cancel_atomically(r) PROVE TypeOK'
  <2>1. <<"run.cancel_requested">> \in Seq(EventType)
    BY DEF EventType
  <2> QED
    BY Zenon, <1>5, <1>0, <2>1 DEF request_cancel_atomically
<1>6. ASSUME NEW r \in Run, append_control_plane_event(r) PROVE TypeOK'
  <2>1. <<"sandbox.completed">> \in Seq(EventType)
    BY DEF EventType
  <2> QED
    BY Zenon, <1>6, <1>0, <2>1 DEF append_control_plane_event
<1>7. ASSUME NEW r \in Run, NEW s \in Terminal, NEW code \in ErrorCode,
             NEW es \in Seq(EventType),
             _terminalize(r, s, code, es), revision' \in [Thread -> Nat]
      PROVE TypeOK'
  <2> HIDE DEF TypeOK, Terminal, ErrorCode
  <2> QED
    BY <1>7, EndingKeepsTypes
<1>8. /\ <<"run.cancelled">> \in Seq(EventType)
      /\ <<"run.failed">> \in Seq(EventType)
      /\ <<"checkpoint.conflict", "run.failed">> \in Seq(EventType)
      /\ <<"checkpoint.saved", "run.completed">> \in Seq(EventType)
  BY EventSequences
<1>9. ASSUME NEW r \in Run, finalize_next_queued_cancellation(r) PROVE TypeOK'
  BY Zenon, <1>9, <1>7, <1>8 DEF finalize_next_queued_cancellation
<1>10. ASSUME NEW r \in Run, NEW t \in Tokens(r), AttemptStep(r, t) PROVE TypeOK'
  <2>1. CASE renew_run_lease(r, t)
    BY Zenon, <2>1, <1>a DEF renew_run_lease
  <2>2. CASE expire_run_lease(r, t)
    BY Zenon, <2>2 DEF expire_run_lease
  <2>3. CASE append_attempt_event(r, t)
    <3>1. <<"checkpoint.loaded">> \in Seq(EventType)
      BY DEF EventType
    <3> QED
      BY Zenon, <2>3, <1>0, <3>1 DEF append_attempt_event
  <2>4. CASE commit_reconciliation_pending(r, t)
    BY Zenon, <2>4 DEF commit_reconciliation_pending
  <2>5. CASE commit_cancelled_run(r, t)
    BY Zenon, <2>5, <1>7, <1>8 DEF commit_cancelled_run
  <2>6. CASE commit_failed_run(r, t, EXECUTION, FALSE)
    BY Zenon, <2>6, <1>7, <1>8 DEF commit_failed_run
  <2>7. CASE commit_failed_run(r, t, SAFETY, TRUE)
    BY Zenon, <2>7, <1>7, <1>8 DEF commit_failed_run
  <2>8. CASE _fail_checkpoint_conflict(r, t)
    BY Zenon, <2>8, <1>7, <1>8 DEF _fail_checkpoint_conflict
  <2>9. CASE SaveCheckpoint(r, t)
    <3>1. revision' \in [Thread -> Nat]
      BY <2>9 DEF SaveCheckpoint
    <3> QED
      BY Zenon, <2>9, <3>1, <1>7, <1>8 DEF SaveCheckpoint
  <2> QED
    BY Zenon, <1>10, <2>1, <2>2, <2>3, <2>4, <2>5, <2>6, <2>7, <2>8, <2>9
    DEF AttemptStep, commit_checkpoint_conflict, commit_completed_run,
        RejectStaleResult
<1> QED
  BY Zenon, <1>1, <1>2, <1>3, <1>4, <1>5, <1>6, <1>9, <1>10 DEF Next

-----------------------------------------------------------------------------
(* What a step does to the status, base revision and checkpoint of Runs.  *)

Quiet ==
  /\ UNCHANGED <<thread_id, has_state, status, base, revision>>
  /\ \A r \in Run : ~Nonterminal(r) => cancel_requested'[r] = cancel_requested[r]

Dropped(r) ==
  /\ Nonterminal(r)
  /\ \E s \in {"failed", "cancelled"} : status' = [status EXCEPT ![r] = s]
  /\ UNCHANGED <<thread_id, has_state, cancel_requested, base, revision>>

Created(r) ==
  /\ status[r] = "absent"
  /\ status' = [status EXCEPT ![r] = "queued"]
  /\ base' = [base EXCEPT ![r] = IF has_state[r] THEN 0 ELSE NoRevision]
  /\ UNCHANGED <<thread_id, has_state, cancel_requested, revision>>

Claimed(r) ==
  /\ Candidate(r)
  /\ status' = [status EXCEPT ![r] = "running"]
  /\ base' = [base EXCEPT ![r] = IF @ = NoRevision THEN _thread_revision(r) ELSE @]
  /\ UNCHANGED <<thread_id, has_state, cancel_requested, revision>>

Saved(r) ==
  /\ status[r] = "running"
  /\ ~cancel_requested[r]
  /\ base[r] = _thread_revision(r)
  /\ status' = [status EXCEPT ![r] = "completed"]
  /\ revision' = [revision EXCEPT ![thread_id[r]] = @ + 1]
  /\ UNCHANGED <<thread_id, has_state, cancel_requested, base>>

\* Every step of the store is one of these five.
LEMMA StepShape ==
  ASSUME TypeOK, [Next]_vars
  PROVE  Quiet \/ \E r \in Run : Dropped(r) \/ Created(r) \/ Claimed(r) \/ Saved(r)
<1> USE DEF requestVars, leaseVars
<1>1. CASE UNCHANGED vars \/ AdvanceClock
  BY <1>1 DEF vars, AdvanceClock, Quiet
<1>2. ASSUME NEW r \in Run, create_run_with_event(r) PROVE Created(r)
  BY <1>2 DEF create_run_with_event, _insert_run, Created
<1>3. ASSUME NEW r \in Run, claim_next_run(r) PROVE Claimed(r)
  BY <1>3 DEF claim_next_run, Lease, Captured, Claimed
<1>4. ASSUME NEW r \in Run, request_cancel_atomically(r) PROVE Quiet
  BY Zenon, <1>4 DEF request_cancel_atomically, Quiet, TypeOK
<1>5. ASSUME NEW r \in Run, append_control_plane_event(r) PROVE Quiet
  BY <1>5 DEF append_control_plane_event, Quiet
<1>6. ASSUME NEW r \in Run, finalize_next_queued_cancellation(r) PROVE Dropped(r)
  BY <1>6 DEF finalize_next_queued_cancellation, QueuedCancellation, _terminalize,
              Dropped, Nonterminal
<1>7. ASSUME NEW r \in Run, NEW t \in Tokens(r), AttemptStep(r, t)
      PROVE  Quiet \/ Dropped(r) \/ Saved(r)
  <2>1. CASE \/ renew_run_lease(r, t) \/ expire_run_lease(r, t)
             \/ append_attempt_event(r, t) \/ commit_reconciliation_pending(r, t)
    BY <2>1 DEF renew_run_lease, expire_run_lease, append_attempt_event,
                commit_reconciliation_pending, Quiet
  <2>2. CASE commit_cancelled_run(r, t)
    BY <2>2 DEF commit_cancelled_run, _terminalize, Dropped
  <2>3. CASE \/ commit_failed_run(r, t, EXECUTION, FALSE)
             \/ commit_failed_run(r, t, SAFETY, TRUE)
    BY <2>3 DEF commit_failed_run, _terminalize, Dropped, Nonterminal
  <2>4. CASE _fail_checkpoint_conflict(r, t)
    BY <2>4 DEF _fail_checkpoint_conflict, _terminalize, Dropped, Nonterminal
  <2>5. CASE SaveCheckpoint(r, t)
    BY <2>5 DEF SaveCheckpoint, _terminalize, Saved
  <2> QED
    BY Zenon, <1>7, <2>1, <2>2, <2>3, <2>4, <2>5
    DEF AttemptStep, commit_checkpoint_conflict, commit_completed_run,
        RejectStaleResult
<1> QED
  BY <1>1, <1>2, <1>3, <1>4, <1>5, <1>6, <1>7 DEF Next

\* The thread's checkpoints stand when no Run completes and no revision moves.
LEMMA HistoryStands ==
  ASSUME LinearHistory, UNCHANGED <<thread_id, revision>>,
         \A q \in Run : /\ status'[q] = "completed" <=> status[q] = "completed"
                        /\ status[q] = "completed" => base'[q] = base[q]
  PROVE  LinearHistory'
BY DEF LinearHistory, SameThread, _thread_revision

\* commit_completed_run adds one checkpoint to the end of its thread's chain.
LEMMA SavingExtendsHistory ==
  ASSUME TypeOK, LinearHistory, NEW r \in Run, Saved(r)
  PROVE  LinearHistory'
<1> DEFINE th == thread_id[r]
<1>1. /\ \A q \in Run \ {r} : status'[q] = status[q]
      /\ status[r] = "running" /\ status'[r] = "completed"
      /\ base[r] = revision[th]
  BY DEF Saved, TypeOK, _thread_revision
<1>2. UNCHANGED <<thread_id, base>>
  BY DEF Saved
<1>3. /\ th \in Thread
      /\ revision'[th] = revision[th] + 1
      /\ \A u \in Thread \ {th} : revision'[u] = revision[u]
      /\ \A u \in Thread : revision[u] \in Nat
  BY DEF Saved, TypeOK
<1>4. \A q \in Run : thread_id[q] \in Thread /\ base[q] \in Int
  BY DEF TypeOK, NoRevision
<1>5. ASSUME NEW q \in Run, status'[q] = "completed"
      PROVE  base'[q] \in 0 .. revision'[thread_id'[q]] - 1
  BY <1>5, <1>1, <1>2, <1>3, <1>4 DEF LinearHistory, _thread_revision
<1>6. ASSUME NEW p \in Run, NEW q \in Run,
             status'[p] = "completed", status'[q] = "completed",
             thread_id'[p] = thread_id'[q], base'[p] = base'[q]
      PROVE  p = q
  BY <1>6, <1>1, <1>2, <1>3, <1>4 DEF LinearHistory, _thread_revision, SameThread
<1>7. ASSUME NEW u \in Thread, NEW n \in 0 .. revision'[u] - 1
      PROVE  \E q \in Run : status'[q] = "completed" /\ thread_id'[q] = u
                          /\ base'[q] = n
  <2>1. CASE u = th /\ n = revision[th]
    BY <2>1, <1>1, <1>2
  <2>2. CASE ~(u = th /\ n = revision[th])
    <3>1. n \in 0 .. revision[u] - 1
      BY <2>2, <1>3
    <3>2. PICK q \in Run : status[q] = "completed" /\ thread_id[q] = u /\ base[q] = n
      BY <3>1 DEF LinearHistory
    <3> QED
      BY <3>2, <1>1, <1>2
  <2> QED
    BY <2>1, <2>2
<1> QED
  BY <1>5, <1>6, <1>7 DEF LinearHistory, SameThread, _thread_revision

-----------------------------------------------------------------------------
(* The invariant is inductive. *)

\* Every transaction of the store preserves the invariant: one running Run per
\* thread is what keeps its captured revision in place until it commits.
LEMMA NextIInv == IInv /\ [Next]_vars => IInv'
<1> SUFFICES ASSUME IInv, [Next]_vars PROVE IInv'
  OBVIOUS
<1> USE DEF IInv
<1>0. TypeOK'
  BY TypeStep
<1>1. CASE Quiet
  <2>1. OneRunningPerThread' /\ CapturedRevisionHeld' /\ UnclaimedHasNoBase'
    BY Zenon, <1>1 DEF Quiet, OneRunningPerThread, SameThread, CapturedRevisionHeld,
                UnclaimedHasNoBase, load_thread_state_snapshot, _thread_revision
  <2>2. LinearHistory'
    BY <1>1 DEF Quiet, LinearHistory, SameThread, _thread_revision
  <2>3. CancellationBeatsCompletion'
    BY <1>1 DEF Quiet, CancellationBeatsCompletion, Nonterminal
  <2> QED
    BY <1>0, <2>1, <2>2, <2>3
<1>2. ASSUME NEW r \in Run, Dropped(r) PROVE IInv'
  <2>1. /\ \A q \in Run \ {r} : status'[q] = status[q]
        /\ status'[r] \in {"failed", "cancelled"}
        /\ status[r] \in {"queued", "running"}
    BY <1>2 DEF Dropped, TypeOK, Nonterminal
  <2>2. UNCHANGED <<thread_id, has_state, cancel_requested, base, revision>>
    BY <1>2 DEF Dropped
  <2>3. OneRunningPerThread' /\ CapturedRevisionHeld' /\ UnclaimedHasNoBase'
    BY <2>1, <2>2 DEF OneRunningPerThread, SameThread, CapturedRevisionHeld,
                UnclaimedHasNoBase, load_thread_state_snapshot, _thread_revision
  <2>4. \A q \in Run : status'[q] = "completed" <=> status[q] = "completed"
    BY <2>1
  <2>5. LinearHistory'
    BY <2>2, <2>4 DEF LinearHistory, SameThread, _thread_revision
  <2>6. CancellationBeatsCompletion'
    BY <2>2, <2>4 DEF CancellationBeatsCompletion
  <2> QED
    BY <1>0, <2>3, <2>5, <2>6
<1>3. ASSUME NEW r \in Run, Created(r) PROVE IInv'
  <2>1. /\ \A q \in Run \ {r} : status'[q] = status[q] /\ base'[q] = base[q]
        /\ status[r] = "absent" /\ status'[r] = "queued"
        /\ ~has_state[r] => base'[r] = NoRevision
    BY <1>3 DEF Created, TypeOK
  <2>2. UNCHANGED <<thread_id, has_state, cancel_requested, revision>>
    BY <1>3 DEF Created
  <2>3. OneRunningPerThread' /\ CapturedRevisionHeld' /\ UnclaimedHasNoBase'
    BY <2>1, <2>2 DEF OneRunningPerThread, SameThread, CapturedRevisionHeld,
                UnclaimedHasNoBase, load_thread_state_snapshot, _thread_revision
  <2>4. \A q \in Run : /\ status'[q] = "completed" <=> status[q] = "completed"
                       /\ status[q] = "completed" => base'[q] = base[q]
    BY <2>1
  <2>5. LinearHistory'
    BY <2>2, <2>4 DEF LinearHistory, SameThread, _thread_revision
  <2>6. CancellationBeatsCompletion'
    BY <2>2, <2>4 DEF CancellationBeatsCompletion
  <2> QED
    BY <1>0, <2>3, <2>5, <2>6
<1>4. ASSUME NEW r \in Run, Claimed(r) PROVE IInv'
  <2>1. /\ \A q \in Run \ {r} : status'[q] = status[q] /\ base'[q] = base[q]
        /\ status[r] \in {"queued", "running"} /\ status'[r] = "running"
        /\ base'[r] = IF base[r] = NoRevision THEN _thread_revision(r) ELSE base[r]
    BY <1>4 DEF Claimed, Candidate, FreshCandidate, ExpiredCandidate, TypeOK
  <2>2. UNCHANGED <<thread_id, has_state, cancel_requested, revision>>
    BY <1>4 DEF Claimed
  <2>3. OneRunningPerThread'
    BY <1>4, <2>1, <2>2 DEF OneRunningPerThread, SameThread, Claimed, Candidate,
                            FreshCandidate, ExpiredCandidate
  <2>4. CapturedRevisionHeld'
    <3>1. ~has_state[r] => base'[r] = _thread_revision(r)
      BY <2>1 DEF CapturedRevisionHeld, UnclaimedHasNoBase, load_thread_state_snapshot
    <3> QED
      BY Zenon, <2>1, <2>2, <3>1 DEF CapturedRevisionHeld, load_thread_state_snapshot,
                              _thread_revision
  <2>5. UnclaimedHasNoBase'
    BY <2>1, <2>2 DEF UnclaimedHasNoBase
  <2>6. \A q \in Run : /\ status'[q] = "completed" <=> status[q] = "completed"
                       /\ status[q] = "completed" => base'[q] = base[q]
    BY <2>1
  <2>7. LinearHistory'
    BY <2>2, <2>6 DEF LinearHistory, SameThread, _thread_revision
  <2>8. CancellationBeatsCompletion'
    BY <2>2, <2>6 DEF CancellationBeatsCompletion
  <2> QED
    BY <1>0, <2>3, <2>4, <2>5, <2>7, <2>8
<1>5. ASSUME NEW r \in Run, Saved(r) PROVE IInv'
  <2> DEFINE th == thread_id[r]
  <2>1. /\ \A q \in Run \ {r} : status'[q] = status[q]
        /\ status[r] = "running" /\ status'[r] = "completed"
        /\ ~cancel_requested[r]
        /\ base[r] = revision[th]
    BY <1>5 DEF Saved, TypeOK, _thread_revision
  <2>2. UNCHANGED <<thread_id, has_state, cancel_requested, base>>
    BY <1>5 DEF Saved
  <2>3. /\ th \in Thread
        /\ revision'[th] = revision[th] + 1
        /\ \A u \in Thread \ {th} : revision'[u] = revision[u]
        /\ \A u \in Thread : revision[u] \in Nat
    BY <1>5 DEF Saved, TypeOK
  <2>4. OneRunningPerThread'
    BY <2>1, <2>2 DEF OneRunningPerThread, SameThread
  <2>5. CapturedRevisionHeld'
    <3> SUFFICES ASSUME NEW q \in Run, status'[q] = "running", ~has_state'[q]
                 PROVE  base'[q] = revision'[thread_id'[q]]
      BY DEF CapturedRevisionHeld, load_thread_state_snapshot, _thread_revision
    <3>1. q # r /\ status[q] = "running" /\ ~has_state[q]
      BY <2>1, <2>2
    <3>2. thread_id[q] # th /\ thread_id[q] \in Thread
      BY Zenon, <3>1, <2>1 DEF OneRunningPerThread, SameThread, TypeOK
    <3> QED
      BY <2>2, <2>3, <3>1, <3>2 DEF CapturedRevisionHeld, load_thread_state_snapshot,
                              _thread_revision
  <2>6. UnclaimedHasNoBase'
    BY <2>1, <2>2 DEF UnclaimedHasNoBase
  <2>7. CancellationBeatsCompletion'
    BY <2>1, <2>2 DEF CancellationBeatsCompletion
  <2>9. LinearHistory'
    BY <1>5, SavingExtendsHistory
  <2> QED
    BY <1>0, <2>4, <2>5, <2>6, <2>7, <2>9
<1> QED
  BY <1>1, <1>2, <1>3, <1>4, <1>5, StepShape

\* The inductive invariant holds in every reachable state of the store.
THEOREM Invariance == Spec => []IInv
  BY InitIInv, NextIInv, PTL DEF Spec

-----------------------------------------------------------------------------
(* The safety invariants. *)

\* The tables keep their types through every operation.
THEOREM TypeCorrect == Spec => []TypeOK
<1>1. IInv => TypeOK
  BY DEF IInv
<1> QED
  BY <1>1, Invariance, PTL

\* claim_next_run never lets two Runs of a thread run at once, even when the
\* running one's lease has expired or the clock jumps.
THEOREM ThreadsAreSerial == Spec => []OneRunningPerThread
<1>1. IInv => OneRunningPerThread
  BY DEF IInv
<1> QED
  BY <1>1, Invariance, PTL

\* commit_completed_run builds one chain of checkpoints: no update is lost.
THEOREM HistoryIsLinear == Spec => []LinearHistory
<1>1. IInv => LinearHistory
  BY DEF IInv
<1> QED
  BY <1>1, Invariance, PTL

\* The revision captured by claim_next_run is still the thread's revision when
\* a Run without a client state commits.
THEOREM CapturedRevisionIsHeld == Spec => []CapturedRevisionHeld
<1>1. IInv => CapturedRevisionHeld
  BY DEF IInv
<1> QED
  BY <1>1, Invariance, PTL

\* commit_completed_run never completes a Run whose cancellation was accepted.
THEOREM CancellationWins == Spec => []CancellationBeatsCompletion
<1>1. IInv => CancellationBeatsCompletion
  BY DEF IInv
<1> QED
  BY <1>1, Invariance, PTL

-----------------------------------------------------------------------------
(* Action properties. *)

\* No commit decides a running Run's outcome without its unexpired lease.
THEOREM LeaseFencesOutcome == Spec => OnlyLiveLeaseTerminalizes
<1> DEFINE A == \A r \in Run :
      status[r] = "running" /\ status'[r] \in Terminal => LiveLease(r)
<1>1. ASSUME IInv, [Next]_vars PROVE A
  <2> SUFFICES ASSUME NEW r \in Run, status[r] = "running", status'[r] \in Terminal
               PROVE  LiveLease(r)
    OBVIOUS
  <2> USE <1>1 DEF IInv, TypeOK, Terminal, LiveLease
  <2>1. ASSUME NEW q \in Run, NEW t \in Tokens(q), AttemptStep(q, t) PROVE LiveLease(r)
    <3> USE DEF Tokens, NoToken, CurrentLease, leaseVars, requestVars
    <3>1. CASE \/ renew_run_lease(q, t) \/ expire_run_lease(q, t)
               \/ append_attempt_event(q, t) \/ commit_reconciliation_pending(q, t)
      BY Zenon, <3>1 DEF renew_run_lease, expire_run_lease, append_attempt_event,
                  commit_reconciliation_pending
    <3>2. CASE commit_cancelled_run(q, t)
      <4>1. CurrentLease(q, t) /\ status' = [status EXCEPT ![q] = "cancelled"]
        BY <3>2 DEF commit_cancelled_run, _terminalize
      <4> QED
        BY <4>1
    <3>3. CASE \/ commit_failed_run(q, t, EXECUTION, FALSE)
               \/ commit_failed_run(q, t, SAFETY, TRUE)
      <4>1. CurrentLease(q, t) /\ status' = [status EXCEPT ![q] = "failed"]
        BY Zenon, <3>3 DEF commit_failed_run, _terminalize
      <4> QED
        BY <4>1
    <3>4. CASE _fail_checkpoint_conflict(q, t)
      BY <3>4 DEF _fail_checkpoint_conflict, _terminalize
    <3>5. CASE SaveCheckpoint(q, t)
      BY <3>5 DEF SaveCheckpoint, _terminalize
    <3> QED
      BY Zenon, <2>1, <3>1, <3>2, <3>3, <3>4, <3>5
      DEF AttemptStep, commit_checkpoint_conflict, commit_completed_run,
          RejectStaleResult
  <2>2. ASSUME NEW q \in Run,
               \/ create_run_with_event(q) \/ claim_next_run(q)
               \/ request_cancel_atomically(q) \/ append_control_plane_event(q)
        PROVE LiveLease(r)
    BY Zenon, <2>2 DEF create_run_with_event, _insert_run, claim_next_run, Lease, request_cancel_atomically,
                append_control_plane_event
  <2>3. ASSUME NEW q \in Run, finalize_next_queued_cancellation(q) PROVE LiveLease(r)
    BY <2>3 DEF finalize_next_queued_cancellation, QueuedCancellation, _terminalize
  <2>4. CASE AdvanceClock \/ UNCHANGED vars
    BY <2>4 DEF AdvanceClock, vars
  <2> QED
    BY <2>1, <2>2, <2>3, <2>4 DEF Next
<1> QED
  BY <1>1, Invariance, PTL DEF Spec, OnlyLiveLeaseTerminalizes

\* A takeover keeps the base revision a Run captured at its first claim.
THEOREM TakeoverKeepsBase == Spec => BasePreserved
<1> DEFINE A == \A r \in Run : base[r] # NoRevision => base'[r] = base[r]
<1>1. ASSUME IInv, [Next]_vars PROVE A
  <2> SUFFICES ASSUME NEW r \in Run, base[r] # NoRevision PROVE base'[r] = base[r]
    OBVIOUS
  <2> USE <1>1 DEF IInv, TypeOK
  <2>1. CASE Quiet
    BY <2>1 DEF Quiet
  <2>2. ASSUME NEW q \in Run, Dropped(q) \/ Saved(q) PROVE base'[r] = base[r]
    BY <2>2 DEF Dropped, Saved
  <2>3. ASSUME NEW q \in Run, Created(q) PROVE base'[r] = base[r]
    BY <2>3 DEF Created, UnclaimedHasNoBase
  <2>4. ASSUME NEW q \in Run, Claimed(q) PROVE base'[r] = base[r]
    BY <2>4 DEF Claimed
  <2> QED
    BY Zenon, <2>1, <2>2, <2>3, <2>4, StepShape
<1> QED
  BY <1>1, Invariance, PTL DEF Spec, BasePreserved

-----------------------------------------------------------------------------
(* The store implements the abstract thread history. *)

\* SavedBy names the one completed Run that saved revision n.
LEMMA SavedByFact ==
  ASSUME TypeOK, LinearHistory, NEW th \in Thread, NEW n \in 1 .. revision[th]
  PROVE  /\ SavedBy(th, n) \in Run
         /\ status[SavedBy(th, n)] = "completed"
         /\ thread_id[SavedBy(th, n)] = th
         /\ base[SavedBy(th, n)] = n - 1
<1>1. n - 1 \in 0 .. revision[th] - 1
  BY DEF IInv, TypeOK
<1>2. PICK r \in Run : status[r] = "completed" /\ thread_id[r] = th /\ base[r] = n - 1
  BY <1>1 DEF IInv, LinearHistory
<1> QED
  BY <1>2 DEF SavedBy

\* Saved entries of the log never change.
LEMMA LogKept ==
  ASSUME TypeOK, LinearHistory, TypeOK', LinearHistory', UNCHANGED thread_id,
         \A q \in Run : status[q] = "completed" =>
                          status'[q] = "completed" /\ base'[q] = base[q],
         NEW th \in Thread, NEW n \in 1 .. revision[th], n \in 1 .. revision'[th]
  PROVE  SavedBy(th, n)' = SavedBy(th, n)
<1> DEFINE old == SavedBy(th, n)
           new == SavedBy(th, n)'
<1>1. /\ old \in Run /\ status[old] = "completed" /\ thread_id[old] = th
      /\ base[old] = n - 1
  BY SavedByFact
<1>2. PICK r \in Run : /\ status'[r] = "completed" /\ thread_id'[r] = th
                       /\ base'[r] = n - 1
  BY <1>1
<1>3. /\ new \in Run /\ status'[new] = "completed" /\ thread_id'[new] = th
      /\ base'[new] = n - 1
  BY <1>2 DEF SavedBy
<1>4. status'[old] = "completed" /\ thread_id'[old] = th /\ base'[old] = n - 1
  BY <1>1
<1>5. \A p, q \in Run :
        /\ status'[p] = "completed" /\ status'[q] = "completed"
        /\ thread_id'[p] = thread_id'[q] /\ base'[p] = base'[q]
        => p = q
  BY DEF IInv, LinearHistory, SameThread
<1> HIDE DEF old, new
<1>6. new = old
  BY <1>1, <1>3, <1>4, <1>5
<1> QED
  BY <1>6 DEF old, new

absPhase == [r \in Run |-> Phase(status[r])]
absLog == [th \in Thread |-> [n \in 1 .. revision[th] |-> SavedBy(th, n)]]

\* Writing a status moves exactly that Run's phase.
LEMMA PhaseWritten ==
  ASSUME TypeOK, NEW r \in Run, NEW s, status' = [status EXCEPT ![r] = s]
  PROVE  absPhase' = [absPhase EXCEPT ![r] = Phase(s)]
<1>1. \A q \in Run : status'[q] = IF q = r THEN s ELSE status[q]
  BY DEF TypeOK
<1>2. \A q \in Run : Phase(status'[q]) = IF q = r THEN Phase(s) ELSE Phase(status[q])
  BY <1>1
<1> QED
  BY Zenon, <1>2 DEF absPhase

\* Appending to a sequence given as a function on 1 .. m.
LEMMA AppendToFunction ==
  ASSUME NEW m \in Nat, NEW S, NEW f \in [1 .. m -> S], NEW x \in S
  PROVE  Append(f, x) = [n \in 1 .. m + 1 |-> IF n <= m THEN f[n] ELSE x]
<1>1. f \in Seq(S) /\ Len(f) = m
  OBVIOUS
<1> DEFINE g == Append(f, x)
<1>2. g \in Seq(S) /\ Len(g) = m + 1 /\ g[m + 1] = x /\ \A i \in 1 .. m : g[i] = f[i]
  BY <1>1
<1> HIDE DEF g
<1>3. g \in [1 .. m + 1 -> S]
  <2>1. DOMAIN g = 1 .. m + 1 /\ \A i \in 1 .. m + 1 : g[i] \in S
    BY <1>2
  <2>2. g = [i \in 1 .. m + 1 |-> g[i]]
    BY <1>2
  <2> QED
    BY Zenon, <2>1, <2>2
<1>4. g = [n \in 1 .. m + 1 |-> IF n <= m THEN f[n] ELSE x]
  BY <1>2, <1>3
<1> QED
  BY <1>4 DEF g

\* Steps that neither save nor change revisions leave the log alone.
LEMMA LogUnchanged ==
  ASSUME TypeOK, LinearHistory, TypeOK', LinearHistory', UNCHANGED <<thread_id, revision>>,
         \A q \in Run : status[q] = "completed" =>
                          status'[q] = "completed" /\ base'[q] = base[q]
  PROVE  absLog' = absLog
<1>1. ASSUME NEW th \in Thread PROVE
        [n \in 1 .. revision'[th] |-> SavedBy(th, n)'] = [n \in 1 .. revision[th] |-> SavedBy(th, n)]
  <2>1. \A n \in 1 .. revision[th] : SavedBy(th, n)' = SavedBy(th, n)
    BY LogKept
  <2> QED
    BY <2>1
<1> QED
  BY Zenon, <1>1 DEF absLog

\* A Run takes its thread, which nobody holds, or takes over its own lease.
Taken(r) ==
  /\ \/ status[r] = "running"
     \/ status[r] = "queued" /\ \A q \in Run : SameThread(q, r) => status[q] # "running"
  /\ status' = [status EXCEPT ![r] = "running"]
  /\ \A q \in Run \ {r} : base'[q] = base[q]
  /\ UNCHANGED <<thread_id, revision>>

\* A step of one of these shapes is a step of the abstract history or leaves it
\* unchanged.
LEMMA ShapeImplements ==
  ASSUME TypeOK, LinearHistory, TypeOK', LinearHistory',
         Quiet \/ \E r \in Run : Dropped(r) \/ Created(r) \/ Taken(r) \/ Saved(r)
  PROVE  History!Next \/ UNCHANGED History!vars
<1>1. CASE Quiet
  <2>1. absLog' = absLog
    BY Zenon, <1>1, LogUnchanged DEF Quiet
  <2>2. absPhase' = absPhase
    BY Zenon, <1>1 DEF Quiet, absPhase
  <2> QED
    BY Zenon, <1>1, <2>1, <2>2 DEF Quiet, History!vars, absLog, absPhase
<1>2. ASSUME NEW r \in Run, Dropped(r) PROVE History!Drop(r)
  <2>1. absLog' = absLog
    <3>1. \A q \in Run : status[q] = "completed" =>
                          status'[q] = "completed" /\ base'[q] = base[q]
      BY Zenon, <1>2 DEF Dropped, Nonterminal, TypeOK
    <3> QED
      BY <1>2, <3>1, LogUnchanged DEF Dropped
  <2>2. absPhase' = [absPhase EXCEPT ![r] = "dropped"]
    BY Zenon, <1>2, PhaseWritten DEF Dropped, Phase
  <2>3. absPhase[r] \in {"waiting", "active"}
    BY <1>2 DEF Dropped, Nonterminal, absPhase, Phase
  <2> QED
    BY <1>2, <2>1, <2>2, <2>3 DEF Dropped, History!Drop, absLog, absPhase
<1>3. ASSUME NEW r \in Run, Created(r) PROVE History!Submit(r)
  <2>1. absLog' = absLog
    <3>1. \A q \in Run : status[q] = "completed" =>
                          status'[q] = "completed" /\ base'[q] = base[q]
      BY Zenon, <1>3 DEF Created, TypeOK
    <3> QED
      BY <1>3, <3>1, LogUnchanged DEF Created
  <2>2. absPhase' = [absPhase EXCEPT ![r] = "waiting"]
    BY Zenon, <1>3, PhaseWritten DEF Created, Phase
  <2>3. absPhase[r] = "absent"
    BY <1>3 DEF Created, absPhase, Phase
  <2> QED
    BY <1>3, <2>1, <2>2, <2>3 DEF Created, History!Submit, absLog, absPhase
<1>4. ASSUME NEW r \in Run, Taken(r)
      PROVE  History!Start(r) \/ UNCHANGED History!vars
  <2>1. absLog' = absLog
    BY Zenon, <1>4, LogUnchanged DEF Taken, TypeOK
  <2>2. absPhase' = [absPhase EXCEPT ![r] = "active"]
    BY Zenon, <1>4, PhaseWritten DEF Taken, Phase
  <2>3. CASE status[r] = "queued"
    <3>1. absPhase[r] = "waiting"
      BY <2>3 DEF absPhase, Phase
    <3>2. \A q \in Run : thread_id[q] = thread_id[r] => absPhase[q] # "active"
      BY <1>4, <2>3 DEF Taken, SameThread, absPhase, Phase, TypeOK, Status, Terminal
    <3> QED
      BY Zenon, <1>4, <2>1, <2>2, <3>1, <3>2 DEF Taken, History!Start, absLog, absPhase
  <2>4. CASE status[r] = "running"
    <3>1. absPhase[r] = "active"
      BY <2>4 DEF absPhase, Phase
    <3>2. absPhase' = absPhase
      BY Zenon, <2>2, <3>1 DEF absPhase
    <3> QED
      BY Zenon, <1>4, <2>1, <3>2 DEF Taken, History!vars, absLog, absPhase
  <2> QED
    BY Zenon, <1>4, <2>3, <2>4 DEF Taken
<1>5. ASSUME NEW r \in Run, Saved(r) PROVE History!Save(r)
  <2>0. PICK th \in Thread, m \in Nat : th = thread_id[r] /\ m = revision[th]
    BY Zenon DEF TypeOK
  <2>1. /\ revision' = [revision EXCEPT ![th] = @ + 1]
        /\ revision'[th] = m + 1
        /\ UNCHANGED <<thread_id, base>>
        /\ base[r] = m /\ status'[r] = "completed"
        /\ \A u \in Thread : revision[u] \in Nat
    BY Zenon, <1>5, <2>0 DEF Saved, TypeOK, _thread_revision
  <2>2. \A q \in Run : status[q] = "completed" =>
                        status'[q] = "completed" /\ base'[q] = base[q]
    BY Zenon, <1>5 DEF Saved, TypeOK
  <2>3. ASSUME NEW u \in Thread, NEW n \in 1 .. revision[u]
        PROVE  SavedBy(u, n)' = SavedBy(u, n)
    <3>1. n \in 1 .. revision'[u]
      BY <2>1 DEF TypeOK
    <3> QED
      BY Zenon, <2>1, <2>2, <3>1, LogKept
  <2>4. SavedBy(th, m + 1)' = r
    <3> DEFINE P(q) == /\ status'[q] = "completed" /\ thread_id'[q] = th
                       /\ base'[q] = (m + 1) - 1
    <3>1. P(r)
      BY <2>0, <2>1
    <3>2. P(CHOOSE q \in Run : P(q)) /\ (CHOOSE q \in Run : P(q)) \in Run
      BY <3>1
    <3>3. \A q \in Run : P(q) => q = r
      BY <3>1 DEF LinearHistory, SameThread
    <3>4. SavedBy(th, m + 1)' = CHOOSE q \in Run : P(q)
      BY DEF SavedBy
    <3> QED
      BY Zenon, <3>2, <3>3, <3>4
  <2>5. absPhase' = [absPhase EXCEPT ![r] = "saved"]
    BY Zenon, <1>5, PhaseWritten DEF Saved, Phase
  <2>6. absPhase[r] = "active"
    BY <1>5 DEF Saved, absPhase, Phase
  <2>7. absLog' = [absLog EXCEPT ![th] = Append(@, r)]
    <3>1. ASSUME NEW u \in Thread \ {th} PROVE absLog'[u] = absLog[u]
      <4>1. revision'[u] = revision[u]
        BY Zenon, <2>1 DEF TypeOK
      <4> QED
        BY <2>3, <4>1 DEF absLog
    <3>2. absLog[th] \in [1 .. m -> Run]
      BY Zenon, SavedByFact, <2>0 DEF absLog
    <3>3. absLog'[th] = [n \in 1 .. m + 1 |-> SavedBy(th, n)']
      BY <2>1 DEF absLog
    <3>4. ASSUME NEW n \in 1 .. m + 1
          PROVE  SavedBy(th, n)' = IF n <= m THEN absLog[th][n] ELSE r
      <4>1. CASE n = m + 1
        BY <2>4, <4>1
      <4>2. CASE n \in 1 .. m
        BY <2>0, <2>3, <4>2 DEF absLog
      <4> QED
        BY <4>1, <4>2
    <3>5. absLog'[th] = [n \in 1 .. m + 1 |-> IF n <= m THEN absLog[th][n] ELSE r]
      BY Zenon, <3>3, <3>4
    <3>6. absLog'[th] = Append(absLog[th], r)
      BY <3>2, <3>5, AppendToFunction
    <3> QED
      BY Zenon, <3>1, <3>6, <2>1 DEF absLog
  <2> QED
    BY Zenon, <1>5, <2>0, <2>5, <2>6, <2>7 DEF Saved, History!Save, absLog, absPhase
<1> QED
  BY <1>1, <1>2, <1>3, <1>4, <1>5 DEF History!Next

\* So is the initial state, with no Runs and no checkpoints.
LEMMA InitImplements == Init => History!Init
<1> SUFFICES ASSUME Init PROVE History!Init
  OBVIOUS
<1>1. [r \in Run |-> Phase(status[r])] = [r \in Run |-> "absent"]
  BY DEF Init, Phase
<1>2. [th \in Thread |-> [n \in 1 .. revision[th] |-> SavedBy(th, n)]]
        = [th \in Thread |-> <<>>]
  BY DEF Init
<1> QED
  BY <1>1, <1>2 DEF Init, History!Init

\* Every step of the store is a step of the abstract history or leaves it
\* unchanged.
THEOREM RefinesThreadHistory == Spec => ImplementsThreadHistory
<1>1. IInv /\ IInv' /\ [Next]_vars => [History!Next]_(History!vars)
  <2> SUFFICES ASSUME IInv, IInv', [Next]_vars
               PROVE  History!Next \/ UNCHANGED History!vars
    OBVIOUS
  <2>1. ASSUME NEW r \in Run, Claimed(r) PROVE Taken(r)
    BY Zenon, <2>1 DEF Claimed, Candidate, FreshCandidate, ExpiredCandidate, Taken, IInv, TypeOK
  <2> QED
    BY <2>1, StepShape, ShapeImplements DEF IInv
<1> QED
  BY <1>1, InitImplements, InitIInv, Invariance, PTL
  DEF Spec, ImplementsThreadHistory, History!Spec

-----------------------------------------------------------------------------
(* What every operation does to the columns that decide over a Run: its      *)
(* status, its lease, its cancellation and its attempts.                     *)

\* The row of a Run is left alone.
Untouched(r) ==
  /\ status'[r] = status[r]
  /\ cancel_requested'[r] = cancel_requested[r]
  /\ attempt'[r] = attempt[r]
  /\ error_code'[r] = error_code[r]
  /\ lease_token'[r] = lease_token[r]
  /\ lease_expires_at'[r] = lease_expires_at[r]

\* A claim gives a candidate a new lease.
Leased(r) ==
  /\ Candidate(r)
  /\ \A q \in Run : Candidate(q) => r <= q
  /\ status'[r] = "running"
  /\ attempt'[r] = attempt[r] + 1
  /\ cancel_requested'[r] = cancel_requested[r]
  /\ lease_token'[r] = attempt[r] + 1

\* The holder of a lease renews or relinquishes it, or leaves a note.
Kept(r) ==
  /\ status[r] = "running" /\ status'[r] = status[r]
  /\ cancel_requested'[r] = cancel_requested[r]
  /\ attempt'[r] = attempt[r]
  /\ lease_token[r] # NoToken /\ lease_token'[r] = lease_token[r]
  /\ \/ LiveLease(r)
     \/ lease_expires_at'[r] \in {lease_expires_at[r], now}

\* The Run ends, a running one under its live lease.
Ended(r) ==
  /\ Nonterminal(r) /\ status'[r] \in Terminal
  /\ status[r] = "running" => LiveLease(r)
  /\ cancel_requested'[r] = cancel_requested[r]
  /\ attempt'[r] = attempt[r]
  /\ lease_token'[r] = NoToken

\* The row appears, or a cancellation is noted on it.
Noted(r) ==
  /\ \/ status[r] = "absent" /\ status'[r] = "queued"
     \/ Nonterminal(r) /\ status'[r] = status[r]
  /\ attempt'[r] = attempt[r]
  /\ error_code'[r] = error_code[r]
  /\ lease_token'[r] = lease_token[r]
  /\ lease_expires_at'[r] = lease_expires_at[r]

\* Every step of the store leaves all Runs but one alone, and does one of four
\* things to that one.
LEMMA RowShape ==
  ASSUME TypeOK, [Next]_vars
  PROVE  \/ \A q \in Run : Untouched(q)
         \/ /\ now' = now
            /\ \E r \in Run :
                 /\ Leased(r) \/ Kept(r) \/ Ended(r) \/ Noted(r)
                 /\ \A q \in Run \ {r} : Untouched(q)
<1> USE DEF requestVars, leaseVars, TypeOK
<1>1. CASE UNCHANGED vars \/ AdvanceClock
  BY <1>1 DEF vars, AdvanceClock, Untouched
<1>2. ASSUME NEW r \in Run, create_run_with_event(r)
      PROVE  now' = now /\ Noted(r) /\ \A q \in Run \ {r} : Untouched(q)
  BY <1>2 DEF create_run_with_event, _insert_run, Noted, Untouched
<1>3. ASSUME NEW r \in Run, claim_next_run(r)
      PROVE  now' = now /\ Leased(r) /\ \A q \in Run \ {r} : Untouched(q)
  BY <1>3 DEF claim_next_run, Lease, Leased, Untouched
<1>4. ASSUME NEW r \in Run, request_cancel_atomically(r)
      PROVE  now' = now /\ Noted(r) /\ \A q \in Run \ {r} : Untouched(q)
  BY <1>4 DEF request_cancel_atomically, Noted, Untouched
<1>5. ASSUME NEW r \in Run, append_control_plane_event(r)
      PROVE  \A q \in Run : Untouched(q)
  BY <1>5 DEF append_control_plane_event, Untouched
<1>6. ASSUME NEW r \in Run, finalize_next_queued_cancellation(r)
      PROVE  now' = now /\ Ended(r) /\ \A q \in Run \ {r} : Untouched(q)
  BY <1>6 DEF finalize_next_queued_cancellation, QueuedCancellation, _terminalize,
     _clear_lease, Ended, Untouched, Nonterminal, Terminal
<1>7. ASSUME NEW r \in Run, NEW t \in Tokens(r), AttemptStep(r, t)
      PROVE  /\ now' = now
             /\ Kept(r) \/ Ended(r)
             /\ \A q \in Run \ {r} : Untouched(q)
  <2> USE DEF Tokens, NoToken, CurrentLease, LiveLease
  <2>1. CASE renew_run_lease(r, t)
    BY <2>1 DEF renew_run_lease, Kept, Untouched
  <2>2. CASE expire_run_lease(r, t)
    BY <2>2 DEF expire_run_lease, Kept, Untouched
  <2>3. CASE append_attempt_event(r, t) \/ commit_reconciliation_pending(r, t)
    BY <2>3 DEF append_attempt_event, assert_current_run_lease,
       commit_reconciliation_pending, Kept, Untouched
  <2>4. ASSUME NEW s \in Terminal, NEW code, NEW es, Nonterminal(r), CurrentLease(r, t),
               _terminalize(r, s, code, es)
        PROVE  now' = now /\ Ended(r) /\ \A q \in Run \ {r} : Untouched(q)
    BY <2>4 DEF _terminalize, _clear_lease, Ended, Untouched
  <2>5. "cancelled" \in Terminal /\ "failed" \in Terminal /\ "completed" \in Terminal
    BY DEF Terminal
  <2>6. CASE commit_cancelled_run(r, t)
    BY <2>4, <2>5, <2>6 DEF commit_cancelled_run
  <2>7. CASE \/ commit_failed_run(r, t, EXECUTION, FALSE)
             \/ commit_failed_run(r, t, SAFETY, TRUE)
    BY <2>4, <2>5, <2>7 DEF commit_failed_run, Nonterminal
  <2>8. CASE _fail_checkpoint_conflict(r, t)
    BY <2>4, <2>5, <2>8 DEF _fail_checkpoint_conflict, Nonterminal
  <2>9. CASE SaveCheckpoint(r, t)
    BY <2>4, <2>5, <2>9 DEF SaveCheckpoint, Nonterminal
  <2> QED
    BY Zenon, <1>7, <2>1, <2>2, <2>3, <2>6, <2>7, <2>8, <2>9
    DEF AttemptStep, commit_checkpoint_conflict, commit_completed_run, RejectStaleResult
<1> QED
  BY Zenon, <1>1, <1>2, <1>3, <1>4, <1>5, <1>6, <1>7 DEF Next

-----------------------------------------------------------------------------
(* What a step may never do. *)

\* No claim takes a Run whose lease is live.
THEOREM LeaseIsNotStolen == Spec => LiveLeaseNotStolen
<1> DEFINE A == \A r \in Run :
      status[r] = "running" /\ LiveLease(r) /\ status'[r] = "running"
      => lease_token'[r] = lease_token[r]
<1>1. ASSUME TypeOK, [Next]_vars, NEW r \in Run,
             status[r] = "running", LiveLease(r), status'[r] = "running"
      PROVE  lease_token'[r] = lease_token[r]
  BY <1>1, RowShape DEF Untouched, Leased, Kept, Ended, Noted, Candidate,
     FreshCandidate, ExpiredCandidate, Terminal
<1>2. ASSUME TypeOK, [Next]_vars PROVE A
  BY <1>1, <1>2
<1> QED
  BY <1>2, TypeCorrect, PTL DEF Spec, LiveLeaseNotStolen

\* While the clock stands still no operation of an attempt makes its expired
\* lease live again.
THEOREM ExpiredStaysExpired == Spec => ExpiredLeaseNotRevived
<1> DEFINE A == \A r \in Run :
      /\ ~LiveLease(r)
      /\ attempt'[r] = attempt[r]
      /\ now' = now
      => ~LiveLease(r)'
<1>1. ASSUME TypeOK, [Next]_vars, NEW r \in Run,
             ~LiveLease(r), attempt'[r] = attempt[r], now' = now
      PROVE  ~LiveLease(r)'
  <2>1. now \in Int /\ lease_expires_at[r] \in Int /\ attempt[r] \in Nat
    BY <1>1, RunStoreAssumption DEF TypeOK
  <2>2. CASE Untouched(r) \/ Noted(r)
    BY <1>1, <2>2 DEF Untouched, Noted, LiveLease
  <2>3. CASE Kept(r)
    BY <1>1, <2>1, <2>3 DEF Kept, LiveLease
  <2>4. CASE Ended(r)
    BY <2>4 DEF Ended, LiveLease
  <2>5. CASE Leased(r)
    BY <1>1, <2>1, <2>5 DEF Leased
  <2> QED
    BY <1>1, <2>2, <2>3, <2>4, <2>5, RowShape
<1>2. ASSUME TypeOK, [Next]_vars PROVE A
  BY <1>1, <1>2
<1> QED
  BY <1>2, TypeCorrect, PTL DEF Spec, ExpiredLeaseNotRevived

\* The Runs of a thread start in the order of their submission.
THEOREM StartsInOrder == Spec => ThreadFifo
<1> DEFINE A == \A q, r \in Run :
      /\ status[r] = "queued" /\ status'[r] = "running"
      /\ SameThread(q, r) /\ q < r
      => ~(status[q] = "queued" /\ ~cancel_requested[q])
<1>1. ASSUME TypeOK, [Next]_vars, NEW q \in Run, NEW r \in Run,
             status[r] = "queued", status'[r] = "running", SameThread(q, r), q < r
      PROVE  ~(status[q] = "queued" /\ ~cancel_requested[q])
  <2>1. Leased(r)
    BY <1>1, RowShape DEF Untouched, Kept, Ended, Noted, Terminal
  <2>2. FreshCandidate(r)
    BY <1>1, <2>1 DEF Leased, Candidate, ExpiredCandidate
  <2>3. status[q] = "queued" /\ ~cancel_requested[q] => FreshCandidate(q)
    BY <1>1, <2>2 DEF FreshCandidate, SameThread
  <2> QED
    BY <1>1, <2>1, <2>3, RunStoreAssumption DEF Leased, Candidate
<1>2. ASSUME TypeOK, [Next]_vars PROVE A
  BY <1>1, <1>2
<1> QED
  BY <1>2, TypeCorrect, PTL DEF Spec, ThreadFifo

\* Nothing touches a Run that has ended.
THEOREM EndedIsFinal == Spec => TerminalIsFinal
<1> DEFINE A == \A r \in Run : status[r] \in Terminal =>
      /\ status'[r] = status[r]
      /\ cancel_requested'[r] = cancel_requested[r]
      /\ attempt'[r] = attempt[r]
      /\ error_code'[r] = error_code[r]
<1>1. ASSUME TypeOK, [Next]_vars, NEW r \in Run, status[r] \in Terminal
      PROVE  /\ status'[r] = status[r]
             /\ cancel_requested'[r] = cancel_requested[r]
             /\ attempt'[r] = attempt[r]
             /\ error_code'[r] = error_code[r]
  BY <1>1, RowShape DEF Untouched, Leased, Kept, Ended, Noted, Candidate,
     FreshCandidate, ExpiredCandidate, Terminal, Nonterminal
<1>2. ASSUME TypeOK, [Next]_vars PROVE A
  BY <1>1, <1>2
<1> QED
  BY <1>2, TypeCorrect, PTL DEF Spec, TerminalIsFinal

\* A Run whose cancellation was accepted while it waited is never claimed.
THEOREM CancelledNeverStarts == Spec => CancelledWhileQueuedNeverStarts
<1> DEFINE A == \A r \in Run : QueuedCancellation(r) => status'[r] # "running"
<1>1. ASSUME TypeOK, [Next]_vars, NEW r \in Run, QueuedCancellation(r)
      PROVE  status'[r] # "running"
  BY Zenon, <1>1, RowShape DEF Untouched, Leased, Kept, Ended, Noted, Candidate,
     FreshCandidate, ExpiredCandidate, Terminal, QueuedCancellation
<1>2. ASSUME TypeOK, [Next]_vars PROVE A
  BY <1>1, <1>2
<1> QED
  BY <1>2, TypeCorrect, PTL DEF Spec, CancelledWhileQueuedNeverStarts

\* A thread changes hands in order (claim_next_run, renew_run_lease).
THEOREM HandsOverInOrder == Spec => HandoverIsOrderly
BY StartsInOrder, LeaseIsNotStolen, ExpiredStaysExpired, TakeoverKeepsBase, PTL
DEF HandoverIsOrderly

\* The outcome of a Run is decided once, under its lease, and a cancellation
\* accepted before wins (the commit_ methods).
THEOREM OutcomeIsDecidedOnce == Spec => OutcomeStands
BY LeaseFencesOutcome, EndedIsFinal, CancellationWins, CancelledNeverStarts, PTL
DEF OutcomeStands
=============================================================================
