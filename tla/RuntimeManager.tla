--------------------------- MODULE RuntimeManager ---------------------------
(***************************************************************************)
(* RuntimeManager processes over one Run store: worker threads that claim  *)
(* and execute Runs, a heartbeat thread per admitted claim, graceful stop, *)
(* restart, process crashes and store exceptions.                          *)
(*                                                                         *)
(* One action is one store transaction or one critical section of a lock,  *)
(* so every interleaving of workers, heartbeats, stop() and the store is   *)
(* covered.  The store clock stays at its reading and Tick moves every     *)
(* deadline one unit closer instead, so time may pass forever.             *)
(***************************************************************************)
EXTENDS RunStore

CONSTANTS
  Manager,       \* RuntimeManager processes
  worker_count,  \* worker threads of each
  Budget         \* bound: how often each disturbance, and any of them, happens

NoOwner == "none"

ASSUME ManagerAssumption ==
  /\ worker_count \in Nat \ {0}
  /\ NoOwner \notin Manager
  /\ Budget \in [crash : Nat, stop : Nat, fault : Nat, late : Nat,
                 pending : Nat, cancel : Nat, any : Nat]

VARIABLES
  mgr,           \* lifecycle of a Manager: up, stopping, expiring, stopped
  pc,            \* where a worker thread stands, "exited" when not alive
  job,           \* the claim a worker executes and what it read from it
  lease_lost,    \* the latch of the worker's current claim
  heartbeat,     \* the heartbeat thread of the worker's current claim
  owned_claims,  \* _owned_claims: Run -> token, NoToken when there is none
  owner,         \* runs.lease_owner: the live Manager that last claimed the Run
  budget         \* disturbances left

managerVars ==
  <<mgr, pc, job, lease_lost, heartbeat, owned_claims, owner, budget>>
allVars == <<vars, managerVars>>

Worker == Manager \X (1 .. worker_count)
ManagerOf(w) == w[1]
WorkersOf(m) == {w \in Worker : ManagerOf(w) = m}

stop_claiming(m) == mgr[m] # "up"
renewals_disabled(m) == mgr[m] \in {"expiring", "stopped"}
is_alive(w) == pc[w] # "exited"

NoJob == [run |-> CHOOSE r \in Run : TRUE, token |-> NoToken,
          cancel |-> FALSE, reconcile |-> FALSE, safety |-> FALSE]

\* The worker still holds its Run's current, unexpired lease.
Holds(w) == job[w].token # NoToken /\ CurrentLease(job[w].run, job[w].token)

\* A claim is registered with the heartbeat table from admission to cleanup.
Registered(w) ==
  pc[w] \notin {"exited", "poll", "claim", "admit", "relinquish"}

Goto(w, label) == pc' = [pc EXCEPT ![w] = label]

Spend(b) == /\ budget[b] > 0 /\ budget.any > 0
            /\ budget' = [budget EXCEPT ![b] = @ - 1, !.any = @ - 1]

-----------------------------------------------------------------------------
(* _worker_loop: finalize one queued cancellation, else claim. *)

Poll(w) ==
  /\ pc[w] = "poll"
  /\ \/ /\ stop_claiming(ManagerOf(w))
        /\ Goto(w, "exited")
        /\ UNCHANGED vars
     \/ /\ ~stop_claiming(ManagerOf(w))
        /\ \E r \in Run : finalize_next_queued_cancellation(r)
        /\ UNCHANGED pc
     \/ /\ ~stop_claiming(ManagerOf(w))
        /\ ~\E r \in Run : QueuedCancellation(r)
        /\ Goto(w, "claim")
        /\ UNCHANGED vars
  /\ UNCHANGED <<mgr, job, lease_lost, heartbeat, owned_claims, owner, budget>>

\* The claim runs under the admission lock that stop() takes to close the gate.
Claim(w) ==
  /\ pc[w] = "claim"
  /\ UNCHANGED <<mgr, lease_lost, heartbeat, owned_claims, budget>>
  /\ \/ /\ stop_claiming(ManagerOf(w))
        /\ Goto(w, "exited")
        /\ UNCHANGED <<vars, job, owner>>
     \/ /\ ~stop_claiming(ManagerOf(w))
        /\ ~\E r \in Run : Candidate(r)
        /\ Goto(w, "poll")
        /\ UNCHANGED <<vars, job, owner>>
     \/ /\ ~stop_claiming(ManagerOf(w))
        /\ \E r \in Run :
             /\ claim_next_run(r)
             /\ owner' = [owner EXCEPT ![r] = ManagerOf(w)]
             /\ job' = [job EXCEPT ![w] =
                  [run |-> r, token |-> attempt[r] + 1,
                   cancel |-> cancel_requested[r],
                   reconcile |-> status[r] = "running" /\ error_code[r] = PENDING,
                   safety |-> FALSE]]
        /\ Goto(w, "admit")

\* The claim commits but its answer is lost: a retryable error strands the
\* lease until it expires.
ClaimAnswerLost(w) ==
  /\ pc[w] = "claim"
  /\ ~stop_claiming(ManagerOf(w))
  /\ \E r \in Run :
       claim_next_run(r) /\ owner' = [owner EXCEPT ![r] = ManagerOf(w)]
  /\ Spend("fault")
  /\ Goto(w, "poll")
  /\ UNCHANGED <<mgr, job, lease_lost, heartbeat, owned_claims>>

-----------------------------------------------------------------------------
(* _execute_claim: register with the heartbeat table, run, clean up. *)

Admit(w) ==
  /\ pc[w] = "admit"
  /\ IF renewals_disabled(ManagerOf(w))
     THEN /\ Goto(w, "relinquish")
          /\ UNCHANGED <<heartbeat, lease_lost, owned_claims>>
     ELSE /\ Goto(w, "load")
          /\ heartbeat' = [heartbeat EXCEPT ![w] = "waiting"]
          /\ lease_lost' = [lease_lost EXCEPT ![w] = FALSE]
          /\ owned_claims' = [owned_claims EXCEPT
                                ![ManagerOf(w)][job[w].run] = job[w].token]
  /\ UNCHANGED <<vars, mgr, job, owner, budget>>

\* expire_run_lease on a claim that stop() overtook; no row may match.
ExpireOrSkip(r, t) ==
  \/ expire_run_lease(r, t)
  \/ ~(status[r] = "running" /\ lease_token[r] = t) /\ UNCHANGED vars

Relinquish(w) ==
  /\ pc[w] = "relinquish"
  /\ ExpireOrSkip(job[w].run, job[w].token)
  /\ Goto(w, "poll")
  /\ UNCHANGED <<mgr, job, lease_lost, heartbeat, owned_claims, owner, budget>>

\* Mutant: the finally block leaves the heartbeat running.
Forget_heartbeat_runs(w, forgotten) ==
  /\ pc[w] \in {"cleanup", "dying"}
  /\ heartbeat[w] \notin {"renewing", "last"}
  /\ Goto(w, IF pc[w] = "dying" THEN "exited" ELSE "poll")
  /\ UNCHANGED <<vars, mgr, owner, job, lease_lost, heartbeat, owned_claims>>

\* The finally block: stop and join the heartbeat, then forget the claim
\* unless the store still names its token.  A failed read counts as another
\* token.
Forget(w, forgotten) ==
  /\ pc[w] \in {"cleanup", "dying"}
  /\ heartbeat[w] \notin {"renewing", "last"}
  /\ heartbeat' = [heartbeat EXCEPT ![w] = "off"]
  /\ LET r == job[w].run  m == ManagerOf(w) IN
     owned_claims' =
       IF forgotten /\ owned_claims[m][r] = job[w].token
       THEN [owned_claims EXCEPT ![m][r] = NoToken]
       ELSE owned_claims
  /\ Goto(w, IF pc[w] = "dying" THEN "exited" ELSE "poll")
  /\ job' = [job EXCEPT ![w] = NoJob]
  /\ lease_lost' = [lease_lost EXCEPT ![w] = FALSE]
  /\ UNCHANGED <<vars, mgr, owner>>

Cleanup(w) ==
  /\ Forget(w, lease_token[job[w].run] # job[w].token)
  /\ UNCHANGED budget

CleanupUnread(w) == Forget(w, TRUE) /\ Spend("fault")

-----------------------------------------------------------------------------
(* _execute_owned_run, one store call at a time. *)

Stay == UNCHANGED <<mgr, job, lease_lost, heartbeat, owned_claims, owner, budget>>

\* Mutant: the checkpoint is loaded whatever its revision.
Load_unchecked(w) ==
  /\ pc[w] = "load"
  /\ Goto(w, IF lease_lost[w] THEN "cleanup"
             ELSE IF job[w].cancel /\ ~job[w].reconcile THEN "cancel"
             ELSE "loaded")
  /\ UNCHANGED vars /\ Stay

\* A latched attempt stops here; a cancellation the claim saw is honoured
\* unless an external action must be reconciled first.
Load(w) ==
  /\ pc[w] = "load"
  /\ Goto(w, IF lease_lost[w] THEN "cleanup"
             ELSE IF job[w].cancel /\ ~job[w].reconcile THEN "cancel"
             ELSE IF load_thread_state_snapshot(job[w].run) THEN "loaded"
             ELSE "conflict")
  /\ UNCHANGED vars /\ Stay

\* A commit that matched no row sends the worker on by its typed outcome.  A
\* cancellation is then committed inside the try block ("cancelling") or by the
\* failure boundary ("cancel").
AfterRejected(w, label) ==
  IF _classify_commit_outcome(job[w].run, job[w].token) = "cancel_requested"
  THEN label ELSE "cleanup"

\* An attempt that must reconcile asks for quarantine instead, which the store
\* refuses here: only an attempt that lost its lease can find itself in
\* conflict then (HolderNeverConflicts).
Conflict(w) ==
  /\ pc[w] = "conflict"
  /\ LET r == job[w].run  t == job[w].token IN
     IF job[w].reconcile
     THEN Goto(w, "cleanup") /\ UNCHANGED vars
     ELSE IF status[r] = "running" /\ ~cancel_requested[r] /\ CurrentLease(r, t)
     THEN commit_checkpoint_conflict(r, t) /\ Goto(w, "cleanup")
     ELSE Goto(w, AfterRejected(w, "cancelling")) /\ UNCHANGED vars
  /\ Stay

\* Where an exception inside the try block leads.
Failure(w) == IF lease_lost[w] THEN "cleanup"
              ELSE IF job[w].reconcile THEN "pending" ELSE "failing"

\* append_attempt_event("checkpoint.loaded") is the first fenced write; a lost
\* lease raises into the failure boundary.
Loaded(w) ==
  /\ pc[w] = "loaded"
  /\ LET r == job[w].run  t == job[w].token IN
     IF assert_current_run_lease(r, t)
     THEN /\ Goto(w, "execute")
          /\ \/ append_attempt_event(r, t)
             \/ Len(events[r]) >= MaxEvents /\ UNCHANGED vars
     ELSE /\ Goto(w, Failure(w))
          /\ UNCHANGED vars
  /\ Stay

\* runtime.execute returns; raises; reports that cancellation was requested;
\* fails for the safety of an external action; or reports its outcome as still
\* undecided.  A local failure does not settle an undecided action.
Execute(w) ==
  /\ pc[w] = "execute"
  /\ UNCHANGED <<vars, mgr, lease_lost, heartbeat, owned_claims, owner>>
  /\ \/ /\ Goto(w, IF lease_lost[w] THEN "cleanup" ELSE "complete")
        /\ UNCHANGED <<job, budget>>
     \/ /\ Goto(w, Failure(w))
        /\ IF job[w].reconcile THEN Spend("pending") ELSE UNCHANGED budget
        /\ UNCHANGED job
     \/ /\ cancel_requested[job[w].run]
        /\ Goto(w, IF lease_lost[w] THEN "cleanup" ELSE "failing")
        /\ UNCHANGED <<job, budget>>
     \/ /\ Goto(w, IF lease_lost[w] THEN "cleanup" ELSE "failing")
        /\ job' = [job EXCEPT ![w].safety = TRUE]
        /\ UNCHANGED budget
     \/ /\ Goto(w, IF lease_lost[w] THEN "cleanup" ELSE "pending")
        /\ Spend("pending")
        /\ UNCHANGED job

Complete(w) ==
  /\ pc[w] = "complete"
  /\ LET r == job[w].run  t == job[w].token IN
     IF status[r] = "running" /\ ~cancel_requested[r] /\ CurrentLease(r, t)
     THEN commit_completed_run(r, t) /\ Goto(w, "cleanup")
     ELSE Goto(w, AfterRejected(w, "cancelling")) /\ UNCHANGED vars
  /\ Stay

Pending(w) ==
  /\ pc[w] = "pending"
  /\ LET r == job[w].run  t == job[w].token IN
     \/ commit_reconciliation_pending(r, t)
     \/ ~(status[r] = "running" /\ CurrentLease(r, t)) /\ UNCHANGED vars
  /\ Goto(w, "cleanup")
  /\ Stay

\* The failure boundary reads the latest row, then commits in a second
\* transaction.
Failing(w) ==
  /\ pc[w] = "failing"
  /\ Goto(w, IF cancel_requested[job[w].run] /\ ~job[w].safety THEN "cancel" ELSE "fail")
  /\ UNCHANGED vars /\ Stay

\* Mutant: every failure may be committed over a cancellation.
Fail_over_cancellation(w) ==
  /\ pc[w] = "fail"
  /\ LET r == job[w].run  t == job[w].token IN
     IF status[r] = "running" /\ CurrentLease(r, t)
     THEN /\ commit_failed_run(r, t, IF job[w].safety THEN SAFETY ELSE EXECUTION, TRUE)
          /\ Goto(w, "cleanup")
     ELSE /\ Goto(w, "cleanup")
          /\ UNCHANGED vars
  /\ Stay

Fail(w) ==
  /\ pc[w] = "fail"
  /\ LET r == job[w].run  t == job[w].token  safe == job[w].safety IN
     IF status[r] = "running" /\ (~cancel_requested[r] \/ safe) /\ CurrentLease(r, t)
     THEN /\ commit_failed_run(r, t, IF safe THEN SAFETY ELSE EXECUTION, safe)
          /\ Goto(w, "cleanup")
     ELSE /\ Goto(w, IF safe THEN "cleanup" ELSE AfterRejected(w, "cancel"))
          /\ UNCHANGED vars
  /\ Stay

Cancel(w) ==
  /\ pc[w] \in {"cancel", "cancelling"}
  /\ LET r == job[w].run  t == job[w].token IN
     \/ commit_cancelled_run(r, t)
     \/ ~(Nonterminal(r) /\ cancel_requested[r] /\ CurrentLease(r, t)) /\ UNCHANGED vars
  /\ Goto(w, "cleanup")
  /\ Stay

\* A store exception.  Inside the try block it enters the failure boundary;
\* raised by the boundary itself, or not retryable in the polling loop, it
\* ends the thread.  Relinquishing swallows it.
StoreFault(w) ==
  /\ Spend("fault")
  /\ \/ /\ pc[w] \in {"load", "loaded", "conflict", "complete", "cancelling"}
        /\ Goto(w, Failure(w))
     \/ /\ pc[w] \in {"cancel", "failing", "fail", "pending"}
        /\ Goto(w, "dying")
     \/ /\ pc[w] \in {"poll", "claim"}
        /\ Goto(w, "exited")
     \/ /\ pc[w] = "relinquish"
        /\ Goto(w, "poll")
  /\ UNCHANGED <<vars, mgr, job, lease_lost, heartbeat, owned_claims, owner>>

\* The result commits, but the answer is an exception: the failure boundary
\* meets a Run that is already terminal.
CompleteAnswerLost(w) ==
  /\ pc[w] = "complete"
  /\ commit_completed_run(job[w].run, job[w].token)
  /\ Spend("fault")
  /\ Goto(w, Failure(w))
  /\ UNCHANGED <<mgr, job, lease_lost, heartbeat, owned_claims, owner>>

-----------------------------------------------------------------------------
(* _heartbeat_loop. *)

HeartbeatWake(w) ==
  /\ heartbeat[w] = "waiting"
  /\ pc[w] \notin {"cleanup", "dying"}
  /\ heartbeat' = [heartbeat EXCEPT ![w] = "renewing"]
  /\ UNCHANGED <<vars, mgr, pc, job, lease_lost, owned_claims, owner, budget>>

\* "last": stop() set the event while the renewal was already under way.
HeartbeatRenew(w) ==
  /\ heartbeat[w] \in {"renewing", "last"}
  /\ LET r == job[w].run  t == job[w].token IN
     IF status[r] = "running" /\ CurrentLease(r, t)
     THEN /\ renew_run_lease(r, t)
          /\ heartbeat' = [heartbeat EXCEPT
                             ![w] = IF @ = "last" THEN "off" ELSE "waiting"]
          /\ UNCHANGED lease_lost
     ELSE /\ heartbeat' = [heartbeat EXCEPT ![w] = "off"]
          /\ lease_lost' = [lease_lost EXCEPT ![w] = TRUE]
          /\ UNCHANGED vars
  /\ UNCHANGED <<mgr, pc, job, owned_claims, owner, budget>>

HeartbeatFault(w) ==
  /\ heartbeat[w] \in {"renewing", "last"}
  /\ Spend("fault")
  /\ heartbeat' = [heartbeat EXCEPT ![w] = "off"]
  /\ lease_lost' = [lease_lost EXCEPT ![w] = TRUE]
  /\ UNCHANGED <<vars, mgr, pc, job, owned_claims, owner>>

-----------------------------------------------------------------------------
(* stop() and start(). *)

StopGate(m) ==
  /\ mgr[m] = "up"
  /\ Spend("stop")
  /\ mgr' = [mgr EXCEPT ![m] = "stopping"]
  /\ UNCHANGED <<vars, pc, job, lease_lost, heartbeat, owned_claims, owner>>

\* All workers joined, or the grace period ran out: cut renewals off, latch
\* what still runs, relinquish drained claims only when nothing runs.
StopCutoff(m) ==
  /\ mgr[m] = "stopping"
  /\ IF \E w \in WorkersOf(m) : is_alive(w)
     THEN /\ mgr' = [mgr EXCEPT ![m] = "stopped"]
          /\ lease_lost' = [w \in Worker |->
               lease_lost[w] \/ (ManagerOf(w) = m /\ Registered(w))]
          /\ heartbeat' = [w \in Worker |->
               IF ManagerOf(w) # m THEN heartbeat[w]
               ELSE CASE heartbeat[w] = "waiting" -> "off"
                      [] heartbeat[w] = "renewing" -> "last"
                      [] OTHER -> heartbeat[w]]
     ELSE /\ mgr' = [mgr EXCEPT ![m] = "expiring"]
          /\ UNCHANGED <<lease_lost, heartbeat>>
  /\ UNCHANGED <<vars, pc, job, owned_claims, owner, budget>>

Owned(m) == {r \in Run : owned_claims[m][r] # NoToken}

\* Mutant: claims are relinquished while a worker may still execute them.
_expire_claims_undrained(m) ==
  /\ mgr[m] \in {"expiring", "stopped"}
  /\ \E r \in Owned(m) :
       /\ ExpireOrSkip(r, owned_claims[m][r])
       /\ owned_claims' = [owned_claims EXCEPT ![m][r] = NoToken]
  /\ UNCHANGED <<mgr, pc, job, lease_lost, heartbeat, owner, budget>>

\* _expire_drained_claims, at the end of a drained stop() or on the next
\* start() when the last worker outlived the grace period.
_expire_drained_claims(m) ==
  /\ mgr[m] \in {"expiring", "stopped"}
  /\ \A w \in WorkersOf(m) : ~is_alive(w)
  /\ \E r \in Owned(m) :
       /\ ExpireOrSkip(r, owned_claims[m][r])
       /\ owned_claims' = [owned_claims EXCEPT ![m][r] = NoToken]
  /\ UNCHANGED <<mgr, pc, job, lease_lost, heartbeat, owner, budget>>

ExpireFault(m) ==
  /\ mgr[m] \in {"expiring", "stopped"}
  /\ \A w \in WorkersOf(m) : ~is_alive(w)
  /\ \E r \in Owned(m) : owned_claims' = [owned_claims EXCEPT ![m][r] = NoToken]
  /\ Spend("fault")
  /\ UNCHANGED <<vars, mgr, pc, job, lease_lost, heartbeat, owner>>

StopReturn(m) ==
  /\ mgr[m] = "expiring"
  /\ Owned(m) = {}
  /\ mgr' = [mgr EXCEPT ![m] = "stopped"]
  /\ UNCHANGED <<vars, pc, job, lease_lost, heartbeat, owned_claims, owner, budget>>

start(m) ==
  /\ mgr[m] = "stopped"
  /\ \A w \in WorkersOf(m) : ~is_alive(w)
  /\ Owned(m) = {}
  /\ mgr' = [mgr EXCEPT ![m] = "up"]
  /\ pc' = [w \in Worker |-> IF ManagerOf(w) = m THEN "poll" ELSE pc[w]]
  /\ UNCHANGED <<vars, job, lease_lost, heartbeat, owned_claims, owner, budget>>

\* The process dies: all its memory is gone, its leases are not.  Its successor
\* draws a new owner_id, so the old leases are no live Manager's.
Crash(m) ==
  /\ Spend("crash")
  /\ mgr' = [mgr EXCEPT ![m] = "stopped"]
  /\ pc' = [w \in Worker |-> IF ManagerOf(w) = m THEN "exited" ELSE pc[w]]
  /\ job' = [w \in Worker |-> IF ManagerOf(w) = m THEN NoJob ELSE job[w]]
  /\ lease_lost' = [w \in Worker |-> ManagerOf(w) # m /\ lease_lost[w]]
  /\ heartbeat' = [w \in Worker |-> IF ManagerOf(w) = m THEN "off" ELSE heartbeat[w]]
  /\ owned_claims' = [owned_claims EXCEPT ![m] = [r \in Run |-> NoToken]]
  /\ owner' = [r \in Run |-> IF owner[r] = m THEN NoOwner ELSE owner[r]]
  /\ UNCHANGED vars

-----------------------------------------------------------------------------
(* Clients and time. *)

Submit ==
  /\ \E r \in Run : create_run_with_event(r)
  /\ UNCHANGED managerVars

RequestCancel ==
  /\ \E r \in Run : request_cancel_atomically(r)
  /\ Spend("cancel")
  /\ UNCHANGED <<mgr, pc, job, lease_lost, heartbeat, owned_claims, owner>>

\* The heartbeat interval plus the lease-operation timeout is shorter than the
\* lease (checked by the constructor), so a claim that is admitted promptly and
\* whose heartbeat is scheduled is renewed in time; a lease lapses under it only
\* when the process is starved.
Healthy(w) ==
  /\ Holds(w)
  /\ \/ pc[w] = "admit"
     \/ heartbeat[w] \in {"waiting", "renewing"} /\ pc[w] \notin {"cleanup", "dying"}

Tick ==
  /\ \E r \in Run : LiveLease(r)
  /\ IF \E w \in Worker : Healthy(w) /\ lease_expires_at[job[w].run] = now + 1
     THEN Spend("late")
     ELSE UNCHANGED budget
  /\ lease_expires_at' = [r \in Run |->
       IF LiveLease(r) THEN lease_expires_at[r] - 1 ELSE lease_expires_at[r]]
  /\ UNCHANGED <<requestVars, status, cancel_requested, base, lease_token,
                 attempt, error_code, revision, events, now>>
  /\ UNCHANGED <<mgr, pc, job, lease_lost, heartbeat, owned_claims, owner>>

-----------------------------------------------------------------------------

ManagerInit ==
  /\ Init
  /\ mgr = [m \in Manager |-> "up"]
  /\ pc = [w \in Worker |-> "poll"]
  /\ job = [w \in Worker |-> NoJob]
  /\ lease_lost = [w \in Worker |-> FALSE]
  /\ heartbeat = [w \in Worker |-> "off"]
  /\ owned_claims = [m \in Manager |-> [r \in Run |-> NoToken]]
  /\ owner = [r \in Run |-> NoOwner]
  /\ budget = Budget

WorkerStep(w) ==
  \/ Poll(w) \/ Claim(w) \/ Admit(w) \/ Relinquish(w) \/ Cleanup(w)
  \/ Load(w) \/ Conflict(w) \/ Loaded(w) \/ Execute(w)
  \/ Complete(w) \/ Pending(w) \/ Failing(w) \/ Fail(w) \/ Cancel(w)

ManagerStep(m) == StopCutoff(m) \/ _expire_drained_claims(m) \/ StopReturn(m) \/ start(m)

ManagerNext ==
  \/ Submit \/ RequestCancel \/ Tick
  \/ \E w \in Worker :
       \/ WorkerStep(w) \/ ClaimAnswerLost(w) \/ StoreFault(w)
       \/ CompleteAnswerLost(w) \/ CleanupUnread(w)
       \/ HeartbeatWake(w) \/ HeartbeatRenew(w) \/ HeartbeatFault(w)
  \/ \E m \in Manager : ManagerStep(m) \/ StopGate(m) \/ ExpireFault(m) \/ Crash(m)

\* Worker and heartbeat threads are scheduled, runtime.execute returns, a
\* stopped Manager is started again and time passes.
Fairness ==
  /\ \A w \in Worker : WF_allVars(WorkerStep(w)) /\ WF_allVars(HeartbeatRenew(w))
  /\ \A m \in Manager : WF_allVars(ManagerStep(m))
  /\ WF_allVars(Tick)

ManagerSpec == ManagerInit /\ [][ManagerNext]_allVars /\ Fairness

-----------------------------------------------------------------------------
(* Properties. *)

\* Two workers, of one process or of two, never both hold a current lease on
\* Runs of the same thread.
ExclusiveExecution ==
  \A v, w \in Worker :
    Holds(v) /\ Holds(w) /\ SameThread(job[v].run, job[w].run) => v = w

\* A cancellation accepted while the failure boundary runs is masked only by an
\* external action whose outcome must not be hidden.
CancelMaskedOnlyBySafety ==
  \A r \in Run : status[r] = "failed" /\ cancel_requested[r] => error_code[r] = SAFETY

\* The state a Runtime was handed is still the thread's latest checkpoint for
\* as long as its attempt holds the lease, so the result can be committed.  An
\* attempt that must reconcile an external action never finds its captured
\* revision gone while it holds the lease: the quarantine branch of
\* _execute_owned_run takes effect only with a writer outside this system.
ExecutesOnCurrentState ==
  \A w \in Worker : Holds(w) =>
    /\ pc[w] \in {"loaded", "execute", "complete"} => load_thread_state_snapshot(job[w].run)
    /\ ~(pc[w] = "conflict" /\ job[w].reconcile)

\* From admission until its outcome is settled a worker may run Runtime code.
Executing(w) ==
  pc[w] \in {"load", "loaded", "conflict", "execute", "complete",
             "pending", "failing", "fail", "cancel", "cancelling"}

\* A lease is not taken from a worker that may still be executing: relinquishing
\* by stop(), start() or another worker concerns drained claims only.  Only the
\* passage of time ends such a lease.
RelinquishOnlyDrained ==
  [][\A w \in Worker :
       /\ Holds(w) /\ Executing(w)
       /\ Executing(w)' /\ job'[w].token = job[w].token
       /\ status'[job[w].run] = "running"
       => Holds(w)' \/ Tick]_allVars

\* A drained stop() hands over at once: when it returns, no Run has a live lease
\* of this Manager, unless a store call failed or a claim was starved past its
\* lease along the way.  A crash ends stop() without a return.
DrainedStopReleasesLeases ==
  [][\A m \in Manager : \A r \in Run :
       /\ mgr[m] = "expiring" /\ mgr'[m] = "stopped"
       /\ budget.fault = Budget.fault /\ budget.late = Budget.late
       => ~(owner'[r] = m /\ LiveLease(r)')]_allVars

\* stop() hands leases over as soon as their work is drained, and not before.
StopHandsOver == RelinquishOnlyDrained /\ DrainedStopReleasesLeases

\* Every submitted Run reaches a terminal state, whatever finite number of
\* crashes, stops, lost heartbeats, store errors and reconciliations intervene.
EveryRunEnds == \A r \in Run : status[r] = "queued" ~> status[r] \in Terminal
=============================================================================
