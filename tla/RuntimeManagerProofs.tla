------------------------ MODULE RuntimeManagerProofs ------------------------
(***************************************************************************)
(* Proofs about RuntimeManager for any number of processes and workers,    *)
(* Runs, threads and attempts, any lease duration and any number of        *)
(* crashes, stops, store errors and starved heartbeats.                    *)
(***************************************************************************)
EXTENDS RuntimeManager, RunStoreProofs

Label == {"exited", "poll", "claim", "admit", "relinquish", "cleanup", "dying", "load",
          "loaded", "conflict", "execute", "complete", "pending", "failing", "fail",
          "cancel", "cancelling"}

\* Where a worker has no claim, or none that it admitted.
Idle == {"exited", "poll", "claim"}
Unadmitted == {"admit", "relinquish"}

\* Where a worker relies on the checkpoint it has loaded.
Committed == {"loaded", "execute", "complete", "pending"}

Job == [run : Run \cup {NoJob.run}, token : Nat, cancel : BOOLEAN, reconcile : BOOLEAN,
        safety : BOOLEAN]

Spending == [crash : Nat, stop : Nat, fault : Nat, late : Nat, pending : Nat,
             cancel : Nat, any : Nat]

\* The memory of the processes.
ManagerTypeOK ==
  /\ mgr \in [Manager -> {"up", "stopping", "expiring", "stopped"}]
  /\ pc \in [Worker -> Label]
  /\ job \in [Worker -> Job]
  /\ lease_lost \in [Worker -> BOOLEAN]
  /\ heartbeat \in [Worker -> {"off", "waiting", "renewing", "last"}]
  /\ owned_claims \in [Manager -> [Run -> Nat]]
  /\ owner \in [Run -> Manager \cup {NoOwner}]
  /\ budget \in Spending /\ budget.fault <= Budget.fault /\ budget.late <= Budget.late

\* A worker past its claim has the token of one, and only an admitted claim has
\* a heartbeat.
ThreadsOK ==
  \A w \in Worker :
    /\ pc[w] \notin Idle => job[w].token # NoToken
    /\ heartbeat[w] # "off" => Registered(w)

\* A token is current only while its Run runs and was drawn by a claim, and a
\* Run that was not claimed has no error.
TokensSound ==
  \A r \in Run :
    /\ lease_token[r] <= attempt[r]
    /\ lease_token[r] # NoToken => status[r] = "running"
    /\ status[r] \in {"absent", "queued"} => error_code[r] = "none"

\* A Run marked for reconciliation can still load the revision it captured.
MarkedCanLoad ==
  \A r \in Run :
    status[r] = "running" /\ error_code[r] = PENDING => load_thread_state_snapshot(r)

\* Worker w executes the claim with token t of Run r.
Has(w, r, t) == job[w].run = r /\ job[w].token = t

\* No two workers have the same claim, and a process registers its own claims.
ClaimsAreApart ==
  /\ \A w \in Worker : job[w].token # NoToken =>
       job[w].run \in Run /\ job[w].token <= attempt[job[w].run]
  /\ \A v, w \in Worker : job[v].token # NoToken /\ Has(w, job[v].run, job[v].token) => v = w
  /\ \A m \in Manager, r \in Run : owned_claims[m][r] # NoToken =>
       /\ owned_claims[m][r] <= attempt[r]
       /\ \A w \in Worker : Has(w, r, owned_claims[m][r]) => ManagerOf(w) = m

\* The claim of w is still the Run's latest, expired or not.
Owns(w) == job[w].token # NoToken /\ lease_token[job[w].run] = job[w].token

\* The thread's checkpoint does not move under such a claim.
OwnersAreCurrent ==
  \A w \in Worker : Owns(w) =>
    /\ pc[w] \in Committed \/ job[w].reconcile => load_thread_state_snapshot(job[w].run)
    /\ ~(pc[w] = "conflict" /\ job[w].reconcile)

\* A live lease of a process is registered with it or about to be.
Accounted(r) ==
  \/ owned_claims[owner[r]][r] = lease_token[r]
  \/ \E w \in Worker : /\ ManagerOf(w) = owner[r] /\ pc[w] \in Unadmitted
                       /\ Has(w, r, lease_token[r])

Undisturbed == budget.fault = Budget.fault /\ budget.late = Budget.late

LeasesAccounted ==
  /\ \A w \in Worker : mgr[ManagerOf(w)] = "expiring" => ~is_alive(w)
  /\ Undisturbed =>
       /\ \A w \in Worker : pc[w] = "admit" => Holds(w)
       /\ \A r \in Run : LiveLease(r) /\ owner[r] # NoOwner => Accounted(r)

\* The inductive invariant.
ManagerInv ==
  /\ IInv /\ ManagerTypeOK /\ ThreadsOK /\ TokensSound /\ MarkedCanLoad
  /\ CancelMaskedOnlyBySafety /\ ClaimsAreApart /\ OwnersAreCurrent /\ LeasesAccounted

-----------------------------------------------------------------------------
(* Small facts. *)

\* Every worker thread belongs to a process.
LEMMA WorkersHaveManagers == \A w \in Worker : ManagerOf(w) \in Manager
BY DEF Worker, ManagerOf

\* A disturbance is taken off its own allowance, and no allowance grows.
LEMMA SpendingLeavesLess ==
  ASSUME ManagerTypeOK,
         NEW b \in {"crash", "stop", "fault", "late", "pending", "cancel"}, Spend(b)
  PROVE  /\ budget' \in Spending
         /\ budget'.fault <= budget.fault /\ budget'.late <= budget.late
         /\ b = "fault" => budget'.fault < Budget.fault
         /\ b = "late" => budget'.late < Budget.late
<1> DEFINE spent(n, k) == [budget EXCEPT ![b] = n, !.any = k]
<1>1. /\ budget \in Spending /\ budget[b] > 0 /\ budget.any > 0
      /\ budget' = spent(budget[b] - 1, budget.any - 1)
      /\ budget.fault <= Budget.fault /\ budget.late <= Budget.late
  BY Zenon DEF ManagerTypeOK, Spend
<1>2. \A f \in {"crash", "stop", "fault", "late", "pending", "cancel", "any"} :
        budget[f] \in Nat /\ Budget[f] \in Nat
  BY Zenon, <1>1, ManagerAssumption DEF Spending
<1>3. budget[b] - 1 \in Nat /\ budget.any - 1 \in Nat
  <2>1. \A n \in Nat : n > 0 => n - 1 \in Nat
    OBVIOUS
  <2>2. budget[b] \in Nat /\ budget["any"] \in Nat
    BY Zenon, <1>2
  <2> QED
    BY Zenon, <1>1, <2>1, <2>2
<1>4. ASSUME NEW n \in Nat, NEW k \in Nat
      PROVE  /\ spent(n, k) \in Spending
             /\ spent(n, k).fault = (IF b = "fault" THEN n ELSE budget.fault)
             /\ spent(n, k).late = (IF b = "late" THEN n ELSE budget.late)
  BY Zenon, <1>1 DEF Spending
<1> HIDE DEF spent
<1>5. /\ budget' \in Spending
      /\ budget'.fault = (IF b = "fault" THEN budget[b] - 1 ELSE budget.fault)
      /\ budget'.late = (IF b = "late" THEN budget[b] - 1 ELSE budget.late)
  BY Zenon, <1>1, <1>3, <1>4
<1> QED
  BY <1>1, <1>2, <1>5

\* One worker goes to a label, the others stay where they are.
LEMMA OneMoves ==
  ASSUME ManagerTypeOK, NEW w \in Worker, NEW label \in Label, Goto(w, label)
  PROVE  /\ pc' \in [Worker -> Label]
         /\ pc'[w] = label
         /\ \A v \in Worker \ {w} : pc'[v] = pc[v]
BY Zenon DEF ManagerTypeOK, Goto

\* owned_claims[m][r] becomes t.
Entered(m, r, t) == owned_claims' = [owned_claims EXCEPT ![m][r] = t]

\* One entry of one process's claim table is written.
LEMMA OneEntryWritten ==
  ASSUME ManagerTypeOK, NEW m \in Manager, NEW r \in Run, NEW t \in Nat, Entered(m, r, t)
  PROVE  /\ owned_claims' \in [Manager -> [Run -> Nat]]
         /\ owned_claims'[m][r] = t
         /\ \A n \in Manager, q \in Run :
              n # m \/ q # r => owned_claims'[n][q] = owned_claims[n][q]
BY DEF ManagerTypeOK, Entered

\* A worker past its claim presents a token that a claim of its Run drew.
LEMMA TokensWereDrawn ==
  ASSUME TypeOK, ManagerTypeOK, ThreadsOK, ClaimsAreApart, NEW w \in Worker,
         pc[w] \notin Idle
  PROVE  job[w].run \in Run /\ job[w].token \in Tokens(job[w].run)
<1>1. job[w].token # NoToken /\ job[w].token \in Nat
  BY DEF ThreadsOK, ManagerTypeOK, Job
<1>2. job[w].run \in Run /\ job[w].token <= attempt[job[w].run]
  BY Zenon, <1>1 DEF ClaimsAreApart
<1>3. attempt[job[w].run] \in Nat
  BY Zenon, <1>2 DEF TypeOK
<1> QED
  BY <1>1, <1>2, <1>3 DEF Tokens, NoToken

\* The empty job record a worker has between claims (_worker_loop).
LEMMA NoJobIsTyped == NoJob \in Job /\ NoJob.token = NoToken
BY DEF NoJob, Job, NoToken

-----------------------------------------------------------------------------
(* Who calls the store. *)

\* A client, or the janitor of queued cancellations.
ByClient ==
  \E r \in Run : \/ create_run_with_event(r) \/ request_cancel_atomically(r)
                 \/ finalize_next_queued_cancellation(r)

\* Worker w claims Run r and learns of it.
Takes(w, r) ==
  /\ pc[w] = "claim" /\ Goto(w, "admit")
  /\ claim_next_run(r)
  /\ owner' = [owner EXCEPT ![r] = ManagerOf(w)]
  /\ job' = [job EXCEPT ![w] =
       [run |-> r, token |-> attempt[r] + 1, cancel |-> cancel_requested[r],
        reconcile |-> status[r] = "running" /\ error_code[r] = PENDING,
        safety |-> FALSE]]
  /\ UNCHANGED <<mgr, lease_lost, heartbeat, owned_claims, budget>>

\* A worker claims a Run, or its claim commits and the answer is lost.
ByClaim ==
  \E r \in Run : claim_next_run(r) /\ (Spend("fault") \/ \E w \in Worker : Takes(w, r))

\* A worker or its heartbeat, under the worker's admitted claim.
ByAttempt(w) ==
  LET r == job[w].run  t == job[w].token IN
  /\ Registered(w)
  /\ \/ renew_run_lease(r, t)
     \/ append_attempt_event(r, t)
     \/ pc[w] = "pending" /\ commit_reconciliation_pending(r, t)
     \/ commit_cancelled_run(r, t)
     \/ commit_failed_run(r, t, EXECUTION, FALSE)
     \/ commit_failed_run(r, t, SAFETY, TRUE)
     \/ commit_checkpoint_conflict(r, t)
     \/ commit_completed_run(r, t)

\* A worker whose claim stop() overtook.
ByOvertaken(w) == pc[w] = "relinquish" /\ expire_run_lease(job[w].run, job[w].token)

\* A process none of whose workers is alive.
ByDrained(m) ==
  /\ \A w \in WorkersOf(m) : ~is_alive(w)
  /\ \E r \in Owned(m) : expire_run_lease(r, owned_claims[m][r])

\* The store changes by one call of one of them, or time passes.
StoreCall ==
  \/ UNCHANGED vars \/ Tick \/ ByClient \/ ByClaim
  \/ \E w \in Worker : ByAttempt(w) \/ ByOvertaken(w)
  \/ \E m \in Manager : ByDrained(m)

\* Every step of the processes makes at most one store call.
LEMMA StepsCallStore ==
  ASSUME ManagerTypeOK, ThreadsOK, [ManagerNext]_allVars
  PROVE  StoreCall
<1> USE DEF StoreCall
<1>1. CASE UNCHANGED allVars
  BY Zenon, <1>1 DEF allVars
<1>2. CASE Submit \/ RequestCancel \/ Tick
  BY Zenon, <1>2 DEF Submit, RequestCancel, ByClient
<1>3. ASSUME NEW w \in Worker,
             \/ Admit(w) \/ Cleanup(w) \/ Load(w) \/ Execute(w) \/ Failing(w)
             \/ StoreFault(w) \/ CleanupUnread(w) \/ HeartbeatWake(w) \/ HeartbeatFault(w)
      PROVE  StoreCall
  BY Zenon, <1>3 DEF Admit, Cleanup, Load, Execute, Failing, StoreFault, CleanupUnread,
     HeartbeatWake, HeartbeatFault, Forget
<1>4. ASSUME NEW w \in Worker, Poll(w) PROVE StoreCall
  BY Zenon, <1>4 DEF Poll, ByClient
<1>5. ASSUME NEW w \in Worker, Claim(w) \/ ClaimAnswerLost(w) PROVE StoreCall
  BY Zenon, <1>5 DEF Claim, ClaimAnswerLost, ByClaim, Takes
<1>6. ASSUME NEW w \in Worker, Relinquish(w) PROVE StoreCall
  BY Zenon, <1>6 DEF Relinquish, ExpireOrSkip, ByOvertaken
<1>7. ASSUME NEW w \in Worker, Conflict(w) PROVE StoreCall
  BY Zenon, <1>7 DEF Conflict, ByAttempt, Registered
<1>8. ASSUME NEW w \in Worker, Loaded(w) PROVE StoreCall
  BY Zenon, <1>8 DEF Loaded, ByAttempt, Registered
<1>9. ASSUME NEW w \in Worker, Complete(w) \/ CompleteAnswerLost(w) PROVE StoreCall
  BY Zenon, <1>9 DEF Complete, CompleteAnswerLost, ByAttempt, Registered
<1>10. ASSUME NEW w \in Worker, Pending(w) PROVE StoreCall
  BY Zenon, <1>10 DEF Pending, ByAttempt, Registered
<1>11. ASSUME NEW w \in Worker, Fail(w) PROVE StoreCall
  <2>1. job[w].safety \in BOOLEAN
    BY DEF ManagerTypeOK, Job
  <2>2. CASE job[w].safety
    BY Zenon, <1>11, <2>1, <2>2 DEF Fail, ByAttempt, Registered
  <2>3. CASE ~job[w].safety
    BY Zenon, <1>11, <2>1, <2>3 DEF Fail, ByAttempt, Registered
  <2> QED
    BY Zenon, <2>2, <2>3
<1>12. ASSUME NEW w \in Worker, Cancel(w) PROVE StoreCall
  BY Zenon, <1>12 DEF Cancel, ByAttempt, Registered
<1>13. ASSUME NEW w \in Worker, HeartbeatRenew(w) PROVE StoreCall
  <2>1. Registered(w)
    BY Zenon, <1>13 DEF HeartbeatRenew, ThreadsOK
  <2> QED
    BY Zenon, <1>13, <2>1 DEF HeartbeatRenew, ByAttempt
<1>14. ASSUME NEW m \in Manager,
              \/ StopCutoff(m) \/ StopReturn(m) \/ start(m) \/ StopGate(m)
              \/ ExpireFault(m) \/ Crash(m)
       PROVE  StoreCall
  BY Zenon, <1>14 DEF StopCutoff, StopReturn, start, StopGate, ExpireFault, Crash
<1>15. ASSUME NEW m \in Manager, _expire_drained_claims(m) PROVE StoreCall
  BY Zenon, <1>15 DEF _expire_drained_claims, ExpireOrSkip, ByDrained
<1> HIDE DEF StoreCall
<1> QED
  BY Zenon, <1>1, <1>2, <1>3, <1>4, <1>5, <1>6, <1>7, <1>8, <1>9, <1>10, <1>11, <1>12,
     <1>13, <1>14, <1>15 DEF ManagerNext, WorkerStep, ManagerStep

\* So every step of the processes is a step of the Run store, or time passes.
LEMMA StepsAreStoreSteps ==
  ASSUME TypeOK, ManagerTypeOK, ThreadsOK, ClaimsAreApart, StoreCall
  PROVE  [Next]_vars \/ Tick
<1>1. CASE UNCHANGED vars \/ Tick \/ ByClient \/ ByClaim
  BY Zenon, <1>1 DEF ByClient, ByClaim, Next
<1>2. ASSUME NEW r \in Run, NEW t \in Tokens(r), AttemptStep(r, t) PROVE Next
  BY Zenon, <1>2 DEF Next
<1>3. ASSUME NEW w \in Worker, ByAttempt(w) \/ ByOvertaken(w) PROVE Next
  <2>1. pc[w] \notin Idle
    BY Zenon, <1>3 DEF ByAttempt, ByOvertaken, Registered, Idle
  <2>2. job[w].run \in Run /\ job[w].token \in Tokens(job[w].run)
    BY Zenon, <2>1, TokensWereDrawn
  <2>3. AttemptStep(job[w].run, job[w].token)
    BY Zenon, <1>3 DEF ByAttempt, ByOvertaken, AttemptStep
  <2> QED
    BY Zenon, <1>2, <2>2, <2>3
<1>4. ASSUME NEW m \in Manager, ByDrained(m) PROVE Next
  <2>1. PICK r \in Run : owned_claims[m][r] # NoToken /\ expire_run_lease(r, owned_claims[m][r])
    BY Zenon, <1>4 DEF ByDrained, Owned
  <2>2. owned_claims[m][r] \in Nat /\ owned_claims[m][r] <= attempt[r] /\ attempt[r] \in Nat
    BY Zenon, <2>1 DEF ClaimsAreApart, ManagerTypeOK, TypeOK
  <2>3. owned_claims[m][r] \in Tokens(r)
    BY <2>1, <2>2 DEF Tokens, NoToken
  <2>4. AttemptStep(r, owned_claims[m][r])
    BY Zenon, <2>1 DEF AttemptStep
  <2> QED
    BY Zenon, <1>2, <2>3, <2>4
<1> QED
  BY Zenon, <1>1, <1>3, <1>4 DEF StoreCall

-----------------------------------------------------------------------------
(* The memory of the processes keeps its types. *)

Disturbance == {"crash", "stop", "fault", "late", "pending", "cancel"}

\* Where a worker has an admitted claim.
Busy == Label \ (Idle \cup Unadmitted)

\* A step spends at most one disturbance.
BudgetStep == UNCHANGED budget \/ \E b \in Disturbance : Spend(b)

\* The allowances stay natural numbers and never grow, so a history without
\* store errors and starved heartbeats had none before its last step either.
LEMMA BudgetKept ==
  ASSUME ManagerTypeOK, BudgetStep
  PROVE  /\ budget' \in Spending
         /\ budget'.fault <= Budget.fault /\ budget'.late <= Budget.late
         /\ Undisturbed' => Undisturbed /\ ~Spend("fault") /\ ~Spend("late")
<1>1. /\ budget \in Spending /\ budget.fault <= Budget.fault /\ budget.late <= Budget.late
      /\ Budget.fault \in Nat /\ Budget.late \in Nat
      /\ budget.fault \in Nat /\ budget.late \in Nat
  BY ManagerAssumption DEF ManagerTypeOK, Spending
<1>2. CASE UNCHANGED budget
  <2>1. Undisturbed' => ~Spend("fault") /\ ~Spend("late")
    <3>1. \A b \in {"fault", "late"} : Spend(b) =>
             \/ b = "fault" /\ budget'.fault < Budget.fault
             \/ b = "late" /\ budget'.late < Budget.late
      BY Zenon, SpendingLeavesLess
    <3>2. Undisturbed' => ~(budget'.fault < Budget.fault) /\ ~(budget'.late < Budget.late)
      BY <1>1, <1>2 DEF Undisturbed
    <3> QED
      BY Zenon, <3>1, <3>2
  <2> QED
    BY Zenon, <1>1, <1>2, <2>1 DEF Undisturbed
<1>3. ASSUME NEW b \in Disturbance, Spend(b)
      PROVE  /\ budget' \in Spending
             /\ budget'.fault <= Budget.fault /\ budget'.late <= Budget.late
             /\ Undisturbed' => Undisturbed /\ ~Spend("fault") /\ ~Spend("late")
  <2>1. /\ budget' \in Spending
        /\ budget'.fault <= budget.fault /\ budget'.late <= budget.late
    BY Zenon, <1>3, SpendingLeavesLess DEF Disturbance
  <2>2. /\ Spend("fault") => budget'.fault < Budget.fault
        /\ Spend("late") => budget'.late < Budget.late
    BY Zenon, SpendingLeavesLess
  <2>3. budget'.fault \in Nat /\ budget'.late \in Nat
    BY <2>1 DEF Spending
  <2> QED
    BY <1>1, <2>1, <2>2, <2>3 DEF Undisturbed
<1> QED
  BY Zenon, <1>2, <1>3 DEF BudgetStep

\* A worker with an admitted claim moves on within _execute_claim.
LEMMA BusyStepKeepsTypes ==
  ASSUME ManagerTypeOK, ThreadsOK, BudgetStep, NEW w \in Worker, NEW label \in Busy,
         pc[w] \in Busy, Goto(w, label),
         job' \in [Worker -> Job], \A v \in Worker : job'[v].token = job[v].token,
         UNCHANGED <<mgr, lease_lost, heartbeat, owned_claims, owner>>
  PROVE  ManagerTypeOK' /\ ThreadsOK'
<1>1. /\ pc' \in [Worker -> Label] /\ pc'[w] = label
      /\ \A v \in Worker \ {w} : pc'[v] = pc[v]
  BY Zenon, OneMoves DEF Busy
<1>2. ManagerTypeOK'
  BY Zenon, <1>1, BudgetKept DEF ManagerTypeOK
<1>3. \A v \in Worker : pc'[v] = pc[v] \/ (pc'[v] \in Busy /\ pc[v] \in Busy)
  BY Zenon, <1>1
<1>4. ThreadsOK'
  BY Zenon, <1>3 DEF ThreadsOK, Registered, Busy, Idle, Unadmitted
<1> QED
  BY Zenon, <1>2, <1>4

\* A worker without an admitted claim, and without one to come, moves on.
LEMMA IdleStepKeepsTypes ==
  ASSUME ManagerTypeOK, ThreadsOK, BudgetStep, NEW w \in Worker, NEW label \in Idle,
         pc[w] \in Idle \cup Unadmitted, Goto(w, label),
         owner' \in [Run -> Manager \cup {NoOwner}],
         UNCHANGED <<mgr, job, lease_lost, heartbeat, owned_claims>>
  PROVE  ManagerTypeOK' /\ ThreadsOK'
<1>1. /\ pc' \in [Worker -> Label] /\ pc'[w] = label
      /\ \A v \in Worker \ {w} : pc'[v] = pc[v]
  BY Zenon, OneMoves DEF Idle, Label
<1>2. ManagerTypeOK'
  BY Zenon, <1>1, BudgetKept DEF ManagerTypeOK
<1>3. heartbeat[w] = "off"
  BY Zenon DEF ThreadsOK, Registered, Idle, Unadmitted
<1>4. ThreadsOK'
  BY Zenon, <1>1, <1>3 DEF ThreadsOK, Registered
<1> QED
  BY Zenon, <1>2, <1>4

\* No worker moves.
LEMMA StillStepKeepsTypes ==
  ASSUME ManagerTypeOK, ThreadsOK, BudgetStep,
         UNCHANGED <<pc, job, owner>>,
         mgr' \in [Manager -> {"up", "stopping", "expiring", "stopped"}],
         lease_lost' \in [Worker -> BOOLEAN],
         heartbeat' \in [Worker -> {"off", "waiting", "renewing", "last"}],
         owned_claims' \in [Manager -> [Run -> Nat]],
         \A v \in Worker : heartbeat'[v] # "off" => heartbeat[v] # "off"
  PROVE  ManagerTypeOK' /\ ThreadsOK'
BY Zenon, BudgetKept DEF ManagerTypeOK, ThreadsOK, Registered

\* Every step spends at most one disturbance.
LEMMA StepsSpendOne == ASSUME [ManagerNext]_allVars PROVE BudgetStep
<1> USE DEF BudgetStep, Disturbance
<1>1. CASE UNCHANGED allVars \/ Submit \/ RequestCancel \/ Tick
  BY Zenon, <1>1 DEF allVars, managerVars, Submit, RequestCancel, Tick
<1>2. ASSUME NEW w \in Worker,
             \/ Poll(w) \/ Claim(w) \/ Admit(w) \/ Relinquish(w) \/ Cleanup(w)
             \/ ClaimAnswerLost(w) \/ StoreFault(w) \/ CompleteAnswerLost(w)
             \/ CleanupUnread(w) \/ HeartbeatWake(w) \/ HeartbeatRenew(w) \/ HeartbeatFault(w)
      PROVE  BudgetStep
  BY Zenon, <1>2 DEF Poll, Claim, Admit, Relinquish, Cleanup, ClaimAnswerLost, StoreFault,
     CompleteAnswerLost, CleanupUnread, HeartbeatWake, HeartbeatRenew, HeartbeatFault
<1>3. ASSUME NEW w \in Worker,
             \/ Load(w) \/ Conflict(w) \/ Loaded(w) \/ Complete(w) \/ Pending(w)
             \/ Failing(w) \/ Fail(w) \/ Cancel(w)
      PROVE  BudgetStep
  BY Zenon, <1>3 DEF Load, Conflict, Loaded, Complete, Pending, Failing, Fail, Cancel, Stay
<1>4. ASSUME NEW w \in Worker, Execute(w) PROVE BudgetStep
  BY Zenon, <1>4 DEF Execute
<1>5. ASSUME NEW m \in Manager,
              \/ StopCutoff(m) \/ StopReturn(m) \/ start(m) \/ StopGate(m)
              \/ ExpireFault(m) \/ Crash(m) \/ _expire_drained_claims(m)
       PROVE  BudgetStep
  BY Zenon, <1>5 DEF StopCutoff, StopReturn, start, StopGate, ExpireFault, Crash,
     _expire_drained_claims
<1> HIDE DEF BudgetStep
<1> QED
  BY Zenon, <1>1, <1>2, <1>3, <1>4, <1>5 DEF ManagerNext, WorkerStep, ManagerStep

\* Every step of the processes keeps the types of their memory, a token at
\* every worker past its claim, and heartbeats to admitted claims.
LEMMA StepsKeepTypes ==
  ASSUME TypeOK, ManagerTypeOK, ThreadsOK, ClaimsAreApart, [ManagerNext]_allVars
  PROVE  ManagerTypeOK' /\ ThreadsOK'
<1> DEFINE Goal == ManagerTypeOK' /\ ThreadsOK'
<1> SUFFICES Goal
  OBVIOUS
<1>0. BudgetStep
  BY Zenon, StepsSpendOne
<1>t. /\ mgr \in [Manager -> {"up", "stopping", "expiring", "stopped"}]
      /\ job \in [Worker -> Job]
      /\ lease_lost \in [Worker -> BOOLEAN]
      /\ heartbeat \in [Worker -> {"off", "waiting", "renewing", "last"}]
      /\ owned_claims \in [Manager -> [Run -> Nat]]
      /\ owner \in [Run -> Manager \cup {NoOwner}]
  BY Zenon DEF ManagerTypeOK
<1>o. ASSUME NEW m \in Manager, NEW r \in Run, owner' = [owner EXCEPT ![r] = m]
      PROVE  owner' \in [Run -> Manager \cup {NoOwner}]
  BY Zenon, <1>o, <1>t
<1>b. ASSUME NEW w \in Worker, pc[w] \in Busy, NEW label \in Busy, Goto(w, label),
             UNCHANGED <<mgr, job, lease_lost, heartbeat, owned_claims, owner>>
      PROVE  Goal
  BY Zenon, <1>0, <1>t, <1>b, BusyStepKeepsTypes
<1>l. /\ Busy = {"cleanup", "dying", "load", "loaded", "conflict", "execute", "complete",
                 "pending", "failing", "fail", "cancel", "cancelling"}
      /\ Idle = {"exited", "poll", "claim"} /\ Unadmitted = {"admit", "relinquish"}
  BY DEF Busy, Label, Idle, Unadmitted
<1>f. \A w \in Worker : Failure(w) \in Busy
  BY Zenon, <1>l DEF Failure
<1>r. \A w \in Worker :
        AfterRejected(w, "cancel") \in Busy /\ AfterRejected(w, "cancelling") \in Busy
  BY Zenon, <1>l DEF AfterRejected
<1>1. CASE UNCHANGED allVars \/ Submit \/ RequestCancel \/ Tick
  <2>1. UNCHANGED <<mgr, pc, job, lease_lost, heartbeat, owned_claims, owner>>
    BY Zenon, <1>1 DEF allVars, managerVars, Submit, RequestCancel, Tick
  <2> QED
    BY Zenon, <2>1, <1>0, <1>t, StillStepKeepsTypes
<1>2. ASSUME NEW w \in Worker, Poll(w) PROVE Goal
  <2>1. CASE UNCHANGED pc
    BY Zenon, <1>2, <2>1, <1>0, <1>t, StillStepKeepsTypes DEF Poll
  <2>2. ASSUME NEW label \in {"exited", "claim"}, Goto(w, label) PROVE Goal
    BY Zenon, <1>2, <2>2, <1>0, <1>t, <1>l, IdleStepKeepsTypes DEF Poll
  <2> QED
    BY Zenon, <1>2, <2>1, <2>2 DEF Poll
<1>3. ASSUME NEW w \in Worker, Claim(w), UNCHANGED <<job, owner>>,
             NEW label \in {"exited", "poll"}, Goto(w, label)
      PROVE  Goal
  BY Zenon, <1>3, <1>0, <1>t, <1>l, IdleStepKeepsTypes DEF Claim
<1>4. ASSUME NEW w \in Worker, NEW r \in Run, Takes(w, r) PROVE Goal
  <2>1. [run |-> r, token |-> attempt[r] + 1, cancel |-> cancel_requested[r],
         reconcile |-> status[r] = "running" /\ error_code[r] = PENDING,
         safety |-> FALSE] \in Job
    BY DEF TypeOK, Job
  <2>2. attempt[r] + 1 # NoToken
    BY DEF TypeOK, NoToken
  <2>3. /\ job' \in [Worker -> Job] /\ job'[w].token # NoToken
        /\ \A v \in Worker \ {w} : job'[v] = job[v]
    BY Zenon, <1>4, <1>t, <2>1, <2>2 DEF Takes
  <2>4. /\ pc' \in [Worker -> Label] /\ pc'[w] = "admit"
        /\ \A v \in Worker \ {w} : pc'[v] = pc[v]
    BY Zenon, <1>4, OneMoves DEF Label, Takes
  <2>5. owner' \in [Run -> Manager \cup {NoOwner}]
    BY Zenon, <1>4, <1>o, WorkersHaveManagers DEF Takes
  <2>6. ManagerTypeOK'
    BY Zenon, <1>4, <1>0, <1>t, <2>3, <2>4, <2>5, BudgetKept DEF ManagerTypeOK, Takes
  <2>7. heartbeat[w] = "off"
    BY Zenon, <1>4 DEF Takes, ThreadsOK, Registered
  <2>8. ThreadsOK'
    BY Zenon, <1>4, <2>3, <2>4, <2>7 DEF ThreadsOK, Registered, Takes
  <2> QED
    BY Zenon, <2>6, <2>8
<1>5. ASSUME NEW w \in Worker, ClaimAnswerLost(w) PROVE Goal
  <2>1. owner' \in [Run -> Manager \cup {NoOwner}]
    BY Zenon, <1>5, <1>o, WorkersHaveManagers DEF ClaimAnswerLost
  <2> QED
    BY Zenon, <1>5, <2>1, <1>0, <1>l, IdleStepKeepsTypes DEF ClaimAnswerLost
<1>6. ASSUME NEW w \in Worker, Admit(w) PROVE Goal
  <2>0. pc[w] = "admit" /\ UNCHANGED <<mgr, job, owner>>
    BY Zenon, <1>6 DEF Admit
  <2>1. /\ job[w].run \in Run /\ job[w].token \in Nat /\ job[w].token # NoToken
        /\ heartbeat[w] = "off"
    <3>1. pc[w] \notin Idle
      BY Zenon, <2>0, <1>l
    <3>2. job[w].run \in Run /\ job[w].token # NoToken
      BY Zenon, <3>1, TokensWereDrawn DEF ThreadsOK
    <3> QED
      BY Zenon, <2>0, <3>2, <1>t DEF Job, ThreadsOK, Registered
  <2>2. CASE renewals_disabled(ManagerOf(w))
    <3>1. /\ pc' \in [Worker -> Label] /\ pc'[w] = "relinquish"
          /\ \A v \in Worker \ {w} : pc'[v] = pc[v]
          /\ UNCHANGED <<heartbeat, lease_lost, owned_claims>>
      BY Zenon, <1>6, <2>2, OneMoves DEF Admit, Label
    <3>2. ManagerTypeOK'
      BY Zenon, <2>0, <3>1, <1>0, <1>t, BudgetKept DEF ManagerTypeOK
    <3>3. ThreadsOK'
      BY Zenon, <2>0, <2>1, <3>1 DEF ThreadsOK, Registered
    <3> QED
      BY Zenon, <3>2, <3>3
  <2>3. CASE ~renewals_disabled(ManagerOf(w))
    <3>1. /\ pc' \in [Worker -> Label] /\ pc'[w] = "load"
          /\ \A v \in Worker \ {w} : pc'[v] = pc[v]
      BY Zenon, <1>6, <2>3, OneMoves DEF Admit, Label
    <3>0. Entered(ManagerOf(w), job[w].run, job[w].token)
      BY Zenon, <1>6, <2>3 DEF Admit, Entered
    <3>2. owned_claims' \in [Manager -> [Run -> Nat]]
      BY Zenon, <2>1, <3>0, OneEntryWritten, WorkersHaveManagers
    <3>3. /\ heartbeat' = [heartbeat EXCEPT ![w] = "waiting"]
          /\ lease_lost' = [lease_lost EXCEPT ![w] = FALSE]
      BY Zenon, <1>6, <2>3 DEF Admit
    <3>4. ManagerTypeOK'
      BY Zenon, <2>0, <3>1, <3>2, <3>3, <1>0, <1>t, BudgetKept DEF ManagerTypeOK
    <3>5. ThreadsOK'
      BY Zenon, <2>0, <2>1, <3>1, <3>3, <1>t DEF ThreadsOK, Registered
    <3> QED
      BY Zenon, <3>4, <3>5
  <2> QED
    BY Zenon, <2>2, <2>3
<1>7. ASSUME NEW w \in Worker, Relinquish(w) PROVE Goal
  BY Zenon, <1>7, <1>0, <1>t, <1>l, IdleStepKeepsTypes DEF Relinquish
<1>8. ASSUME NEW w \in Worker, NEW forgotten, Forget(w, forgotten) PROVE Goal
  <2>0. NoToken \in Nat /\ NoJob \in Job /\ pc[w] \notin Idle
    BY Zenon, <1>8, <1>l, NoJobIsTyped DEF Forget, NoToken
  <2>1. job[w].run \in Run
    BY Zenon, <2>0, TokensWereDrawn
  <2>2. owned_claims' \in [Manager -> [Run -> Nat]]
    BY Zenon, <1>8, <2>0, <2>1, <1>t, OneEntryWritten, WorkersHaveManagers DEF Forget, Entered
  <2>3. /\ pc' \in [Worker -> Label] /\ pc'[w] \in {"exited", "poll"}
        /\ \A v \in Worker \ {w} : pc'[v] = pc[v]
    BY Zenon, <1>8, OneMoves DEF Forget, Label
  <2>4. /\ heartbeat' = [heartbeat EXCEPT ![w] = "off"]
        /\ lease_lost' = [lease_lost EXCEPT ![w] = FALSE]
        /\ job' = [job EXCEPT ![w] = NoJob]
        /\ UNCHANGED <<mgr, owner>>
    BY Zenon, <1>8 DEF Forget
  <2>5. ManagerTypeOK'
    BY Zenon, <2>0, <2>2, <2>3, <2>4, <1>0, <1>t, BudgetKept DEF ManagerTypeOK
  <2>6. ThreadsOK'
    BY Zenon, <2>3, <2>4, <1>t, <1>l DEF ThreadsOK, Registered
  <2> QED
    BY Zenon, <2>5, <2>6
<1>9. ASSUME NEW w \in Worker,
             \/ Load(w) \/ Conflict(w) \/ Loaded(w) \/ Complete(w) \/ Pending(w)
             \/ Failing(w) \/ Fail(w) \/ Cancel(w) \/ CompleteAnswerLost(w)
      PROVE  Goal
  <2>1. pc[w] \in Busy /\ UNCHANGED <<mgr, job, lease_lost, heartbeat, owned_claims, owner>>
    BY Zenon, <1>9, <1>l DEF Load, Conflict, Loaded, Complete, Pending, Failing, Fail, Cancel,
       CompleteAnswerLost, Stay
  <2>2. CASE Load(w) \/ Failing(w)
    BY Zenon, <2>1, <2>2, <1>b, <1>l DEF Load, Failing
  <2>3. CASE Conflict(w) \/ Complete(w)
    BY Zenon, <2>1, <2>3, <1>b, <1>l, <1>r DEF Conflict, Complete
  <2>4. CASE Loaded(w) \/ CompleteAnswerLost(w)
    BY Zenon, <2>1, <2>4, <1>b, <1>l, <1>f DEF Loaded, CompleteAnswerLost
  <2>5. CASE Fail(w)
    BY Zenon, <2>1, <2>5, <1>b, <1>l, <1>r DEF Fail
  <2>6. CASE Pending(w) \/ Cancel(w)
    BY Zenon, <2>1, <2>6, <1>b, <1>l DEF Pending, Cancel
  <2> QED
    BY Zenon, <1>9, <2>2, <2>3, <2>4, <2>5, <2>6
<1>10. ASSUME NEW w \in Worker, Execute(w) PROVE Goal
  <2>1. pc[w] \in Busy /\ UNCHANGED <<mgr, lease_lost, heartbeat, owned_claims, owner>>
    BY Zenon, <1>10, <1>l DEF Execute
  <2>2. \E label \in Busy : Goto(w, label)
    BY Zenon, <1>10, <1>l, <1>f DEF Execute
  <2> DEFINE j == [job[w] EXCEPT !.safety = TRUE]
  <2>3. job' = job \/ job' = [job EXCEPT ![w] = j]
    BY Zenon, <1>10 DEF Execute
  <2>4. j \in Job /\ j.token = job[w].token
    BY Zenon, <1>t DEF Job
  <2> HIDE DEF j
  <2>5. job' \in [Worker -> Job] /\ \A v \in Worker : job'[v].token = job[v].token
    BY Zenon, <2>3, <2>4, <1>t
  <2> QED
    BY Zenon, <2>1, <2>2, <2>5, <1>0, BusyStepKeepsTypes
<1>11. ASSUME NEW w \in Worker, StoreFault(w) PROVE Goal
  <2>1. UNCHANGED <<mgr, job, lease_lost, heartbeat, owned_claims, owner>>
    BY Zenon, <1>11 DEF StoreFault
  <2>2. \/ pc[w] \in Busy /\ \E label \in Busy : Goto(w, label)
        \/ pc[w] \in Idle \cup Unadmitted /\ \E label \in Idle : Goto(w, label)
    BY Zenon, <1>11, <1>l, <1>f DEF StoreFault
  <2> QED
    BY Zenon, <2>1, <2>2, <1>0, <1>t, <1>b, IdleStepKeepsTypes
<1>12. ASSUME NEW w \in Worker, HeartbeatWake(w) \/ HeartbeatRenew(w) \/ HeartbeatFault(w)
       PROVE  Goal
  <2>1. /\ UNCHANGED <<mgr, pc, job, owned_claims, owner>> /\ heartbeat[w] # "off"
        /\ lease_lost' = lease_lost \/ lease_lost' = [lease_lost EXCEPT ![w] = TRUE]
    BY Zenon, <1>12 DEF HeartbeatWake, HeartbeatRenew, HeartbeatFault
  <2>2. \E h \in {"off", "waiting", "renewing"} : heartbeat' = [heartbeat EXCEPT ![w] = h]
    BY Zenon, <1>12 DEF HeartbeatWake, HeartbeatRenew, HeartbeatFault
  <2>3. /\ lease_lost' \in [Worker -> BOOLEAN]
        /\ heartbeat' \in [Worker -> {"off", "waiting", "renewing", "last"}]
        /\ \A v \in Worker : heartbeat'[v] # "off" => heartbeat[v] # "off"
    BY Zenon, <2>1, <2>2, <1>t
  <2> QED
    BY Zenon, <2>1, <2>3, <1>0, <1>t, StillStepKeepsTypes
<1>13. ASSUME NEW m \in Manager, StopGate(m) \/ StopReturn(m) PROVE Goal
  <2>1. /\ UNCHANGED <<pc, job, lease_lost, heartbeat, owned_claims, owner>>
        /\ \E s \in {"stopping", "stopped"} : mgr' = [mgr EXCEPT ![m] = s]
    BY Zenon, <1>13 DEF StopGate, StopReturn
  <2>2. mgr' \in [Manager -> {"up", "stopping", "expiring", "stopped"}]
    BY Zenon, <2>1, <1>t
  <2> QED
    BY Zenon, <2>1, <2>2, <1>0, <1>t, StillStepKeepsTypes
<1>14. ASSUME NEW m \in Manager, _expire_drained_claims(m) \/ ExpireFault(m) PROVE Goal
  <2>1. /\ UNCHANGED <<mgr, pc, job, lease_lost, heartbeat, owner>>
        /\ \E r \in Run : Entered(m, r, NoToken)
    BY Zenon, <1>14 DEF _expire_drained_claims, ExpireFault, Owned, Entered
  <2>2. NoToken \in Nat
    BY DEF NoToken
  <2>3. owned_claims' \in [Manager -> [Run -> Nat]]
    BY Zenon, <2>1, <2>2, OneEntryWritten
  <2> QED
    BY Zenon, <2>1, <2>3, <1>0, <1>t, StillStepKeepsTypes
<1>15. ASSUME NEW m \in Manager, StopCutoff(m) PROVE Goal
  <2>1. UNCHANGED <<pc, job, owned_claims, owner>>
    BY Zenon, <1>15 DEF StopCutoff
  <2>2. mgr' \in [Manager -> {"up", "stopping", "expiring", "stopped"}]
    BY Zenon, <1>15, <1>t DEF StopCutoff
  <2>3. lease_lost' \in [Worker -> BOOLEAN]
    <3>1. \A w \in Worker : lease_lost[w] \/ (ManagerOf(w) = m /\ Registered(w)) \in BOOLEAN
      BY Zenon
    <3> QED
      BY Zenon, <1>15, <3>1, <1>t DEF StopCutoff
  <2>4. \/ UNCHANGED heartbeat
        \/ heartbeat' = [w \in Worker |->
               IF ManagerOf(w) # m THEN heartbeat[w]
               ELSE CASE heartbeat[w] = "waiting" -> "off"
                      [] heartbeat[w] = "renewing" -> "last"
                      [] OTHER -> heartbeat[w]]
    BY Zenon, <1>15 DEF StopCutoff
  <2>5. /\ heartbeat' \in [Worker -> {"off", "waiting", "renewing", "last"}]
        /\ \A v \in Worker : heartbeat'[v] # "off" => heartbeat[v] # "off"
    BY <2>4, <1>t
  <2> QED
    BY Zenon, <2>1, <2>2, <2>3, <2>5, <1>0, <1>t, StillStepKeepsTypes
<1>16. ASSUME NEW m \in Manager, start(m) PROVE Goal
  <2>1. /\ UNCHANGED <<job, lease_lost, heartbeat, owned_claims, owner>>
        /\ mgr' = [mgr EXCEPT ![m] = "up"]
        /\ pc' = [w \in Worker |-> IF ManagerOf(w) = m THEN "poll" ELSE pc[w]]
        /\ \A w \in WorkersOf(m) : ~is_alive(w)
    BY Zenon, <1>16 DEF start
  <2>2. pc' \in [Worker -> Label]
    BY Zenon, <2>1 DEF ManagerTypeOK, Label
  <2>3. mgr' \in [Manager -> {"up", "stopping", "expiring", "stopped"}]
    BY Zenon, <2>1, <1>t
  <2>4. ManagerTypeOK'
    BY Zenon, <2>1, <2>2, <2>3, <1>0, <1>t, BudgetKept DEF ManagerTypeOK
  <2>5. \A w \in Worker : pc'[w] = pc[w] \/ (pc[w] = "exited" /\ pc'[w] = "poll")
    BY Zenon, <2>1 DEF WorkersOf, is_alive
  <2>6. ThreadsOK'
    BY Zenon, <2>1, <2>5, <1>l DEF ThreadsOK, Registered
  <2> QED
    BY Zenon, <2>4, <2>6
<1>17. ASSUME NEW m \in Manager, Crash(m) PROVE Goal
  <2>1. /\ mgr' = [mgr EXCEPT ![m] = "stopped"]
        /\ pc' = [w \in Worker |-> IF ManagerOf(w) = m THEN "exited" ELSE pc[w]]
        /\ job' = [w \in Worker |-> IF ManagerOf(w) = m THEN NoJob ELSE job[w]]
        /\ lease_lost' = [w \in Worker |-> ManagerOf(w) # m /\ lease_lost[w]]
        /\ heartbeat' = [w \in Worker |-> IF ManagerOf(w) = m THEN "off" ELSE heartbeat[w]]
        /\ owned_claims' = [owned_claims EXCEPT ![m] = [r \in Run |-> NoToken]]
        /\ owner' = [r \in Run |-> IF owner[r] = m THEN NoOwner ELSE owner[r]]
    BY Zenon, <1>17 DEF Crash
  <2>2. pc' \in [Worker -> Label]
    BY Zenon, <2>1 DEF ManagerTypeOK, Label
  <2>3. /\ mgr' \in [Manager -> {"up", "stopping", "expiring", "stopped"}]
        /\ owner' \in [Run -> Manager \cup {NoOwner}]
        /\ heartbeat' \in [Worker -> {"off", "waiting", "renewing", "last"}]
    BY Zenon, <2>1, <1>t
  <2>4. job' \in [Worker -> Job]
    BY Zenon, <2>1, <1>t, NoJobIsTyped
  <2>5. lease_lost' \in [Worker -> BOOLEAN]
    <3>1. \A w \in Worker : (ManagerOf(w) # m /\ lease_lost[w]) \in BOOLEAN
      BY Zenon
    <3> QED
      BY Zenon, <2>1, <3>1
  <2>6. owned_claims' \in [Manager -> [Run -> Nat]]
    <3>1. [r \in Run |-> NoToken] \in [Run -> Nat]
      BY DEF NoToken
    <3> QED
      BY Zenon, <2>1, <3>1, <1>t
  <2>7. ManagerTypeOK'
    BY Zenon, <2>2, <2>3, <2>4, <2>5, <2>6, <1>0, BudgetKept DEF ManagerTypeOK
  <2>8. \A w \in Worker :
          \/ pc'[w] = pc[w] /\ job'[w] = job[w] /\ heartbeat'[w] = heartbeat[w]
          \/ pc'[w] = "exited" /\ heartbeat'[w] = "off"
    BY Zenon, <2>1
  <2>9. ThreadsOK'
    BY Zenon, <2>8, <1>l DEF ThreadsOK, Registered
  <2> QED
    BY Zenon, <2>7, <2>9
<1> HIDE DEF Goal
<1>18. ASSUME NEW w \in Worker, Claim(w) PROVE Goal
  BY Zenon, <1>3, <1>4, <1>18 DEF Claim, Takes
<1>19. ASSUME NEW w \in Worker, Cleanup(w) \/ CleanupUnread(w) PROVE Goal
  BY Zenon, <1>8, <1>19 DEF Cleanup, CleanupUnread
<1> QED
  BY Zenon, <1>1, <1>2, <1>5, <1>6, <1>7, <1>9, <1>10, <1>11, <1>12, <1>13, <1>14, <1>15,
     <1>16, <1>17, <1>18, <1>19 DEF ManagerNext, WorkerStep, ManagerStep

-----------------------------------------------------------------------------
(* What a step does to the workers and to the tables of the processes. *)

Keeps(v) ==
  /\ job'[v].run = job[v].run
  /\ job'[v].token = job[v].token
  /\ job'[v].reconcile = job[v].reconcile

Rests(v) == pc'[v] = pc[v] /\ job'[v] = job[v]

\* The claim is forgotten, by the worker itself when it is through with it or
\* because its process crashes.
Drops(v) ==
  /\ job'[v] = NoJob /\ pc'[v] \in {"poll", "exited"}
  /\ pc[v] = "exited" => pc'[v] = "exited"
  /\ pc[v] \in Unadmitted => \A r \in Run : owner'[r] # ManagerOf(v)

\* The worker moves on, with its claim if it has one.
Goes(v) ==
  /\ Keeps(v) /\ pc'[v] # "admit"
  /\ pc'[v] \in Committed =>
       \/ pc[v] \in Committed \/ job[v].reconcile
       \/ load_thread_state_snapshot(job[v].run)
  /\ pc'[v] = "conflict" => pc[v] = "conflict" \/ ~load_thread_state_snapshot(job[v].run)
  /\ pc[v] = "exited" => mgr'[ManagerOf(v)] = "up"
  /\ pc[v] = "admit" =>
       \/ pc'[v] = "relinquish"
       \/ owned_claims'[ManagerOf(v)][job[v].run] = job[v].token
  /\ pc[v] = "relinquish" => Spend("fault") \/ ExpireOrSkip(job[v].run, job[v].token)

Moves == \A v \in Worker : Rests(v) \/ Drops(v) \/ Goes(v)

\* An entry of a claim table is left alone, written by the worker that admits
\* the claim, or deleted once the claim is over, unless a store call failed.
TableStep ==
  \A m \in Manager, r \in Run :
    \/ owned_claims'[m][r] = owned_claims[m][r]
    \/ /\ owned_claims'[m][r] = NoToken
       /\ \/ lease_token[r] # owned_claims[m][r] \/ Spend("fault")
          \/ ExpireOrSkip(r, owned_claims[m][r])
          \/ \A q \in Run : owner'[q] # m
    \/ /\ UNCHANGED <<vars, job>>
       /\ \E w \in Worker : ManagerOf(w) = m /\ pc[w] = "admit"
                            /\ Has(w, r, owned_claims'[m][r])

\* Only a claim gives a lease an owner.
OwnersStep == \A r \in Run : owner'[r] \in {owner[r], NoOwner} \/ Spend("fault")

\* What a step does that is not a claim the worker learns of.
MemoryStep == Moves /\ TableStep /\ OwnersStep

\* Every step is such a claim or moves the workers and the tables that way.
LEMMA StepsMoveMemory ==
  ASSUME TypeOK, ManagerTypeOK, ThreadsOK, ClaimsAreApart, [ManagerNext]_allVars
  PROVE  MemoryStep \/ \E w \in Worker, r \in Run : Takes(w, r)
<1>t. /\ mgr \in [Manager -> {"up", "stopping", "expiring", "stopped"}]
      /\ pc \in [Worker -> Label] /\ job \in [Worker -> Job]
      /\ owned_claims \in [Manager -> [Run -> Nat]]
      /\ owner \in [Run -> Manager \cup {NoOwner}]
  BY Zenon DEF ManagerTypeOK
<1>u. UNCHANGED <<owned_claims, owner>> => TableStep /\ OwnersStep
  BY Zenon DEF TableStep, OwnersStep
<1>m. ASSUME NEW w \in Worker, \A v \in Worker \ {w} : pc'[v] = pc[v] /\ job'[v] = job[v],
             Drops(w) \/ Goes(w)
      PROVE  Moves
  BY Zenon, <1>m DEF Moves, Rests
<1>s. UNCHANGED <<pc, job>> => Moves
  BY Zenon DEF Moves, Rests
<1>g. ASSUME NEW w \in Worker, NEW label \in Label, Goto(w, label), UNCHANGED job, Goes(w)
      PROVE  Moves
  BY Zenon, <1>g, <1>m, OneMoves
<1>1. CASE UNCHANGED allVars \/ Submit \/ RequestCancel \/ Tick
  <2>1. UNCHANGED <<pc, job, owned_claims, owner>>
    BY Zenon, <1>1 DEF allVars, managerVars, Submit, RequestCancel, Tick
  <2> QED
    BY Zenon, <2>1, <1>u, <1>s DEF MemoryStep
<1>2. ASSUME NEW w \in Worker, Poll(w) \/ Claim(w) \/ Relinquish(w)
      PROVE  MemoryStep \/ \E r \in Run : Takes(w, r)
  <2>1. CASE UNCHANGED <<pc, job, owner>>
    BY Zenon, <1>2, <2>1, <1>u, <1>s DEF Poll, Claim, Relinquish, MemoryStep
  <2>2. ASSUME NEW label \in {"exited", "poll", "claim"}, Goto(w, label),
               UNCHANGED <<job, owned_claims, owner>>,
               \/ pc[w] \in {"poll", "claim"}
               \/ pc[w] = "relinquish" /\ ExpireOrSkip(job[w].run, job[w].token)
        PROVE  MemoryStep
    <3>1. label \in Label
      BY Zenon DEF Label
    <3>2. pc'[w] = label
      BY Zenon, <2>2, <3>1, OneMoves
    <3>3. Goes(w)
      BY Zenon, <2>2, <3>2 DEF Goes, Keeps, Committed
    <3> QED
      BY Zenon, <2>2, <3>1, <3>3, <1>u, <1>g DEF MemoryStep
  <2>3. CASE Poll(w)
    BY Zenon, <2>3, <2>1, <2>2 DEF Poll
  <2>4. CASE Claim(w)
    BY Zenon, <2>4, <2>2 DEF Claim, Takes
  <2>5. CASE Relinquish(w)
    BY Zenon, <2>5, <2>2 DEF Relinquish
  <2> QED
    BY Zenon, <1>2, <2>3, <2>4, <2>5
<1>3. ASSUME NEW w \in Worker, ClaimAnswerLost(w) PROVE MemoryStep
  <2>1. /\ UNCHANGED <<job, owned_claims>> /\ pc[w] = "claim" /\ Goto(w, "poll")
        /\ Spend("fault")
    BY Zenon, <1>3 DEF ClaimAnswerLost
  <2>2. "poll" \in Label
    BY Zenon DEF Label
  <2>3. pc'[w] = "poll"
    BY Zenon, <2>1, <2>2, OneMoves
  <2>4. Goes(w)
    BY Zenon, <2>1, <2>3 DEF Goes, Keeps, Committed
  <2>5. TableStep /\ OwnersStep
    BY Zenon, <2>1 DEF TableStep, OwnersStep
  <2> QED
    BY Zenon, <2>1, <2>2, <2>4, <2>5, <1>g DEF MemoryStep
<1>4. ASSUME NEW w \in Worker, Admit(w) PROVE MemoryStep
  <2>0. /\ pc[w] = "admit" /\ UNCHANGED <<vars, job, owner>>
        /\ "load" \in Label /\ "relinquish" \in Label
    BY Zenon, <1>4 DEF Admit, Label
  <2>1. job[w].run \in Run /\ job[w].token \in Nat /\ ManagerOf(w) \in Manager
    <3>1. pc[w] \notin Idle
      BY Zenon, <2>0 DEF Idle
    <3> QED
      BY Zenon, <3>1, <1>t, TokensWereDrawn, WorkersHaveManagers DEF Job
  <2>2. CASE renewals_disabled(ManagerOf(w))
    <3>1. UNCHANGED owned_claims /\ Goto(w, "relinquish")
      BY Zenon, <1>4, <2>2 DEF Admit
    <3>2. pc'[w] = "relinquish"
      BY Zenon, <2>0, <3>1, OneMoves
    <3>3. Goes(w)
      BY Zenon, <2>0, <3>2 DEF Goes, Keeps, Committed
    <3> QED
      BY Zenon, <2>0, <3>1, <3>3, <1>u, <1>g DEF MemoryStep
  <2>3. CASE ~renewals_disabled(ManagerOf(w))
    <3>1. Entered(ManagerOf(w), job[w].run, job[w].token) /\ Goto(w, "load")
      BY Zenon, <1>4, <2>3 DEF Admit, Entered
    <3>2. pc'[w] = "load"
      BY Zenon, <2>0, <3>1, OneMoves
    <3>3. /\ owned_claims'[ManagerOf(w)][job[w].run] = job[w].token
          /\ \A n \in Manager, q \in Run :
               n # ManagerOf(w) \/ q # job[w].run => owned_claims'[n][q] = owned_claims[n][q]
      <4>1. PICK m \in Manager, r \in Run, t \in Nat :
              m = ManagerOf(w) /\ r = job[w].run /\ t = job[w].token
        BY Zenon, <2>1
      <4>2. Entered(m, r, t)
        BY Zenon, <3>1, <4>1 DEF Entered
      <4>3. /\ owned_claims'[m][r] = t
            /\ \A n \in Manager, q \in Run :
                 n # m \/ q # r => owned_claims'[n][q] = owned_claims[n][q]
        BY Zenon, <4>2, OneEntryWritten
      <4> QED
        BY Zenon, <4>1, <4>3
    <3>4. Goes(w)
      BY Zenon, <2>0, <3>2, <3>3 DEF Goes, Keeps, Committed
    <3>5. TableStep
      BY Zenon, <2>0, <3>3 DEF TableStep, Has
    <3>6. OwnersStep
      BY Zenon, <2>0 DEF OwnersStep
    <3> QED
      BY Zenon, <2>0, <3>1, <3>4, <3>5, <3>6, <1>g DEF MemoryStep
  <2> QED
    BY Zenon, <2>2, <2>3
<1>5. ASSUME NEW w \in Worker, Cleanup(w) \/ CleanupUnread(w) PROVE MemoryStep
  <2>1. /\ pc[w] \in {"cleanup", "dying"} /\ UNCHANGED owner
        /\ job' = [job EXCEPT ![w] = NoJob]
        /\ \E label \in {"exited", "poll"} : Goto(w, label)
    BY Zenon, <1>5 DEF Cleanup, CleanupUnread, Forget
  <2>2. /\ pc'[w] \in {"exited", "poll"} /\ job'[w] = NoJob
        /\ \A v \in Worker \ {w} : pc'[v] = pc[v] /\ job'[v] = job[v]
    BY Zenon, <2>1, <1>t, OneMoves DEF Label
  <2>3. Drops(w)
    BY Zenon, <2>1, <2>2 DEF Drops, Unadmitted
  <2>4. job[w].run \in Run /\ ManagerOf(w) \in Manager /\ NoToken \in Nat
    <3>1. pc[w] \notin Idle
      BY Zenon, <2>1 DEF Idle
    <3> QED
      BY Zenon, <3>1, TokensWereDrawn, WorkersHaveManagers DEF NoToken
  <2>5. \/ UNCHANGED owned_claims
        \/ /\ Entered(ManagerOf(w), job[w].run, NoToken)
           /\ owned_claims[ManagerOf(w)][job[w].run] = job[w].token
           /\ lease_token[job[w].run] # job[w].token \/ Spend("fault")
    BY Zenon, <1>5 DEF Cleanup, CleanupUnread, Forget, Entered
  <2>6. CASE UNCHANGED owned_claims
    BY Zenon, <2>1, <2>2, <2>3, <2>6, <1>m, <1>u DEF MemoryStep
  <2>7. CASE /\ Entered(ManagerOf(w), job[w].run, NoToken)
             /\ owned_claims[ManagerOf(w)][job[w].run] = job[w].token
             /\ lease_token[job[w].run] # job[w].token \/ Spend("fault")
    <3>1. /\ owned_claims'[ManagerOf(w)][job[w].run] = NoToken
          /\ \A n \in Manager, q \in Run :
               n # ManagerOf(w) \/ q # job[w].run => owned_claims'[n][q] = owned_claims[n][q]
      <4>1. PICK m \in Manager, r \in Run : m = ManagerOf(w) /\ r = job[w].run
        BY Zenon, <2>4
      <4>2. Entered(m, r, NoToken) /\ NoToken \in Nat
        BY Zenon, <2>4, <2>7, <4>1 DEF Entered
      <4>3. /\ owned_claims'[m][r] = NoToken
            /\ \A n \in Manager, q \in Run :
                 n # m \/ q # r => owned_claims'[n][q] = owned_claims[n][q]
        BY Zenon, <4>2, OneEntryWritten
      <4> QED
        BY Zenon, <4>1, <4>3
    <3>2. TableStep
      BY Zenon, <2>7, <3>1 DEF TableStep
    <3>3. OwnersStep
      BY Zenon, <2>1 DEF OwnersStep
    <3> QED
      BY Zenon, <2>2, <2>3, <3>2, <3>3, <1>m DEF MemoryStep
  <2> QED
    BY Zenon, <2>5, <2>6, <2>7
<1>6. ASSUME NEW w \in Worker, pc[w] \in Busy, NEW label \in Busy, Goto(w, label),
             \A v \in Worker : Keeps(v), \A v \in Worker \ {w} : job'[v] = job[v],
             label = "conflict" => ~load_thread_state_snapshot(job[w].run),
             label \in Committed =>
               \/ pc[w] \in Committed \/ job[w].reconcile
               \/ load_thread_state_snapshot(job[w].run),
             UNCHANGED <<owned_claims, owner>>
      PROVE  MemoryStep
  <2>1. label \in Label
    BY Zenon DEF Busy
  <2>2. pc'[w] = label /\ \A v \in Worker \ {w} : pc'[v] = pc[v]
    BY Zenon, <1>6, <2>1, OneMoves
  <2>3. Goes(w)
    BY Zenon, <1>6, <2>2 DEF Goes, Busy, Idle, Unadmitted
  <2> QED
    BY Zenon, <1>6, <2>2, <2>3, <1>m, <1>u DEF MemoryStep
<1>l. Busy = {"cleanup", "dying", "load", "loaded", "conflict", "execute", "complete",
              "pending", "failing", "fail", "cancel", "cancelling"}
  BY DEF Busy, Label, Idle, Unadmitted
<1>f. ASSUME NEW w \in Worker
      PROVE  /\ Failure(w) \in Busy /\ Failure(w) # "conflict"
             /\ Failure(w) \in Committed => job[w].reconcile
  BY Zenon, <1>l DEF Failure, Committed
<1>r. ASSUME NEW w \in Worker, NEW label \in {"cancel", "cancelling"}
      PROVE  /\ AfterRejected(w, label) \in Busy /\ AfterRejected(w, label) # "conflict"
             /\ AfterRejected(w, label) \notin Committed
  BY Zenon, <1>l DEF AfterRejected, Committed
<1>k. UNCHANGED job => \A v \in Worker : Keeps(v)
  BY Zenon DEF Keeps
<1>c. /\ \A s \in {"cleanup", "dying", "cancel", "failing", "fail"} :
           s \in Busy /\ s \notin Committed /\ s # "conflict"
      /\ \A s \in {"loaded", "execute", "complete", "pending"} :
           s \in Busy /\ s \in Committed /\ s # "conflict"
      /\ "conflict" \in Busy /\ "conflict" \notin Committed
      /\ "load" \in Busy /\ "cancelling" \in Busy
  BY Zenon, <1>l DEF Committed
<1>7. ASSUME NEW w \in Worker,
             \/ Load(w) \/ Conflict(w) \/ Loaded(w) \/ Complete(w) \/ Pending(w)
             \/ Failing(w) \/ Fail(w) \/ Cancel(w) \/ CompleteAnswerLost(w)
      PROVE  MemoryStep
  <2>1. /\ pc[w] \in Busy /\ UNCHANGED <<job, owned_claims, owner>>
        /\ \A v \in Worker : Keeps(v) /\ job'[v] = job[v]
    BY Zenon, <1>7, <1>l, <1>k DEF Load, Conflict, Loaded, Complete, Pending, Failing, Fail,
       Cancel, CompleteAnswerLost, Stay
  <2>2. CASE Load(w)
    BY Zenon, <2>1, <2>2, <1>6, <1>c DEF Load
  <2>3. CASE Failing(w) \/ Pending(w) \/ Cancel(w)
    BY Zenon, <2>1, <2>3, <1>6, <1>c DEF Failing, Pending, Cancel
  <2>4. CASE Conflict(w) \/ Complete(w)
    BY Zenon, <2>1, <2>4, <1>6, <1>c, <1>r DEF Conflict, Complete
  <2>5. CASE Loaded(w) \/ CompleteAnswerLost(w)
    BY Zenon, <2>1, <2>5, <1>6, <1>c, <1>f DEF Loaded, CompleteAnswerLost
  <2>6. CASE Fail(w)
    BY Zenon, <2>1, <2>6, <1>6, <1>c, <1>r DEF Fail
  <2> QED
    BY Zenon, <1>7, <2>2, <2>3, <2>4, <2>5, <2>6
<1>8. ASSUME NEW w \in Worker, Execute(w) PROVE MemoryStep
  <2>1. /\ pc[w] \in Busy /\ pc[w] \in Committed /\ UNCHANGED <<owned_claims, owner>>
        /\ \E label \in Busy : Goto(w, label) /\ label # "conflict"
    BY Zenon, <1>8, <1>c, <1>f DEF Execute
  <2> DEFINE j == [job[w] EXCEPT !.safety = TRUE]
  <2>2. job' = job \/ job' = [job EXCEPT ![w] = j]
    BY Zenon, <1>8 DEF Execute
  <2>3. j.run = job[w].run /\ j.token = job[w].token /\ j.reconcile = job[w].reconcile
    BY <1>t DEF Job
  <2> HIDE DEF j
  <2>4. (\A v \in Worker : Keeps(v)) /\ \A v \in Worker \ {w} : job'[v] = job[v]
    BY Zenon, <2>2, <2>3, <1>t DEF Keeps
  <2> QED
    BY Zenon, <2>1, <2>4, <1>6
<1>9. ASSUME NEW w \in Worker, StoreFault(w) PROVE MemoryStep
  <2>1. /\ UNCHANGED <<job, owned_claims, owner>> /\ Spend("fault")
        /\ \A v \in Worker : Keeps(v) /\ job'[v] = job[v]
    BY Zenon, <1>9, <1>k DEF StoreFault
  <2>2. CASE pc[w] \in Busy
    <3>1. \E label \in {Failure(w), "dying"} : Goto(w, label)
      BY Zenon, <1>9, <2>2, <1>l DEF StoreFault
    <3> QED
      BY Zenon, <2>1, <2>2, <3>1, <1>6, <1>c, <1>f
  <2>3. CASE pc[w] \notin Busy
    <3>1. /\ pc[w] \in {"poll", "claim", "relinquish"}
          /\ \E label \in {"exited", "poll"} : Goto(w, label)
      BY Zenon, <1>9, <2>3, <1>l DEF StoreFault
    <3>2. pc'[w] \in {"exited", "poll"} /\ \E label \in Label : Goto(w, label)
      BY Zenon, <3>1, OneMoves DEF Label
    <3>3. Goes(w)
      BY Zenon, <2>1, <3>1, <3>2 DEF Goes, Committed
    <3> QED
      BY Zenon, <2>1, <3>2, <3>3, <1>u, <1>g DEF MemoryStep
  <2> QED
    BY Zenon, <2>2, <2>3
<1>10. ASSUME NEW w \in Worker, HeartbeatWake(w) \/ HeartbeatRenew(w) \/ HeartbeatFault(w)
       PROVE  MemoryStep
  BY Zenon, <1>10, <1>u, <1>s DEF HeartbeatWake, HeartbeatRenew, HeartbeatFault, MemoryStep
<1>11. ASSUME NEW m \in Manager, StopGate(m) \/ StopReturn(m) \/ StopCutoff(m)
       PROVE  MemoryStep
  BY Zenon, <1>11, <1>u, <1>s DEF StopGate, StopReturn, StopCutoff, MemoryStep
<1>12. ASSUME NEW m \in Manager, _expire_drained_claims(m) \/ ExpireFault(m) PROVE MemoryStep
  <2>1. PICK r \in Run :
          /\ Entered(m, r, NoToken)
          /\ Spend("fault") \/ ExpireOrSkip(r, owned_claims[m][r])
    BY Zenon, <1>12 DEF _expire_drained_claims, ExpireFault, Owned, Entered
  <2>2. NoToken \in Nat /\ Entered(m, r, NoToken)
    BY Zenon, <2>1 DEF NoToken
  <2>3. /\ owned_claims'[m][r] = NoToken
        /\ \A n \in Manager, q \in Run :
             n # m \/ q # r => owned_claims'[n][q] = owned_claims[n][q]
    BY Zenon, <2>2, OneEntryWritten
  <2>4. TableStep
    BY Zenon, <2>1, <2>3 DEF TableStep
  <2>5. UNCHANGED <<pc, job, owner>>
    BY Zenon, <1>12 DEF _expire_drained_claims, ExpireFault
  <2> QED
    BY Zenon, <2>4, <2>5, <1>s DEF MemoryStep, OwnersStep
<1>13. ASSUME NEW m \in Manager, start(m) PROVE MemoryStep
  <2>1. /\ UNCHANGED <<job, owned_claims, owner>>
        /\ mgr' = [mgr EXCEPT ![m] = "up"]
        /\ pc' = [w \in Worker |-> IF ManagerOf(w) = m THEN "poll" ELSE pc[w]]
        /\ \A w \in WorkersOf(m) : ~is_alive(w)
    BY Zenon, <1>13 DEF start
  <2>2. ASSUME NEW v \in Worker, ManagerOf(v) = m PROVE Goes(v)
    <3>1. pc'[v] = "poll" /\ pc[v] = "exited" /\ mgr'[ManagerOf(v)] = "up"
      BY Zenon, <2>1, <2>2, <1>t DEF WorkersOf, is_alive
    <3> QED
      BY Zenon, <2>1, <3>1 DEF Goes, Keeps, Committed
  <2>3. ASSUME NEW v \in Worker, ManagerOf(v) # m PROVE Rests(v)
    BY Zenon, <2>1, <2>3 DEF Rests
  <2> QED
    BY Zenon, <2>1, <2>2, <2>3, <1>u DEF MemoryStep, Moves
<1>14. ASSUME NEW m \in Manager, Crash(m) PROVE MemoryStep
  <2>1. /\ pc' = [w \in Worker |-> IF ManagerOf(w) = m THEN "exited" ELSE pc[w]]
        /\ job' = [w \in Worker |-> IF ManagerOf(w) = m THEN NoJob ELSE job[w]]
        /\ owned_claims' = [owned_claims EXCEPT ![m] = [r \in Run |-> NoToken]]
        /\ owner' = [r \in Run |-> IF owner[r] = m THEN NoOwner ELSE owner[r]]
    BY Zenon, <1>14 DEF Crash
  <2>2. /\ \A r \in Run : owner'[r] # m
        /\ \A r \in Run : owner'[r] \in {owner[r], NoOwner}
    BY Zenon, <2>1, ManagerAssumption
  <2>3. ASSUME NEW v \in Worker PROVE Rests(v) \/ Drops(v)
    BY Zenon, <2>1, <2>2 DEF Rests, Drops
  <2>4. \A n \in Manager, q \in Run :
          \/ owned_claims'[n][q] = owned_claims[n][q]
          \/ n = m /\ owned_claims'[n][q] = NoToken
    BY Zenon, <2>1, <1>t
  <2>5. TableStep
    BY Zenon, <2>2, <2>4 DEF TableStep
  <2> QED
    BY Zenon, <2>2, <2>3, <2>5 DEF MemoryStep, Moves, OwnersStep
<1> QED
  BY Zenon, <1>1, <1>2, <1>3, <1>4, <1>5, <1>7, <1>8, <1>9, <1>10, <1>11, <1>12, <1>13, <1>14
  DEF ManagerNext, WorkerStep, ManagerStep

\* stop() lets go of its claims only when none of its workers is alive, and
\* returns when it has let go of all of them; a crash ends it at once.
LEMMA StopsAreDrained ==
  ASSUME ManagerTypeOK, [ManagerNext]_allVars, NEW m \in Manager
  PROVE  /\ mgr'[m] = "expiring" =>
              \/ mgr[m] = "expiring"
              \/ UNCHANGED pc /\ \A w \in WorkersOf(m) : ~is_alive(w)
         /\ mgr[m] = "expiring" /\ mgr'[m] = "stopped" =>
              \/ Owned(m) = {} /\ UNCHANGED <<vars, owner>>
              \/ \A r \in Run : owner'[r] # m
<1> DEFINE Goal ==
  /\ mgr'[m] = "expiring" =>
       \/ mgr[m] = "expiring"
       \/ UNCHANGED pc /\ \A w \in WorkersOf(m) : ~is_alive(w)
  /\ mgr[m] = "expiring" /\ mgr'[m] = "stopped" =>
       \/ Owned(m) = {} /\ UNCHANGED <<vars, owner>>
       \/ \A r \in Run : owner'[r] # m
<1> SUFFICES Goal
  OBVIOUS
<1>0. mgr \in [Manager -> {"up", "stopping", "expiring", "stopped"}]
  BY Zenon DEF ManagerTypeOK
<1>1. mgr'[m] = mgr[m] => Goal
  BY Zenon
<1>2. CASE UNCHANGED mgr
  BY Zenon, <1>1, <1>2
<1>3. ASSUME NEW n \in Manager, StopGate(n) \/ start(n) PROVE Goal
  <2>1. n # m => mgr'[m] = mgr[m]
    BY Zenon, <1>3, <1>0 DEF StopGate, start
  <2>2. n = m => mgr'[m] \in {"stopping", "up"}
    BY Zenon, <1>3, <1>0 DEF StopGate, start
  <2> QED
    BY Zenon, <1>1, <2>1, <2>2
<1>4. ASSUME NEW n \in Manager, StopReturn(n) PROVE Goal
  <2>1. n # m => mgr'[m] = mgr[m]
    BY Zenon, <1>4, <1>0 DEF StopReturn
  <2>2. n = m => mgr'[m] = "stopped" /\ Owned(m) = {} /\ UNCHANGED <<vars, owner>>
    BY Zenon, <1>4, <1>0 DEF StopReturn
  <2> QED
    BY Zenon, <1>1, <2>1, <2>2
<1>5. ASSUME NEW n \in Manager, StopCutoff(n) PROVE Goal
  <2>1. n # m => mgr'[m] = mgr[m]
    BY Zenon, <1>5, <1>0 DEF StopCutoff
  <2>2. n = m => /\ mgr[m] = "stopping" /\ UNCHANGED pc
                 /\ mgr'[m] = "expiring" => \A w \in WorkersOf(m) : ~is_alive(w)
    BY Zenon, <1>5, <1>0 DEF StopCutoff
  <2> QED
    BY Zenon, <1>1, <2>1, <2>2
<1>6. ASSUME NEW n \in Manager, Crash(n) PROVE Goal
  <2>1. n # m => mgr'[m] = mgr[m]
    BY Zenon, <1>6, <1>0 DEF Crash
  <2>2. n = m => mgr'[m] = "stopped" /\ \A r \in Run : owner'[r] # m
    BY Zenon, <1>6, <1>0, ManagerAssumption DEF Crash
  <2> QED
    BY Zenon, <1>1, <2>1, <2>2
<1> HIDE DEF Goal
<1>7. CASE UNCHANGED allVars \/ Submit \/ RequestCancel \/ Tick
  BY Zenon, <1>2, <1>7 DEF allVars, managerVars, Submit, RequestCancel, Tick
<1>8. ASSUME NEW w \in Worker,
             \/ Poll(w) \/ Claim(w) \/ Admit(w) \/ Relinquish(w) \/ Cleanup(w) \/ Execute(w)
             \/ ClaimAnswerLost(w) \/ StoreFault(w) \/ CompleteAnswerLost(w)
             \/ CleanupUnread(w) \/ HeartbeatWake(w) \/ HeartbeatRenew(w) \/ HeartbeatFault(w)
      PROVE  Goal
  BY Zenon, <1>2, <1>8 DEF Poll, Claim, Admit, Relinquish, Cleanup, Execute, ClaimAnswerLost,
     StoreFault, CompleteAnswerLost, CleanupUnread, HeartbeatWake, HeartbeatRenew,
     HeartbeatFault, Forget
<1>9. ASSUME NEW w \in Worker,
             \/ Load(w) \/ Conflict(w) \/ Loaded(w) \/ Complete(w) \/ Pending(w)
             \/ Failing(w) \/ Fail(w) \/ Cancel(w)
      PROVE  Goal
  BY Zenon, <1>2, <1>9 DEF Load, Conflict, Loaded, Complete, Pending, Failing, Fail, Cancel,
     Stay
<1>10. ASSUME NEW n \in Manager, ExpireFault(n) \/ _expire_drained_claims(n) PROVE Goal
  BY Zenon, <1>2, <1>10 DEF ExpireFault, _expire_drained_claims
<1> QED
  BY Zenon, <1>3, <1>4, <1>5, <1>6, <1>7, <1>8, <1>9, <1>10
  DEF ManagerNext, WorkerStep, ManagerStep

-----------------------------------------------------------------------------
(* What the rows of the store keep. *)

\* Nobody moves the checkpoint of a thread away from its running Run, and no
\* takeover changes the revision the Run captured.
LEMMA SnapshotStands ==
  ASSUME IInv, [Next]_vars \/ Tick, NEW r \in Run,
         status[r] = "running", status'[r] = "running", load_thread_state_snapshot(r)
  PROVE  load_thread_state_snapshot(r)'
<1> USE DEF load_thread_state_snapshot, _thread_revision
<1>0. /\ thread_id[r] \in Thread /\ revision \in [Thread -> Nat]
      /\ status \in [Run -> Status] /\ base \in [Run -> Nat \cup {NoRevision}]
      /\ base[r] = revision[thread_id[r]]
  BY Zenon DEF IInv, TypeOK
<1>1. CASE Tick \/ Quiet \/ \E q \in Run : Dropped(q)
  BY Zenon, <1>1 DEF Tick, requestVars, Quiet, Dropped
<1>2. ASSUME NEW q \in Run, Created(q) PROVE load_thread_state_snapshot(r)'
  <2>1. q # r
    BY Zenon, <1>2 DEF Created
  <2> QED
    BY Zenon, <1>0, <1>2, <2>1 DEF Created
<1>3. ASSUME NEW q \in Run, Claimed(q) PROVE load_thread_state_snapshot(r)'
  <2>1. revision[thread_id[r]] # NoRevision
    BY <1>0 DEF NoRevision
  <2> QED
    BY Zenon, <1>0, <1>3, <2>1 DEF Claimed
<1>4. ASSUME NEW q \in Run, Saved(q) PROVE load_thread_state_snapshot(r)'
  <2>1. q # r
    BY Zenon, <1>0, <1>4 DEF Saved
  <2>2. thread_id[q] # thread_id[r]
    BY Zenon, <1>4, <2>1 DEF IInv, OneRunningPerThread, SameThread, Saved
  <2> QED
    BY Zenon, <1>0, <1>4, <2>2 DEF Saved
<1>5. CASE [Next]_vars
  BY Zenon, <1>1, <1>2, <1>3, <1>4, <1>5, StepShape DEF IInv
<1> QED
  BY Zenon, <1>1, <1>5

\* The passage of time moves deadlines only.
LEMMA TickKeepsRows == ASSUME IInv, Tick PROVE IInv'
<1>1. UNCHANGED <<requestVars, status, cancel_requested, base, lease_token, attempt,
                  error_code, revision, events, now>>
  BY Zenon DEF Tick
<1>2. lease_expires_at' \in [Run -> Int]
  <2>1. \A r \in Run : lease_expires_at[r] \in Int /\ lease_expires_at[r] - 1 \in Int
    BY DEF IInv, TypeOK
  <2> QED
    BY Zenon, <2>1 DEF Tick
<1>3. TypeOK'
  BY Zenon, <1>1, <1>2 DEF IInv, TypeOK, requestVars
<1>4. /\ OneRunningPerThread' /\ CapturedRevisionHeld' /\ UnclaimedHasNoBase'
      /\ CancellationBeatsCompletion'
  BY Zenon, <1>1 DEF IInv, OneRunningPerThread, CapturedRevisionHeld, UnclaimedHasNoBase,
     CancellationBeatsCompletion, requestVars, SameThread, load_thread_state_snapshot,
     _thread_revision
<1>5. LinearHistory'
  BY Zenon, <1>1, HistoryStands DEF IInv, requestVars
<1> QED
  BY Zenon, <1>3, <1>4, <1>5 DEF IInv

\* A Run fails over an accepted cancellation only for the safety of an external
\* action: every other failing commit asks for no cancellation in the same
\* transaction (commit_failed_run, _fail_checkpoint_conflict).
LEMMA MaskingNeedsSafety ==
  ASSUME TypeOK, CancelMaskedOnlyBySafety, [Next]_vars \/ Tick
  PROVE  CancelMaskedOnlyBySafety'
<1> USE DEF CancelMaskedOnlyBySafety
<1>0. /\ status \in [Run -> Status] /\ error_code \in [Run -> ErrorCode]
      /\ cancel_requested \in [Run -> BOOLEAN]
  BY Zenon DEF TypeOK
<1>1. CASE UNCHANGED <<status, cancel_requested, error_code>>
  BY Zenon, <1>1
<1>2. CASE UNCHANGED vars \/ AdvanceClock \/ Tick
  BY Zenon, <1>1, <1>2 DEF vars, AdvanceClock, Tick
<1>3. ASSUME NEW r \in Run, create_run_with_event(r) PROVE CancelMaskedOnlyBySafety'
  BY Zenon, <1>3, <1>0 DEF create_run_with_event, _insert_run
<1>4. ASSUME NEW r \in Run, claim_next_run(r) PROVE CancelMaskedOnlyBySafety'
  BY Zenon, <1>4, <1>0 DEF claim_next_run, Lease
<1>5. ASSUME NEW r \in Run, request_cancel_atomically(r) PROVE CancelMaskedOnlyBySafety'
  BY Zenon, <1>5, <1>0 DEF request_cancel_atomically, Nonterminal
<1>6. ASSUME NEW r \in Run, append_control_plane_event(r) PROVE CancelMaskedOnlyBySafety'
  BY Zenon, <1>6, <1>1 DEF append_control_plane_event
<1>7. ASSUME NEW r \in Run, NEW s, NEW code, NEW es, _terminalize(r, s, code, es),
             s = "failed" /\ cancel_requested[r] => code = SAFETY
      PROVE  CancelMaskedOnlyBySafety'
  BY Zenon, <1>7, <1>0 DEF _terminalize
<1> HIDE DEF CancelMaskedOnlyBySafety
<1>8. ASSUME NEW r \in Run, finalize_next_queued_cancellation(r)
      PROVE  CancelMaskedOnlyBySafety'
  BY Zenon, <1>8, <1>7 DEF finalize_next_queued_cancellation
<1>9. ASSUME NEW r \in Run, NEW t, AttemptStep(r, t) PROVE CancelMaskedOnlyBySafety'
  <2>1. CASE \/ renew_run_lease(r, t) \/ expire_run_lease(r, t)
             \/ append_attempt_event(r, t)
    BY Zenon, <1>1, <2>1 DEF renew_run_lease, expire_run_lease, append_attempt_event
  <2>2. CASE commit_reconciliation_pending(r, t)
    BY Zenon, <2>2, <1>0 DEF commit_reconciliation_pending, CancelMaskedOnlyBySafety
  <2>3. CASE commit_cancelled_run(r, t) \/ SaveCheckpoint(r, t)
    BY Zenon, <2>3, <1>7 DEF commit_cancelled_run, SaveCheckpoint
  <2>4. CASE \/ commit_failed_run(r, t, EXECUTION, FALSE)
             \/ commit_failed_run(r, t, SAFETY, TRUE) \/ _fail_checkpoint_conflict(r, t)
    BY Zenon, <2>4, <1>7 DEF commit_failed_run, _fail_checkpoint_conflict
  <2> QED
    BY Zenon, <1>9, <2>1, <2>2, <2>3, <2>4
    DEF AttemptStep, commit_checkpoint_conflict, commit_completed_run, RejectStaleResult
<1> QED
  BY Zenon, <1>2, <1>3, <1>4, <1>5, <1>6, <1>8, <1>9 DEF Next

\* Tokens stay sound: a terminal commit clears the token it was made under.
LEMMA TokensStaySound ==
  ASSUME TypeOK, TokensSound, [Next]_vars \/ Tick
  PROVE  TokensSound'
<1>0. \A r \in Run : attempt[r] \in Nat /\ lease_token[r] \in Nat
  BY Zenon DEF TypeOK
<1>1. CASE Tick
  BY Zenon, <1>1 DEF Tick, TokensSound
<1>2. CASE [Next]_vars
  <2> SUFFICES ASSUME NEW r \in Run
               PROVE  /\ lease_token'[r] <= attempt'[r]
                      /\ lease_token'[r] # NoToken => status'[r] = "running"
                      /\ status'[r] \in {"absent", "queued"} => error_code'[r] = "none"
    BY Zenon DEF TokensSound
  <2>1. /\ lease_token[r] <= attempt[r]
        /\ lease_token[r] # NoToken => status[r] = "running"
        /\ status[r] \in {"absent", "queued"} => error_code[r] = "none"
    BY Zenon DEF TokensSound
  <2>2. Untouched(r) \/ Leased(r) \/ Kept(r) \/ Ended(r) \/ Noted(r)
    BY Zenon, <1>2, RowShape
  <2>3. \A n \in Nat : n + 1 <= n + 1 /\ 0 <= n
    OBVIOUS
  <2>4. CASE Untouched(r) \/ Noted(r)
    BY Zenon, <2>1, <2>4 DEF Untouched, Noted, Nonterminal
  <2>5. CASE Leased(r) \/ Kept(r) \/ Ended(r)
    BY Zenon, <1>0, <2>1, <2>3, <2>5 DEF Leased, Kept, Ended, NoToken, Terminal
  <2> QED
    BY Zenon, <2>2, <2>4, <2>5
<1> QED
  BY Zenon, <1>1, <1>2

\* Attempts are only counted up.
LEMMA AttemptsGrow ==
  ASSUME TypeOK, [Next]_vars \/ Tick, NEW r \in Run
  PROVE  attempt[r] \in Nat /\ attempt'[r] \in Nat /\ attempt[r] <= attempt'[r]
<1>1. attempt[r] \in Nat
  BY Zenon DEF TypeOK
<1>2. attempt'[r] \in {attempt[r], attempt[r] + 1}
  BY Zenon, RowShape DEF Tick, Untouched, Leased, Kept, Ended, Noted
<1> QED
  BY <1>1, <1>2

\* What a claim that its worker learns of does.
LEMMA ClaimsTake ==
  ASSUME TypeOK, ManagerTypeOK, NEW w \in Worker, NEW r \in Run, Takes(w, r)
  PROVE  /\ pc[w] = "claim" /\ pc'[w] = "admit" /\ \A v \in Worker \ {w} : Rests(v)
         /\ job'[w].run = r /\ job'[w].token = attempt[r] + 1
         /\ job'[w].reconcile => status[r] = "running" /\ error_code[r] = PENDING
         /\ Candidate(r) /\ status'[r] = "running"
         /\ attempt[r] \in Nat /\ attempt'[r] = attempt[r] + 1
         /\ lease_token'[r] = attempt[r] + 1 /\ lease_expires_at'[r] > now' /\ now' = now
         /\ \A q \in Run \ {r} : Untouched(q) /\ owner'[q] = owner[q]
         /\ owner'[r] = ManagerOf(w) /\ UNCHANGED <<mgr, owned_claims, budget>>
<1> DEFINE j == [run |-> r, token |-> attempt[r] + 1, cancel |-> cancel_requested[r],
                 reconcile |-> status[r] = "running" /\ error_code[r] = PENDING,
                 safety |-> FALSE]
<1>1. j.run = r /\ j.token = attempt[r] + 1
      /\ (j.reconcile => status[r] = "running" /\ error_code[r] = PENDING)
  BY Zenon
<1>2. /\ job' = [job EXCEPT ![w] = j] /\ job \in [Worker -> Job]
      /\ owner' = [owner EXCEPT ![r] = ManagerOf(w)]
      /\ owner \in [Run -> Manager \cup {NoOwner}]
      /\ pc[w] = "claim" /\ Goto(w, "admit") /\ claim_next_run(r)
      /\ UNCHANGED <<mgr, owned_claims, budget>>
  BY Zenon DEF Takes, ManagerTypeOK
<1> HIDE DEF j
<1>3. pc'[w] = "admit" /\ \A v \in Worker \ {w} : pc'[v] = pc[v]
  BY Zenon, <1>2, OneMoves DEF Label
<1>4. job'[w] = j /\ \A v \in Worker \ {w} : Rests(v)
  BY Zenon, <1>2, <1>3 DEF Rests
<1>5. owner'[r] = ManagerOf(w) /\ \A q \in Run \ {r} : owner'[q] = owner[q]
  BY Zenon, <1>2
<1>6. /\ status \in [Run -> Status] /\ attempt \in [Run -> Nat]
      /\ error_code \in [Run -> ErrorCode] /\ lease_token \in [Run -> Nat]
      /\ lease_expires_at \in [Run -> Int]
  BY Zenon DEF TypeOK
<1>7. /\ Candidate(r) /\ status'[r] = "running" /\ attempt'[r] = attempt[r] + 1
      /\ lease_token'[r] = attempt[r] + 1 /\ lease_expires_at'[r] = now + LeaseDuration
      /\ now' = now
      /\ \A q \in Run \ {r} : Untouched(q)
  BY Zenon, <1>2, <1>6 DEF claim_next_run, Lease, Untouched
<1>8. now + LeaseDuration > now
  BY RunStoreAssumption DEF TypeOK
<1> QED
  BY Zenon, <1>1, <1>2, <1>3, <1>4, <1>5, <1>6, <1>7, <1>8

\* Claims stay apart: each draws a token its Run has not seen.
LEMMA ClaimsStayApart ==
  ASSUME TypeOK, ManagerTypeOK, ThreadsOK, ClaimsAreApart, [Next]_vars \/ Tick,
         MemoryStep \/ \E w \in Worker, r \in Run : Takes(w, r)
  PROVE  ClaimsAreApart'
<1>0. /\ \A w \in Worker : job[w].token # NoToken =>
           job[w].run \in Run /\ job[w].token <= attempt[job[w].run]
      /\ \A v, w \in Worker : job[v].token # NoToken /\ Has(w, job[v].run, job[v].token) => v = w
      /\ \A m \in Manager, r \in Run : owned_claims[m][r] # NoToken =>
           /\ owned_claims[m][r] <= attempt[r]
           /\ \A w \in Worker : Has(w, r, owned_claims[m][r]) => ManagerOf(w) = m
  BY Zenon DEF ClaimsAreApart
<1>1. /\ \A w \in Worker : job[w].token \in Nat
      /\ \A m \in Manager, r \in Run : owned_claims[m][r] \in Nat
      /\ \A r \in Run : attempt[r] \in Nat /\ attempt'[r] \in Nat /\ attempt[r] <= attempt'[r]
  <2>1. \A j \in Job : j.token \in Nat
    BY DEF Job
  <2> QED
    BY Zenon, <2>1, AttemptsGrow DEF ManagerTypeOK
<1>2. /\ \A w \in Worker : job[w].token # NoToken => job[w].token <= attempt'[job[w].run]
      /\ \A m \in Manager, r \in Run :
           owned_claims[m][r] # NoToken => owned_claims[m][r] <= attempt'[r]
  <2>1. \A i, k, n \in Nat : i <= k /\ k <= n => i <= n
    OBVIOUS
  <2>2. ASSUME NEW w \in Worker, job[w].token # NoToken
        PROVE  job[w].token <= attempt'[job[w].run]
    <3>1. job[w].run \in Run /\ job[w].token <= attempt[job[w].run]
      BY Zenon, <1>0, <2>2
    <3> QED
      BY Zenon, <1>1, <2>1, <3>1
  <2>3. ASSUME NEW m \in Manager, NEW r \in Run, owned_claims[m][r] # NoToken
        PROVE  owned_claims[m][r] <= attempt'[r]
    <3>1. owned_claims[m][r] <= attempt[r]
      BY Zenon, <1>0, <2>3
    <3> QED
      BY Zenon, <1>1, <2>1, <3>1
  <2> QED
    BY Zenon, <2>2, <2>3
<1>3. CASE MemoryStep
  <2>1. \A v \in Worker : Keeps(v) \/ job'[v].token = NoToken
    BY Zenon, <1>3, NoJobIsTyped DEF MemoryStep, Moves, Rests, Drops, Goes, Keeps
  <2>2. \A w \in Worker : job'[w].token # NoToken =>
           job'[w].run \in Run /\ job'[w].token <= attempt'[job'[w].run]
    BY Zenon, <1>0, <1>2, <2>1 DEF Keeps
  <2>3. \A v, w \in Worker :
          job'[v].token # NoToken /\ job'[w].run = job'[v].run /\ job'[w].token = job'[v].token
          => v = w
    <3> SUFFICES ASSUME NEW v \in Worker, NEW w \in Worker, job'[v].token # NoToken,
                        job'[w].run = job'[v].run, job'[w].token = job'[v].token
                 PROVE  v = w
      BY Zenon
    <3>1. Keeps(v) /\ Keeps(w)
      BY Zenon, <2>1
    <3>2. job[v].token # NoToken /\ Has(w, job[v].run, job[v].token)
      BY SMT, <3>1 DEF Keeps, Has
    <3> QED
      BY Zenon, <1>0, <3>2
  <2>4. ASSUME NEW m \in Manager, NEW r \in Run, owned_claims'[m][r] # NoToken
        PROVE  /\ owned_claims'[m][r] <= attempt'[r]
               /\ \A w \in Worker :
                    job'[w].run = r /\ job'[w].token = owned_claims'[m][r] => ManagerOf(w) = m
    <3>1. CASE owned_claims'[m][r] = owned_claims[m][r]
      <4>1. owned_claims'[m][r] <= attempt'[r]
        BY Zenon, <1>2, <2>4, <3>1
      <4>2. ASSUME NEW w \in Worker, job'[w].run = r, job'[w].token = owned_claims'[m][r]
            PROVE  ManagerOf(w) = m
        <5>1. job[w].run = r /\ job[w].token = owned_claims[m][r]
          BY Zenon, <2>1, <2>4, <3>1, <4>2 DEF Keeps
        <5> QED
          BY Zenon, <1>0, <2>4, <3>1, <5>1 DEF Has
      <4> QED
        BY Zenon, <4>1, <4>2
    <3>2. ASSUME UNCHANGED <<vars, job>>, NEW w \in Worker, ManagerOf(w) = m, pc[w] = "admit",
                 Has(w, r, owned_claims'[m][r])
          PROVE  /\ owned_claims'[m][r] <= attempt'[r]
                 /\ \A u \in Worker :
                      job'[u].run = r /\ job'[u].token = owned_claims'[m][r]
                      => ManagerOf(u) = m
      BY Zenon, <1>0, <1>2, <2>4, <3>2 DEF Has
    <3> QED
      BY Zenon, <1>3, <2>4, <3>1, <3>2 DEF MemoryStep, TableStep
  <2> QED
    BY Zenon, <2>2, <2>3, <2>4 DEF ClaimsAreApart, Has
<1>4. ASSUME NEW w \in Worker, NEW r \in Run, Takes(w, r) PROVE ClaimsAreApart'
  <2>0. /\ \A v \in Worker \ {w} : Rests(v)
        /\ job'[w].run = r /\ job'[w].token = attempt[r] + 1
        /\ attempt'[r] = attempt[r] + 1 /\ UNCHANGED owned_claims
    BY <1>4, ClaimsTake
  <2>1. /\ \A v \in Worker \ {w} : job'[v] = job[v]
        /\ job'[w].run = r /\ job'[w].token = attempt[r] + 1
        /\ attempt'[r] = attempt[r] + 1 /\ UNCHANGED owned_claims
    BY Zenon, <2>0 DEF Rests
  <2>2. /\ ~(attempt[r] + 1 <= attempt[r]) /\ attempt[r] + 1 <= attempt[r] + 1
        /\ attempt[r] + 1 # NoToken
    BY <1>1 DEF NoToken
  <2>3. \A v \in Worker : job'[v].token # NoToken =>
           job'[v].run \in Run /\ job'[v].token <= attempt'[job'[v].run]
    BY Zenon, <1>0, <1>2, <2>1, <2>2
  <2>4. \A v \in Worker \ {w} : ~(job[v].run = r /\ job[v].token = attempt[r] + 1)
    BY Zenon, <1>0, <2>2
  <2>5. ASSUME NEW u \in Worker, NEW v \in Worker, job'[v].token # NoToken,
               job'[u].run = job'[v].run, job'[u].token = job'[v].token
        PROVE  v = u
    <3>1. CASE u = w \/ v = w
      BY Zenon, <2>1, <2>4, <2>5, <3>1
    <3>2. CASE u # w /\ v # w
      <4>1. job'[u] = job[u] /\ job'[v] = job[v]
        BY Zenon, <2>1, <3>2
      <4> QED
        BY Zenon, <1>0, <2>5, <4>1 DEF Has
    <3> QED
      BY Zenon, <3>1, <3>2
  <2>6. ASSUME NEW m \in Manager, NEW q \in Run, owned_claims'[m][q] # NoToken
        PROVE  /\ owned_claims'[m][q] <= attempt'[q]
               /\ \A v \in Worker :
                    job'[v].run = q /\ job'[v].token = owned_claims'[m][q] => ManagerOf(v) = m
    <3>1. owned_claims[m][q] <= attempt[q] /\ owned_claims'[m][q] <= attempt'[q]
      BY Zenon, <1>0, <1>2, <2>1, <2>6
    <3>2. ASSUME NEW v \in Worker, job'[v].run = q, job'[v].token = owned_claims'[m][q]
          PROVE  ManagerOf(v) = m
      <4>1. v # w
        BY Zenon, <2>1, <2>2, <3>1, <3>2
      <4>2. job'[v] = job[v]
        BY Zenon, <2>1, <4>1
      <4>3. owned_claims[m][q] # NoToken /\ Has(v, q, owned_claims[m][q])
        BY Zenon, <2>1, <2>6, <3>2, <4>2 DEF Has
      <4> QED
        BY Zenon, <1>0, <4>3
    <3> QED
      BY Zenon, <3>1, <3>2
  <2> QED
    BY Zenon, <2>3, <2>5, <2>6 DEF ClaimsAreApart, Has
<1> QED
  BY Zenon, <1>3, <1>4

\* A claim that is its Run's latest after a step that it survives was so before.
LEMMA OwnershipIsOld ==
  ASSUME TypeOK, ManagerTypeOK, TokensSound, TokensSound', ClaimsAreApart,
         [Next]_vars \/ Tick, NEW w \in Worker, Keeps(w), Owns(w)'
  PROVE  /\ Owns(w) /\ job[w].run \in Run
         /\ status[job[w].run] = "running" /\ status'[job[w].run] = "running"
<1> DEFINE r == job[w].run  t == job[w].token
<1>1. t # NoToken /\ lease_token'[r] = t
  BY Zenon DEF Owns, Keeps
<1>2. r \in Run /\ t <= attempt[r]
  BY Zenon, <1>1 DEF ClaimsAreApart
<1>3. attempt[r] \in Nat
  BY Zenon, <1>2 DEF TypeOK
<1>4. ~(attempt[r] + 1 <= attempt[r])
  BY <1>3
<1>5. lease_token[r] = t
  <2>1. UNCHANGED lease_token \/ Untouched(r) \/ Leased(r) \/ Kept(r) \/ Ended(r) \/ Noted(r)
    BY Zenon, <1>2, RowShape DEF Tick
  <2> QED
    BY Zenon, <1>1, <1>2, <1>4, <2>1 DEF Untouched, Leased, Kept, Ended, Noted
<1> QED
  BY Zenon, <1>1, <1>2, <1>5 DEF Owns, TokensSound

\* Only the holder of a Run's latest claim marks the Run for reconciliation,
\* and it has loaded the Run's checkpoint (commit_reconciliation_pending).
LEMMA MarksAreBacked ==
  ASSUME TypeOK, ThreadsOK, StoreCall, NEW r \in Run, error_code'[r] = PENDING
  PROVE  \/ error_code[r] = PENDING
         \/ \E w \in Worker : job[w].run = r /\ pc[w] = "pending" /\ Holds(w)
<1> DEFINE Goal == \/ error_code[r] = PENDING
                   \/ \E w \in Worker : job[w].run = r /\ pc[w] = "pending" /\ Holds(w)
<1> SUFFICES Goal
  OBVIOUS
<1>0. error_code \in [Run -> ErrorCode]
  BY Zenon DEF TypeOK
<1>c. "none" # PENDING /\ CONFLICT # PENDING /\ SAFETY # PENDING /\ EXECUTION # PENDING
  BY DEF PENDING, CONFLICT, SAFETY, EXECUTION
<1>1. UNCHANGED error_code => Goal
  BY Zenon
<1>2. ASSUME NEW q, NEW s, NEW code \in {"none", CONFLICT, SAFETY, EXECUTION}, NEW es,
             _terminalize(q, s, code, es)
      PROVE  Goal
  BY Zenon, <1>0, <1>c, <1>2 DEF _terminalize
<1>3. ASSUME NEW q, claim_next_run(q) PROVE Goal
  BY Zenon, <1>0, <1>c, <1>3 DEF claim_next_run, Lease
<1>4. ASSUME NEW w \in Worker, pc[w] = "pending",
             commit_reconciliation_pending(job[w].run, job[w].token)
      PROVE  Goal
  <2>0. job[w].token # NoToken
    BY Zenon, <1>4 DEF ThreadsOK, Idle
  <2>1. CASE job[w].run = r
    BY Zenon, <1>4, <2>0, <2>1 DEF commit_reconciliation_pending, Holds
  <2>2. CASE job[w].run # r
    BY Zenon, <1>0, <1>4, <2>2 DEF commit_reconciliation_pending
  <2> QED
    BY Zenon, <2>1, <2>2
<1> HIDE DEF Goal
<1>5. CASE UNCHANGED vars \/ Tick
  BY Zenon, <1>1, <1>5 DEF vars, Tick
<1>6. CASE ByClient
  BY Zenon, <1>1, <1>2, <1>6 DEF ByClient, create_run_with_event, _insert_run,
     request_cancel_atomically, finalize_next_queued_cancellation
<1>7. CASE ByClaim
  BY Zenon, <1>3, <1>7 DEF ByClaim
<1>8. ASSUME NEW q, NEW t,
             \/ renew_run_lease(q, t) \/ expire_run_lease(q, t) \/ append_attempt_event(q, t)
             \/ commit_cancelled_run(q, t) \/ commit_failed_run(q, t, EXECUTION, FALSE)
             \/ commit_failed_run(q, t, SAFETY, TRUE) \/ commit_checkpoint_conflict(q, t)
             \/ commit_completed_run(q, t)
      PROVE  Goal
  <2>1. CASE \/ renew_run_lease(q, t) \/ expire_run_lease(q, t)
             \/ append_attempt_event(q, t)
    BY Zenon, <1>1, <2>1 DEF renew_run_lease, expire_run_lease, append_attempt_event
  <2>2. CASE \/ commit_cancelled_run(q, t) \/ commit_failed_run(q, t, EXECUTION, FALSE)
             \/ commit_failed_run(q, t, SAFETY, TRUE)
    BY Zenon, <1>2, <2>2 DEF commit_cancelled_run, commit_failed_run
  <2>3. CASE commit_checkpoint_conflict(q, t) \/ commit_completed_run(q, t)
    BY Zenon, <1>2, <2>3 DEF commit_checkpoint_conflict, commit_completed_run,
       _fail_checkpoint_conflict, RejectStaleResult, SaveCheckpoint
  <2> QED
    BY Zenon, <1>8, <2>1, <2>2, <2>3
<1>9. ASSUME NEW w \in Worker, ByAttempt(w) \/ ByOvertaken(w) PROVE Goal
  <2>1. CASE pc[w] = "pending" /\ commit_reconciliation_pending(job[w].run, job[w].token)
    BY Zenon, <1>4, <2>1
  <2>2. CASE ~(pc[w] = "pending" /\ commit_reconciliation_pending(job[w].run, job[w].token))
    BY Zenon, <1>8, <1>9, <2>2 DEF ByAttempt, ByOvertaken
  <2> QED
    BY Zenon, <2>1, <2>2
<1>10. ASSUME NEW m \in Manager, ByDrained(m) PROVE Goal
  BY Zenon, <1>8, <1>10 DEF ByDrained
<1> QED
  BY Zenon, <1>5, <1>6, <1>7, <1>9, <1>10 DEF StoreCall

\* A Run marked for reconciliation keeps a checkpoint it can load.
LEMMA MarksStayLoadable ==
  ASSUME IInv, ManagerTypeOK, TokensSound, MarkedCanLoad, OwnersAreCurrent,
         StoreCall, [Next]_vars \/ Tick, ThreadsOK, ClaimsAreApart
  PROVE  MarkedCanLoad'
<1> SUFFICES ASSUME NEW r \in Run, status'[r] = "running", error_code'[r] = PENDING
             PROVE  load_thread_state_snapshot(r)'
  BY Zenon DEF MarkedCanLoad
<1>0. TypeOK
  BY Zenon DEF IInv
<1>c. "none" # PENDING
  BY DEF PENDING
<1>1. status[r] = "running" /\ load_thread_state_snapshot(r)
  <2>1. ASSUME NEW w \in Worker, job[w].run = r, pc[w] = "pending", Holds(w)
        PROVE  status[r] = "running" /\ load_thread_state_snapshot(r)
    <3>1. Owns(w) /\ pc[w] \in Committed
      BY Zenon, <2>1 DEF Holds, Owns, CurrentLease, Committed
    <3> QED
      BY Zenon, <2>1, <3>1 DEF OwnersAreCurrent, TokensSound, Owns
  <2>2. CASE error_code[r] = PENDING
    <3>1. status[r] \notin {"absent", "queued"}
      BY Zenon, <2>2, <1>c DEF TokensSound
    <3>2. status[r] = "running"
      <4>1. UNCHANGED status \/ Untouched(r) \/ Leased(r) \/ Kept(r) \/ Ended(r) \/ Noted(r)
        BY Zenon, <1>0, RowShape DEF Tick
      <4> QED
        BY Zenon, <3>1, <4>1 DEF Untouched, Leased, Candidate, FreshCandidate,
           ExpiredCandidate, Kept, Ended, Noted, Terminal
    <3> QED
      BY Zenon, <2>2, <3>2 DEF MarkedCanLoad
  <2> QED
    BY Zenon, <1>0, <2>1, <2>2, MarksAreBacked
<1> QED
  BY Zenon, <1>1, SnapshotStands

\* The checkpoint of a thread does not move under its Run's latest claim.
LEMMA OwnersStayCurrent ==
  ASSUME IInv, ManagerTypeOK, TokensSound, TokensSound', MarkedCanLoad, OwnersAreCurrent,
         ThreadsOK, ClaimsAreApart, [Next]_vars \/ Tick,
         MemoryStep \/ \E w \in Worker, r \in Run : Takes(w, r)
  PROVE  OwnersAreCurrent'
<1>0. TypeOK
  BY Zenon DEF IInv
<1> SUFFICES ASSUME NEW v \in Worker, Owns(v)'
             PROVE  /\ pc'[v] \in Committed \/ job'[v].reconcile =>
                         (load_thread_state_snapshot(job[v].run))'
                    /\ ~(pc'[v] = "conflict" /\ job'[v].reconcile)
  BY Zenon DEF OwnersAreCurrent
<1>1. CASE Rests(v) \/ Goes(v)
  <2>1. Keeps(v)
    BY Zenon, <1>1 DEF Rests, Goes, Keeps
  <2>2. /\ Owns(v) /\ job[v].run \in Run
        /\ status[job[v].run] = "running" /\ status'[job[v].run] = "running"
    BY Zenon, <1>0, <2>1, OwnershipIsOld
  <2>3. /\ pc[v] \in Committed \/ job[v].reconcile => load_thread_state_snapshot(job[v].run)
        /\ ~(pc[v] = "conflict" /\ job[v].reconcile)
    BY Zenon, <2>2 DEF OwnersAreCurrent
  <2>4. pc'[v] \in Committed \/ job'[v].reconcile => load_thread_state_snapshot(job[v].run)
    BY Zenon, <1>1, <2>1, <2>3 DEF Rests, Goes, Keeps
  <2>5. load_thread_state_snapshot(job[v].run) =>
          base'[job[v].run] = revision'[thread_id'[job[v].run]]
    BY Zenon, <2>2, SnapshotStands DEF load_thread_state_snapshot, _thread_revision
  <2>6. ~(pc'[v] = "conflict" /\ job'[v].reconcile)
    BY Zenon, <1>1, <2>1, <2>3 DEF Rests, Goes, Keeps
  <2> QED
    BY Zenon, <2>1, <2>4, <2>5, <2>6 DEF Keeps, load_thread_state_snapshot, _thread_revision
<1>2. ASSUME NEW r \in Run, Takes(v, r)
      PROVE  /\ pc'[v] \in Committed \/ job'[v].reconcile =>
                  (load_thread_state_snapshot(job[v].run))'
             /\ ~(pc'[v] = "conflict" /\ job'[v].reconcile)
  <2>1. /\ pc'[v] = "admit" /\ job'[v].run = r
        /\ job'[v].reconcile => status[r] = "running" /\ error_code[r] = PENDING
        /\ status'[r] = "running"
    BY <1>0, <1>2, ClaimsTake
  <2>2. job'[v].reconcile => base'[r] = revision'[thread_id'[r]]
    BY Zenon, <2>1, SnapshotStands
    DEF MarkedCanLoad, load_thread_state_snapshot, _thread_revision
  <2> QED
    BY Zenon, <2>1, <2>2 DEF Committed, load_thread_state_snapshot, _thread_revision
<1>3. ~Drops(v)
  BY Zenon, NoJobIsTyped DEF Drops, Owns
<1>4. \A w \in Worker, r \in Run : Takes(w, r) => v = w \/ Rests(v)
  BY <1>0, ClaimsTake
<1> QED
  BY Zenon, <1>1, <1>2, <1>3, <1>4 DEF MemoryStep, Moves

-----------------------------------------------------------------------------
(* Who begins and who ends a lease. *)

LeaseStays(r) ==
  lease_token'[r] = lease_token[r] /\ lease_expires_at'[r] = lease_expires_at[r]

\* The holder renews the lease or commits the Run's outcome under it.
HolderActs(w, r) ==
  /\ Registered(w) /\ job[w].run = r /\ CurrentLease(r, job[w].token)
  /\ \/ lease_token'[r] = lease_token[r] /\ lease_expires_at'[r] > now
     \/ lease_token'[r] = NoToken /\ status'[r] # "running"

\* The lease is relinquished.
Relinquished(r) == lease_token'[r] = lease_token[r] /\ lease_expires_at'[r] = now

\* A lease changes by a claim of the Run, by its holder, or because the worker
\* that stop() overtook or a process without live workers gives it back.
LEMMA LeasesChange ==
  ASSUME TypeOK, ManagerTypeOK, ThreadsOK, ClaimsAreApart, StoreCall, ~Tick, NEW r \in Run
  PROVE  /\ now' = now
         /\ \/ LeaseStays(r)
            \/ claim_next_run(r) /\ (Spend("fault") \/ \E w \in Worker : Takes(w, r))
            \/ status[r] = "queued" /\ lease_token'[r] = NoToken
            \/ \E w \in Worker : HolderActs(w, r)
            \/ \E w \in Worker : /\ pc[w] = "relinquish" /\ Has(w, r, lease_token[r])
                                 /\ Relinquished(r)
            \/ \E m \in Manager : /\ \A w \in WorkersOf(m) : ~is_alive(w)
                                  /\ owned_claims[m][r] = lease_token[r]
                                  /\ owned_claims[m][r] # NoToken /\ Relinquished(r)
<1> DEFINE Change ==
  \/ LeaseStays(r)
  \/ claim_next_run(r) /\ (Spend("fault") \/ \E w \in Worker : Takes(w, r))
  \/ status[r] = "queued" /\ lease_token'[r] = NoToken
  \/ \E w \in Worker : HolderActs(w, r)
  \/ \E w \in Worker : /\ pc[w] = "relinquish" /\ Has(w, r, lease_token[r])
                       /\ Relinquished(r)
  \/ \E m \in Manager : /\ \A w \in WorkersOf(m) : ~is_alive(w)
                        /\ owned_claims[m][r] = lease_token[r]
                        /\ owned_claims[m][r] # NoToken /\ Relinquished(r)
<1> SUFFICES now' = now /\ Change
  OBVIOUS
<1>0. /\ lease_token \in [Run -> Nat] /\ lease_expires_at \in [Run -> Int]
      /\ status \in [Run -> Status]
  BY Zenon DEF TypeOK
<1>1. CASE UNCHANGED <<lease_token, lease_expires_at, now>>
  BY Zenon, <1>1 DEF LeaseStays
<1>2. ASSUME NEW q \in Run, NEW s \in Terminal, NEW code, NEW es, _terminalize(q, s, code, es)
      PROVE  /\ now' = now
             /\ q # r => LeaseStays(r)
             /\ q = r => lease_token'[r] = NoToken /\ status'[r] # "running"
  BY Zenon, <1>0, <1>2 DEF _terminalize, _clear_lease, LeaseStays, Terminal
<1>3. "cancelled" \in Terminal /\ "failed" \in Terminal /\ "completed" \in Terminal
  BY Zenon DEF Terminal
<1>4. CASE ByClient
  <2>1. ASSUME NEW q \in Run, finalize_next_queued_cancellation(q) PROVE now' = now /\ Change
    BY Zenon, <1>2, <1>3, <2>1 DEF finalize_next_queued_cancellation, QueuedCancellation
  <2>2. ASSUME NEW q \in Run, create_run_with_event(q) \/ request_cancel_atomically(q)
        PROVE  now' = now /\ Change
    BY Zenon, <1>1, <2>2 DEF create_run_with_event, _insert_run, request_cancel_atomically,
       leaseVars
  <2> QED
    BY Zenon, <1>4, <2>1, <2>2 DEF ByClient
<1>5. CASE ByClaim
  <2>1. PICK q \in Run : claim_next_run(q) /\ (Spend("fault") \/ \E w \in Worker : Takes(w, q))
    BY Zenon, <1>5 DEF ByClaim
  <2>2. now' = now /\ (q # r => LeaseStays(r))
    BY Zenon, <1>0, <2>1 DEF claim_next_run, Lease, LeaseStays
  <2> QED
    BY Zenon, <2>1, <2>2
<1>6. ASSUME NEW w \in Worker, ByAttempt(w), job[w].run \in Run PROVE now' = now /\ Change
  <2> DEFINE q == job[w].run  t == job[w].token
  <2>1. CASE renew_run_lease(q, t)
    <3>1. now + LeaseDuration > now
      BY RunStoreAssumption DEF TypeOK
    <3>2. now' = now /\ (q # r => LeaseStays(r))
      BY Zenon, <1>0, <2>1 DEF renew_run_lease, LeaseStays
    <3>3. q = r => HolderActs(w, r)
      BY Zenon, <1>0, <1>6, <2>1, <3>1 DEF renew_run_lease, HolderActs, ByAttempt
    <3> QED
      BY Zenon, <3>2, <3>3
  <2>2. CASE append_attempt_event(q, t) \/ commit_reconciliation_pending(q, t)
    BY Zenon, <1>1, <2>2 DEF append_attempt_event, commit_reconciliation_pending, leaseVars
  <2>3. ASSUME CurrentLease(q, t), NEW s \in Terminal, NEW code, NEW es,
               _terminalize(q, s, code, es)
        PROVE  now' = now /\ Change
    <3>1. q = r => HolderActs(w, r)
      BY Zenon, <1>2, <1>6, <2>3 DEF HolderActs, ByAttempt
    <3> QED
      BY Zenon, <1>2, <1>6, <2>3, <3>1
  <2>4. CASE \/ commit_cancelled_run(q, t) \/ commit_failed_run(q, t, EXECUTION, FALSE)
             \/ commit_failed_run(q, t, SAFETY, TRUE)
    BY Zenon, <1>3, <2>3, <2>4 DEF commit_cancelled_run, commit_failed_run
  <2>5. CASE commit_checkpoint_conflict(q, t) \/ commit_completed_run(q, t)
    BY Zenon, <1>3, <2>3, <2>5 DEF commit_checkpoint_conflict, commit_completed_run,
       _fail_checkpoint_conflict, RejectStaleResult, SaveCheckpoint
  <2> QED
    BY Zenon, <1>6, <2>1, <2>2, <2>4, <2>5 DEF ByAttempt
<1>7. ASSUME NEW q \in Run, NEW t, expire_run_lease(q, t)
      PROVE  /\ now' = now
             /\ q # r => LeaseStays(r)
             /\ q = r => Relinquished(r) /\ lease_token[r] = t
  BY Zenon, <1>0, <1>7 DEF expire_run_lease, LeaseStays, Relinquished
<1>8. ASSUME NEW w \in Worker, ByOvertaken(w), job[w].run \in Run PROVE now' = now /\ Change
  BY Zenon, <1>7, <1>8 DEF ByOvertaken, Has
<1>9. ASSUME NEW m \in Manager, ByDrained(m) PROVE now' = now /\ Change
  BY Zenon, <1>7, <1>9 DEF ByDrained, Owned
<1>a. \A w \in Worker : ByAttempt(w) \/ ByOvertaken(w) => job[w].run \in Run
  <2>1. \A w \in Worker : ByAttempt(w) \/ ByOvertaken(w) => pc[w] \notin Idle
    BY Zenon DEF ByAttempt, ByOvertaken, Registered, Idle
  <2> QED
    BY Zenon, <2>1, TokensWereDrawn
<1> HIDE DEF Change
<1>10. CASE UNCHANGED vars
  BY Zenon, <1>1, <1>10 DEF vars, leaseVars
<1> QED
  BY Zenon, <1>a, <1>4, <1>5, <1>6, <1>8, <1>9, <1>10 DEF StoreCall

\* A live lease outlives every step but a terminal commit of its holder, its
\* relinquishing, and the passage of time.
LEMMA LiveLeasesEnd ==
  ASSUME TypeOK, ManagerTypeOK, ThreadsOK, TokensSound, ClaimsAreApart, StoreCall, ~Tick,
         NEW r \in Run, LiveLease(r)
  PROVE  \/ LiveLease(r)' /\ lease_token'[r] = lease_token[r]
         \/ status'[r] # "running"
            /\ \E w \in Worker : Registered(w) /\ Has(w, r, lease_token[r])
         \/ \E w \in Worker : pc[w] = "relinquish" /\ Has(w, r, lease_token[r])
         \/ \E m \in Manager : /\ \A w \in WorkersOf(m) : ~is_alive(w)
                               /\ owned_claims[m][r] = lease_token[r]
<1>1. lease_token[r] # NoToken /\ lease_expires_at[r] > now /\ status[r] = "running"
  BY Zenon DEF LiveLease, TokensSound
<1>2. now' = now
  BY Zenon, LeasesChange
<1>3. ~claim_next_run(r)
  BY Zenon, <1>1 DEF claim_next_run, Candidate, FreshCandidate, ExpiredCandidate, LiveLease
<1>4. LeaseStays(r) => LiveLease(r)' /\ lease_token'[r] = lease_token[r]
  BY Zenon, <1>1, <1>2 DEF LeaseStays, LiveLease
<1>5. ASSUME NEW w \in Worker, HolderActs(w, r)
      PROVE  \/ LiveLease(r)' /\ lease_token'[r] = lease_token[r]
             \/ status'[r] # "running" /\ Registered(w) /\ Has(w, r, lease_token[r])
  BY Zenon, <1>1, <1>2, <1>5 DEF HolderActs, LiveLease, CurrentLease, Has
<1> QED
  BY Zenon, <1>1, <1>3, <1>4, <1>5, LeasesChange

\* A live lease is as old as its claim.
LEMMA LiveLeasesAreOld ==
  ASSUME TypeOK, ManagerTypeOK, ThreadsOK, ClaimsAreApart, StoreCall, NEW r \in Run,
         LiveLease(r)'
  PROVE  \/ LiveLease(r) /\ lease_token'[r] = lease_token[r]
         \/ Spend("fault") \/ \E w \in Worker : Takes(w, r)
<1>0. lease_token'[r] # NoToken /\ lease_expires_at'[r] > now'
  BY Zenon DEF LiveLease
<1>1. CASE Tick
  BY Zenon, <1>0, <1>1 DEF Tick, LiveLease
<1>2. CASE ~Tick
  <2>1. now' = now
    BY Zenon, <1>2, LeasesChange
  <2>2. LeaseStays(r) => LiveLease(r) /\ lease_token'[r] = lease_token[r]
    BY Zenon, <1>0, <2>1 DEF LeaseStays, LiveLease
  <2>3. ASSUME NEW w \in Worker, HolderActs(w, r)
        PROVE  LiveLease(r) /\ lease_token'[r] = lease_token[r]
    BY Zenon, <1>0, <2>1, <2>3 DEF HolderActs, LiveLease, CurrentLease
  <2>4. ~Relinquished(r)
    <3>1. ~(now > now)
      BY RunStoreAssumption DEF TypeOK
    <3> QED
      BY Zenon, <1>0, <2>1, <3>1 DEF Relinquished
  <2> QED
    BY Zenon, <1>0, <1>2, <2>2, <2>3, <2>4, LeasesChange
<1> QED
  BY Zenon, <1>1, <1>2

\* Giving a lease back ends it.
LEMMA GivenBackIsNotLive ==
  ASSUME TypeOK, TokensSound, NEW r \in Run, LiveLease(r),
         ExpireOrSkip(r, lease_token[r])
  PROVE  ~(LiveLease(r)')
<1>1. lease_token[r] # NoToken
  BY Zenon DEF LiveLease
<1>2. status[r] = "running"
  BY Zenon, <1>1 DEF TokensSound
<1>3. lease_expires_at' = [lease_expires_at EXCEPT ![r] = now] /\ now' = now
  BY Zenon, <1>2 DEF ExpireOrSkip, expire_run_lease
<1>4. ~(now > now)
  BY RunStoreAssumption DEF TypeOK
<1>5. lease_expires_at'[r] = now
  BY Zenon, <1>3 DEF TypeOK
<1> QED
  BY Zenon, <1>3, <1>4, <1>5 DEF LiveLease

\* A process that stops has no live worker once it gives claims back.
LEMMA ExpiringIsDrained ==
  ASSUME TypeOK, ManagerTypeOK, LeasesAccounted, [ManagerNext]_allVars,
         MemoryStep \/ \E w \in Worker, r \in Run : Takes(w, r),
         NEW w \in Worker, mgr'[ManagerOf(w)] = "expiring"
  PROVE  pc'[w] = "exited"
<1>1. pc[w] = "exited"
  <2>1. \/ mgr[ManagerOf(w)] = "expiring"
        \/ \A u \in WorkersOf(ManagerOf(w)) : ~is_alive(u)
    BY Zenon, WorkersHaveManagers, StopsAreDrained
  <2> QED
    BY Zenon, <2>1 DEF LeasesAccounted, WorkersOf, is_alive
<1>2. CASE MemoryStep
  <2>1. "expiring" # "up"
    OBVIOUS
  <2> QED
    BY Zenon, <1>1, <1>2, <2>1 DEF MemoryStep, Moves, Rests, Drops, Goes
<1>3. ASSUME NEW v \in Worker, NEW r \in Run, Takes(v, r) PROVE pc'[w] = "exited"
  <2>1. pc[v] = "claim" /\ \A u \in Worker \ {v} : Rests(u)
    BY <1>3, ClaimsTake
  <2> QED
    BY Zenon, <1>1, <2>1 DEF Rests
<1> QED
  BY Zenon, <1>2, <1>3

\* While no claim is starved past its lease, a worker that has a claim to admit
\* holds its lease.
LEMMA AdmittingHolds ==
  ASSUME TypeOK, ManagerTypeOK, ThreadsOK, TokensSound, ClaimsAreApart, LeasesAccounted,
         StoreCall, BudgetStep, Undisturbed',
         MemoryStep \/ \E w \in Worker, r \in Run : Takes(w, r),
         NEW w \in Worker, pc'[w] = "admit"
  PROVE  Holds(w)'
<1>0. Undisturbed /\ ~Spend("fault") /\ ~Spend("late")
  BY Zenon, BudgetKept
<1>1. ASSUME NEW r \in Run, Takes(w, r) PROVE Holds(w)'
  <2>1. /\ job'[w].run = r /\ job'[w].token = attempt[r] + 1 /\ attempt[r] \in Nat
        /\ lease_token'[r] = attempt[r] + 1 /\ lease_expires_at'[r] > now'
    BY <1>1, ClaimsTake
  <2>2. attempt[r] + 1 # NoToken
    BY <2>1 DEF NoToken
  <2> QED
    BY Zenon, <2>1, <2>2 DEF Holds, CurrentLease
<1>2. CASE Rests(w)
  <2>1. pc[w] = "admit" /\ Holds(w) /\ job'[w] = job[w]
    BY Zenon, <1>0, <1>2 DEF Rests, LeasesAccounted
  <2> DEFINE t == job[w].token
  <2>a. PICK r \in Run : job[w].run = r
    BY Zenon, <2>1 DEF Holds, ClaimsAreApart
  <2>2. /\ t # NoToken /\ lease_token[r] = t /\ lease_expires_at[r] > now
        /\ LiveLease(r)
    BY Zenon, <2>1, <2>a DEF Holds, CurrentLease, LiveLease
  <2>3. CASE Tick
    <3>1. Healthy(w)
      BY Zenon, <2>1 DEF Healthy
    <3>2. lease_expires_at[r] # now + 1
      BY Zenon, <1>0, <2>3, <2>a, <3>1 DEF Tick
    <3>3. lease_expires_at[r] \in Int /\ now \in Int
      BY <2>2, RunStoreAssumption DEF TypeOK
    <3>4. lease_expires_at[r] - 1 > now
      BY <2>2, <3>2, <3>3
    <3>5. lease_token'[r] = t /\ lease_expires_at'[r] > now' /\ job'[w] = job[w]
      BY Zenon, <2>1, <2>2, <2>3, <3>4 DEF Tick
    <3> QED
      BY Zenon, <2>2, <2>a, <3>5 DEF Holds, CurrentLease
  <2>4. CASE ~Tick
    <3>1. \A u \in Worker : Has(u, r, lease_token[r]) => u = w
      BY Zenon, <2>2, <2>a DEF ClaimsAreApart
    <3>2. ~\E u \in Worker : (Registered(u) \/ pc[u] = "relinquish") /\ Has(u, r, lease_token[r])
      BY Zenon, <2>1, <3>1 DEF Registered
    <3>3. ASSUME NEW m \in Manager, \A u \in WorkersOf(m) : ~is_alive(u),
                 owned_claims[m][r] = lease_token[r]
          PROVE  FALSE
      <4>1. Has(w, r, owned_claims[m][r]) /\ owned_claims[m][r] # NoToken
        BY Zenon, <2>2, <2>a, <3>3 DEF Has
      <4>2. ManagerOf(w) = m
        BY Zenon, <2>2, <4>1 DEF ClaimsAreApart
      <4> QED
        BY Zenon, <2>1, <3>3, <4>2 DEF WorkersOf, is_alive
    <3>4. LiveLease(r)' /\ lease_token'[r] = lease_token[r]
      BY Zenon, <2>2, <2>4, <3>2, <3>3, LiveLeasesEnd
    <3> QED
      BY Zenon, <2>1, <2>2, <2>a, <3>4 DEF Holds, CurrentLease, LiveLease
  <2> QED
    BY Zenon, <2>3, <2>4
<1>3. ASSUME NEW v \in Worker, NEW r \in Run, Takes(v, r) PROVE v = w \/ Rests(w)
  BY <1>3, ClaimsTake
<1>4. CASE MemoryStep
  <2>1. "admit" \notin {"poll", "exited"}
    OBVIOUS
  <2> QED
    BY Zenon, <1>2, <1>4, <2>1 DEF MemoryStep, Moves, Drops, Goes
<1> QED
  BY Zenon, <1>1, <1>2, <1>3, <1>4

\* While no store call fails, every live lease of a process is in its claim
\* table or with a worker that has yet to admit it or to give it back.
LEMMA LeasesStayAccounted ==
  ASSUME TypeOK, ManagerTypeOK, ThreadsOK, TokensSound, ClaimsAreApart, LeasesAccounted,
         StoreCall, BudgetStep, Undisturbed',
         MemoryStep \/ \E w \in Worker, r \in Run : Takes(w, r),
         NEW r \in Run, LiveLease(r)', owner'[r] # NoOwner
  PROVE  Accounted(r)'
<1>0. Undisturbed /\ ~Spend("fault")
  BY Zenon, BudgetKept
<1>1. ASSUME NEW w \in Worker, Takes(w, r) PROVE Accounted(r)'
  <2>1. /\ job'[w].run = r /\ job'[w].token = attempt[r] + 1 /\ pc'[w] = "admit"
        /\ lease_token'[r] = attempt[r] + 1 /\ owner'[r] = ManagerOf(w)
    BY <1>1, ClaimsTake
  <2> QED
    BY Zenon, <2>1 DEF Accounted, Has, Unadmitted
<1>2. CASE ~\E w \in Worker : Takes(w, r)
  <2>1. LiveLease(r) /\ lease_token'[r] = lease_token[r]
    BY Zenon, <1>0, <1>2, LiveLeasesAreOld
  <2>2. owner'[r] = owner[r]
    <3>1. CASE MemoryStep
      BY Zenon, <1>0, <3>1 DEF MemoryStep, OwnersStep
    <3>2. ASSUME NEW w \in Worker, NEW q \in Run, Takes(w, q) PROVE owner'[r] = owner[r]
      <4>1. q # r
        BY Zenon, <1>2, <3>2
      <4> QED
        BY <3>2, <4>1, ClaimsTake
    <3> QED
      BY Zenon, <3>1, <3>2
  <2>3. owner[r] \in Manager /\ Accounted(r)
    <3>1. owner[r] \in Manager \cup {NoOwner} /\ owner[r] # NoOwner
      BY Zenon, <2>2 DEF ManagerTypeOK
    <3> QED
      BY Zenon, <1>0, <2>1, <3>1 DEF LeasesAccounted
  <2> DEFINE m == owner[r]  t == lease_token[r]
  <2>g. ~ExpireOrSkip(r, t)
    BY Zenon, <2>1, GivenBackIsNotLive
  <2>4. ASSUME NEW w \in Worker, NEW q \in Run, Takes(w, q)
        PROVE  /\ UNCHANGED owned_claims
               /\ \A v \in Worker : pc[v] \in Unadmitted => Rests(v)
    <3>1. /\ UNCHANGED owned_claims /\ pc[w] = "claim"
          /\ \A v \in Worker \ {w} : Rests(v)
      BY <2>4, ClaimsTake
    <3> QED
      BY Zenon, <3>1 DEF Unadmitted
  <2>5. CASE owned_claims[m][r] = t
    <3>1. owned_claims'[m][r] = t
      <4>1. CASE MemoryStep
        <5>1. ASSUME NEW w \in Worker, pc[w] = "admit", Has(w, r, owned_claims'[m][r])
              PROVE  owned_claims'[m][r] = t
          BY Zenon, <1>0, <5>1 DEF LeasesAccounted, Holds, CurrentLease, Has
        <5> QED
          BY Zenon, <1>0, <2>2, <2>3, <2>5, <2>g, <4>1, <5>1 DEF MemoryStep, TableStep
      <4>2. ASSUME NEW w \in Worker, NEW q \in Run, Takes(w, q)
            PROVE  owned_claims'[m][r] = t
        BY Zenon, <2>4, <2>5, <4>2
      <4> QED
        BY Zenon, <4>1, <4>2
    <3> QED
      BY Zenon, <2>1, <2>2, <3>1 DEF Accounted
  <2>6. ASSUME NEW w \in Worker, ManagerOf(w) = m, pc[w] \in Unadmitted, Has(w, r, t)
        PROVE  Accounted(r)'
    <3>1. CASE Rests(w)
      BY Zenon, <2>1, <2>2, <2>6, <3>1 DEF Accounted, Rests, Has
    <3>2. ~Drops(w)
      BY Zenon, <2>2, <2>6 DEF Drops
    <3>3. CASE Goes(w)
      <4>1. pc[w] = "admit"
        BY Zenon, <1>0, <2>6, <2>g, <3>3 DEF Goes, Unadmitted, Has
      <4>2. CASE pc'[w] = "relinquish"
        BY Zenon, <2>1, <2>2, <2>6, <3>3, <4>2 DEF Accounted, Goes, Keeps, Has, Unadmitted
      <4>3. CASE owned_claims'[ManagerOf(w)][job[w].run] = job[w].token
        BY Zenon, <2>1, <2>2, <2>6, <4>3 DEF Accounted, Has
      <4> QED
        BY Zenon, <3>3, <4>1, <4>2, <4>3 DEF Goes
    <3>4. Rests(w) \/ Goes(w)
      BY Zenon, <2>4, <2>6, <3>2 DEF MemoryStep, Moves
    <3> QED
      BY Zenon, <3>1, <3>3, <3>4
  <2> QED
    BY Zenon, <2>3, <2>5, <2>6 DEF Accounted
<1> QED
  BY Zenon, <1>1, <1>2

-----------------------------------------------------------------------------
(* The invariant is inductive. *)

\* The processes start up with no claims, and the store with no Runs.
LEMMA ManagerInvStart == ManagerInit => ManagerInv
<1> SUFFICES ASSUME ManagerInit PROVE ManagerInv
  OBVIOUS
<1>1. IInv /\ TypeOK
  BY Zenon, InitIInv DEF ManagerInit, IInv
<1>2. /\ mgr = [m \in Manager |-> "up"] /\ pc = [w \in Worker |-> "poll"]
      /\ job = [w \in Worker |-> NoJob] /\ lease_lost = [w \in Worker |-> FALSE]
      /\ heartbeat = [w \in Worker |-> "off"]
      /\ owned_claims = [m \in Manager |-> [r \in Run |-> NoToken]]
      /\ owner = [r \in Run |-> NoOwner] /\ budget = Budget
  BY Zenon DEF ManagerInit
<1>3. /\ lease_token = [r \in Run |-> NoToken] /\ attempt = [r \in Run |-> 0]
      /\ status = [r \in Run |-> "absent"] /\ error_code = [r \in Run |-> "none"]
  BY Zenon DEF ManagerInit, Init
<1>4. NoJob \in Job /\ NoJob.token = NoToken /\ NoToken \in Nat
  BY Zenon, NoJobIsTyped DEF NoToken
<1>5. budget \in Spending /\ budget.fault <= Budget.fault /\ budget.late <= Budget.late
  BY <1>2, ManagerAssumption DEF Spending
<1>6. ManagerTypeOK
  BY Zenon, <1>2, <1>4, <1>5 DEF ManagerTypeOK, Label
<1>7. ThreadsOK
  BY Zenon, <1>2 DEF ThreadsOK, Idle
<1>8. TokensSound /\ MarkedCanLoad /\ CancelMaskedOnlyBySafety
  BY <1>3 DEF TokensSound, MarkedCanLoad, CancelMaskedOnlyBySafety, NoToken
<1>9. ClaimsAreApart
  BY Zenon, <1>2, <1>4 DEF ClaimsAreApart
<1>10. OwnersAreCurrent
  BY Zenon, <1>2, <1>4 DEF OwnersAreCurrent, Owns
<1>11. LeasesAccounted
  <2>1. \A w \in Worker : mgr[ManagerOf(w)] = "up" /\ pc[w] = "poll"
    BY Zenon, <1>2, WorkersHaveManagers
  <2> QED
    BY Zenon, <1>2, <2>1 DEF LeasesAccounted
<1> QED
  BY Zenon, <1>1, <1>6, <1>7, <1>8, <1>9, <1>10, <1>11 DEF ManagerInv

\* Every step of the workers, their heartbeats, the processes, the clients and
\* the clock preserves the invariant.
LEMMA ManagerInvStep == ManagerInv /\ [ManagerNext]_allVars => ManagerInv'
<1> SUFFICES ASSUME ManagerInv, [ManagerNext]_allVars PROVE ManagerInv'
  OBVIOUS
<1>1. /\ IInv /\ TypeOK /\ ManagerTypeOK /\ ThreadsOK /\ TokensSound /\ MarkedCanLoad
      /\ CancelMaskedOnlyBySafety /\ ClaimsAreApart /\ OwnersAreCurrent /\ LeasesAccounted
  BY Zenon DEF ManagerInv, IInv
<1>2. StoreCall /\ BudgetStep
  BY Zenon, <1>1, StepsCallStore, StepsSpendOne
<1>3. [Next]_vars \/ Tick
  BY Zenon, <1>1, <1>2, StepsAreStoreSteps
<1>4. MemoryStep \/ \E w \in Worker, r \in Run : Takes(w, r)
  BY Zenon, <1>1, StepsMoveMemory
<1>5. IInv'
  BY Zenon, <1>1, <1>3, NextIInv, TickKeepsRows
<1>6. ManagerTypeOK' /\ ThreadsOK'
  BY Zenon, <1>1, StepsKeepTypes
<1>7. TokensSound' /\ CancelMaskedOnlyBySafety'
  BY Zenon, <1>1, <1>3, TokensStaySound, MaskingNeedsSafety
<1>8. MarkedCanLoad'
  BY Zenon, <1>1, <1>2, <1>3, MarksStayLoadable
<1>9. ClaimsAreApart'
  BY Zenon, <1>1, <1>3, <1>4, ClaimsStayApart
<1>10. OwnersAreCurrent'
  BY Zenon, <1>1, <1>3, <1>4, <1>7, OwnersStayCurrent
<1>11. LeasesAccounted'
  <2>1. \A w \in Worker : mgr'[ManagerOf(w)] = "expiring" => pc'[w] = "exited"
    BY Zenon, <1>1, <1>4, ExpiringIsDrained
  <2>2. Undisturbed' => \A w \in Worker : pc'[w] = "admit" => Holds(w)'
    BY Zenon, <1>1, <1>2, <1>4, AdmittingHolds
  <2>3. Undisturbed' => \A r \in Run : LiveLease(r)' /\ owner'[r] # NoOwner => Accounted(r)'
    BY Zenon, <1>1, <1>2, <1>4, LeasesStayAccounted
  <2> QED
    BY Zenon, <2>1, <2>2, <2>3 DEF LeasesAccounted, is_alive
<1> QED
  BY Zenon, <1>5, <1>6, <1>7, <1>8, <1>9, <1>10, <1>11 DEF ManagerInv

\* The inductive invariant holds in every reachable state.
THEOREM ManagerInvariance == ManagerSpec => []ManagerInv
  BY ManagerInvStart, ManagerInvStep, PTL DEF ManagerSpec

-----------------------------------------------------------------------------
(* What the processes guarantee. *)

\* Any number of workers in any number of processes, with claims that expire,
\* crash, are taken over and are given back: no two of them hold current leases
\* on Runs of one thread (claim_next_run, _execute_claim).
THEOREM ExecutionIsExclusive == ManagerSpec => []ExclusiveExecution
<1>1. ASSUME ManagerInv PROVE ExclusiveExecution
  <2> SUFFICES ASSUME NEW v \in Worker, NEW w \in Worker, Holds(v), Holds(w),
                      SameThread(job[v].run, job[w].run)
               PROVE  v = w
    BY Zenon DEF ExclusiveExecution
  <2>1. ASSUME NEW u \in Worker, Holds(u)
        PROVE  /\ job[u].run \in Run /\ status[job[u].run] = "running"
               /\ job[u].token # NoToken /\ lease_token[job[u].run] = job[u].token
    BY Zenon, <1>1, <2>1 DEF ManagerInv, TokensSound, ClaimsAreApart, Holds, CurrentLease
  <2>2. job[v].run = job[w].run
    BY Zenon, <1>1, <2>1 DEF ManagerInv, IInv, OneRunningPerThread
  <2>3. job[v].token # NoToken /\ Has(w, job[v].run, job[v].token)
    <3>1. /\ job[v].token # NoToken /\ lease_token[job[v].run] = job[v].token
          /\ lease_token[job[w].run] = job[w].token
      BY Zenon, <2>1
    <3> QED
      BY SMT, <2>2, <3>1 DEF Has
  <2> QED
    BY Zenon, <1>1, <2>3 DEF ManagerInv, ClaimsAreApart
<1> QED
  BY <1>1, ManagerInvariance, PTL

\* A Runtime whose attempt holds the lease works on the thread's latest
\* checkpoint, and one that must reconcile never meets a revision conflict
\* (_execute_owned_run).
THEOREM ExecutionIsCurrent == ManagerSpec => []ExecutesOnCurrentState
<1>1. ASSUME ManagerInv PROVE ExecutesOnCurrentState
  <2> SUFFICES ASSUME NEW w \in Worker, Holds(w)
               PROVE  /\ pc[w] \in {"loaded", "execute", "complete"} =>
                           load_thread_state_snapshot(job[w].run)
                      /\ ~(pc[w] = "conflict" /\ job[w].reconcile)
    BY Zenon DEF ExecutesOnCurrentState
  <2>1. Owns(w)
    BY Zenon DEF Holds, CurrentLease, Owns
  <2> QED
    BY Zenon, <1>1, <2>1 DEF ManagerInv, OwnersAreCurrent, Committed
<1> QED
  BY <1>1, ManagerInvariance, PTL

\* A Run that failed over an accepted cancellation failed for the safety of an
\* external action (the failure boundary of _execute_owned_run).
THEOREM MaskingIsForSafety == ManagerSpec => []CancelMaskedOnlyBySafety
<1>1. ManagerInv => CancelMaskedOnlyBySafety
  BY Zenon DEF ManagerInv
<1> QED
  BY <1>1, ManagerInvariance, PTL

\* Neither stop(), start() nor another worker takes the lease of a worker that
\* may still execute; and when a drained stop() returns without a store error
\* or a starved claim on the way, no live lease names the process
\* (_expire_drained_claims).
THEOREM StoppingHandsOver == ManagerSpec => StopHandsOver
<1> DEFINE Kept1 ==
  \A w \in Worker :
       /\ Holds(w) /\ Executing(w)
       /\ Executing(w)' /\ job'[w].token = job[w].token
       /\ status'[job[w].run] = "running"
       => Holds(w)' \/ Tick
<1> DEFINE Released ==
  \A m \in Manager : \A r \in Run :
       /\ mgr[m] = "expiring" /\ mgr'[m] = "stopped"
       /\ budget.fault = Budget.fault /\ budget.late = Budget.late
       => ~(owner'[r] = m /\ LiveLease(r)')
<1>0. ASSUME ManagerInv, [ManagerNext]_allVars
      PROVE  /\ TypeOK /\ ManagerTypeOK /\ ThreadsOK /\ TokensSound /\ ClaimsAreApart
             /\ LeasesAccounted /\ StoreCall
             /\ MemoryStep \/ \E w \in Worker, r \in Run : Takes(w, r)
  <2>1. /\ TypeOK /\ ManagerTypeOK /\ ThreadsOK /\ TokensSound /\ ClaimsAreApart
        /\ LeasesAccounted
    BY Zenon, <1>0 DEF ManagerInv, IInv
  <2> QED
    BY Zenon, <1>0, <2>1, StepsCallStore, StepsMoveMemory
<1>1. ASSUME ManagerInv, [ManagerNext]_allVars PROVE Kept1
  <2> SUFFICES ASSUME NEW w \in Worker, Holds(w), Executing(w), Executing(w)',
                      job'[w].token = job[w].token, status'[job[w].run] = "running", ~Tick
               PROVE  Holds(w)'
    BY Zenon
  <2>0. /\ TypeOK /\ ManagerTypeOK /\ ThreadsOK /\ TokensSound /\ ClaimsAreApart
        /\ StoreCall
        /\ MemoryStep \/ \E v \in Worker, r \in Run : Takes(v, r)
    BY Zenon, <1>0, <1>1
  <2>1. PICK r \in Run : job[w].run = r
    BY Zenon, <2>0 DEF Holds, ClaimsAreApart
  <2>2. /\ job[w].token # NoToken /\ lease_token[r] = job[w].token
        /\ LiveLease(r) /\ status'[r] = "running"
    BY Zenon, <2>1 DEF Holds, CurrentLease, LiveLease
  <2>3. job'[w].run = r
    <3>1. Rests(w) \/ Goes(w) \/ pc'[w] \in {"admit", "poll", "exited"}
      <4>1. ASSUME NEW v \in Worker, NEW q \in Run, Takes(v, q)
            PROVE  Rests(w) \/ pc'[w] = "admit"
        BY <2>0, <4>1, ClaimsTake
      <4> QED
        BY Zenon, <2>0, <4>1 DEF MemoryStep, Moves, Drops
    <3>2. pc'[w] \notin {"admit", "poll", "exited"}
      BY Zenon DEF Executing
    <3> QED
      BY Zenon, <2>1, <3>1, <3>2 DEF Rests, Goes, Keeps
  <2>4. \A u \in Worker : Has(u, r, lease_token[r]) => u = w
    BY Zenon, <2>0, <2>1, <2>2 DEF ClaimsAreApart
  <2>5. ~\E u \in Worker : pc[u] = "relinquish" /\ Has(u, r, lease_token[r])
    BY Zenon, <2>4 DEF Executing
  <2>6. ASSUME NEW m \in Manager, \A u \in WorkersOf(m) : ~is_alive(u),
               owned_claims[m][r] = lease_token[r]
        PROVE  FALSE
    <3>1. Has(w, r, owned_claims[m][r]) /\ owned_claims[m][r] # NoToken
      BY Zenon, <2>1, <2>2, <2>6 DEF Has
    <3>2. ManagerOf(w) = m
      BY Zenon, <2>0, <3>1 DEF ClaimsAreApart
    <3> QED
      BY Zenon, <2>6, <3>2 DEF WorkersOf, is_alive, Executing
  <2>7. LiveLease(r)' /\ lease_token'[r] = lease_token[r]
    BY Zenon, <2>0, <2>2, <2>5, <2>6, LiveLeasesEnd
  <2> QED
    BY Zenon, <2>2, <2>3, <2>7 DEF Holds, CurrentLease, LiveLease
<1>2. ASSUME ManagerInv, [ManagerNext]_allVars PROVE Released
  <2> SUFFICES ASSUME NEW m \in Manager, NEW r \in Run, mgr[m] = "expiring",
                      mgr'[m] = "stopped", Undisturbed, owner'[r] = m, LiveLease(r)'
               PROVE  FALSE
    BY Zenon DEF Undisturbed
  <2>0. ManagerTypeOK /\ LeasesAccounted
    BY Zenon, <1>0, <1>2
  <2>1. Owned(m) = {} /\ UNCHANGED <<vars, owner>>
    BY Zenon, <1>2, <2>0, StopsAreDrained
  <2>2. LiveLease(r) /\ owner[r] = m /\ lease_token[r] # NoToken
    BY Zenon, <2>1 DEF LiveLease, vars, leaseVars
  <2>3. Accounted(r)
    BY Zenon, <2>0, <2>2, ManagerAssumption DEF LeasesAccounted
  <2>4. owned_claims[m][r] = NoToken
    BY Zenon, <2>1 DEF Owned
  <2>5. \A w \in Worker : ManagerOf(w) = m => pc[w] \notin Unadmitted
    BY Zenon, <2>0 DEF LeasesAccounted, is_alive, Unadmitted
  <2> QED
    BY Zenon, <2>2, <2>3, <2>4, <2>5 DEF Accounted
<1>3. ManagerSpec => [][Kept1]_allVars
  BY <1>1, ManagerInvariance, PTL DEF ManagerSpec
<1>4. ManagerSpec => [][Released]_allVars
  BY <1>2, ManagerInvariance, PTL DEF ManagerSpec
<1> QED
  BY <1>3, <1>4 DEF StopHandsOver, RelinquishOnlyDrained, DrainedStopReleasesLeases
=============================================================================
