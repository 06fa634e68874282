# TLA+ specifications of the agent runtime platform

This directory specifies the durable core of the platform: how Runs are stored,
claimed, leased, executed, cancelled, quarantined and recovered by several
processes that share one database; how a Run performs an external write exactly
as often as it may; how the built-in agents survive a restart in the middle of
their work; and how all of it holds on SQLite and on PostgreSQL. The modules are
checked with TLC on small instances, and the results about the stores, the ledger,
the attempts that use it and quarantine are proved with TLAPS for all instances.
Paths below are relative to the repository root; source files without a directory
are in `src/runtime_service/`.

## The system

A client submits a Run for a *thread*. The Run is a row of the `runs` table; the
thread's state is a row of `thread_states` with a revision; what happens to a Run
is appended to `run_events`. Several `RuntimeManager` processes poll the database.
A worker claims a Run under a fresh lease token, a heartbeat renews the lease, a
domain Runtime executes, and the worker commits the outcome under the lease. An
expired lease makes the Run claimable again, so every Run may have several
attempts, and a stale attempt may still be at work. A Runtime keeps its own progress
in the workflow store: an execution row, tool steps, evidence events and, for a
write to the outside world, an external-action row. Every such write checks the
Run's lease in its own transaction, except the recording of a provider's answer.

| Part | Module | What makes it hard |
| --- | --- | --- |
| Run store (`store.py`) | `RunStore`, `Quarantine` | stale tokens, clock jumps, insertion order, revision races |
| Manager (`manager.py`) | `RuntimeManager` | starvation between steps, lost store answers, stop during execution |
| Workflow store (`workflow_store.py`) | `WorkflowStore`, `ToolSteps`, `ActionLedger` | late writes of stale attempts, step recovery, reuse of another Run's steps |
| Coordinator (`external_action_coordinator.py`), Action runtime (`src/domains/durable_action/runtime.py`), providers | `ExternalActions` | crashes anywhere, lost and late answers, changed registration, store exceptions in handlers |
| Action gateway (`action_gateway_service.py`, the Action routes of `src/api/main.py`) | `ActionGateway` | projections of rows that are read one after the other, racing submissions |
| Evidence (`evidence.py`) and sandbox (`sandbox.py`) | `AgentAttempts`, `ToolSteps` | two-step recording, store exceptions, deadline against result, orphaned child |
| Dynamic loop (`dynamic_loop.py`), travel agent (`src/domains/travel/dynamic_runtime.py`) | `DynamicAgent` | crash between decision and observation, an oracle that answers differently when asked again |
| Workflow DAG (`dag.py`), release validation (`src/domains/release_validation/runtime.py`) | `WorkflowDag`, `ReleaseValidation` | retries, replay of another Run, invalidation |
| Governed memory (`memory.py`) | `MemoryStore`, `DynamicAgent` | replay by recovered attempts, foreign writers |
| Quarantine resolution (`store.py`) | `Quarantine` | plans that went stale, repeated commands |
| PostgreSQL backends (`postgres_store.py`, `postgres_workflow_store.py`, `postgres_memory_store.py`) | `PostgresRunStore`, `PostgresLedger` | claims that skip each other, reads that go stale inside a transaction, lock order |

`PROJECT.json` lists every component with its status, the hazards with their
source lines, and the source lines behind every definition.

## Modules

| Module | Models | Over |
| --- | --- | --- |
| `RunStore` | `SQLiteRunStore`: one action per public method, because each is one `BEGIN IMMEDIATE` transaction | |
| `ThreadHistory` | what the store promises: one serial log of saved Runs per thread | |
| `RuntimeManager` | Manager processes with workers, heartbeats, stop and start | `RunStore` |
| `WorkflowStore` | `workflow_executions` | `RunStore` |
| `ActionLedger` | the external-write step and its `external_actions` row | `WorkflowStore` |
| `ExternalActions` | attempts, Action runtime, coordinator and providers | `ActionLedger` |
| `ActionGateway` | idempotent submission, projection and polling | `ExternalActions` |
| `Quarantine` | parking a Run, and the operator's plan, apply and verify | `ActionLedger` |
| `ToolSteps` | read-only steps, their retries and reuse, evidence and its mirror | `WorkflowStore` |
| `MemoryStore` | versions, supersession, deletion, audit, sealed snapshots | `RunStore` |
| `AgentAttempts` | claim, evidence recording, sandbox and terminal commit of an agent's attempt | `ToolSteps`, `MemoryStore` |
| `DynamicAgent` | the travel agent: memory around the planner loop | `AgentAttempts` |
| `WorkflowDag` | graph construction, topological order, downstream closure | |
| `ReleaseValidation` | the serial schedule, retries, replay and verdict | `AgentAttempts`, `WorkflowDag` |
| `Agents` | both agents in one service | the two above |
| `PostgresRunStore` | the Run lifecycle as interleaved READ COMMITTED statements | `RunStore` |
| `PostgresLedger` | workflow, quarantine and memory transactions, statement by statement | |
| `RunStoreProofs`, `RuntimeManagerProofs`, `ActionLedgerProofs`, `ExternalActionsProofs`, `GatewayProofs`, `QuarantineProofs`, `PostgresRunStoreProofs`, `PostgresLedgerProofs` | TLAPS proofs | |
| `MC*` | TLC instances | |

### RunStore

A Run is its position in the `(created_at, run_id)` order. `created_at` is stamped
before the insert transaction, so Runs are inserted in any order. The k-th claim
of a Run draws token `k`; `0` is NULL. Each variable is a column. An attempt never
forgets its token: `Tokens(r)` is every token the Run ever issued, and any of them
may be presented to any lease-fenced operation at any time. That is how crashed,
starved and duplicated workers appear at this level. The wall clock (`now`) may
jump in both directions. `error_code` keeps the codes the store and Manager tell
apart; the three external-action safety codes are one value (`SAFETY`).

### RuntimeManager

Each worker is a program counter over the steps of `_worker_loop`,
`_execute_claim` and `_execute_owned_run`; each heartbeat and each `stop()` is a
process of its own. The clock stands still and `Tick` brings deadlines closer,
which keeps the state space finite and lets liveness be checked. `Budget` bounds
how often each kind of disturbance happens in a run.

### WorkflowStore, ActionLedger and ExternalActions

The n-th dispatch of an action draws dispatch token `n`. The external-write step is
claimed once (`max_attempts=1`), so its attempt token never changes. Provider
answers are recorded without a lease, the runtime's own decisions with one, as in
the code.

In `ExternalActions` attempt `k` is the worker holding token `k`; `pc` and `frame`
are its control state and its local knowledge. Reading, deciding and writing are
separate steps wherever the code separates them; adjacent steps of one attempt are
merged only when the first touches nothing another process can see or change (the
mirror of a dispatch event and the request that follows it). `Raise` follows an
exception through the handlers of `DurableActionRuntime.execute` and of
`_execute_owned_run`. Requests travel in `sent`; a provider applies or refuses them
at any later time or never. `Faulted` says, label by label, where an exception of the
store leads. An exception after a commit is covered by the exception at the next
label, because the code reads the committed row back. Permission failures take the
path of a missing provider; the retry mode of a provider is fixed, a changed one
being a changed identity.

### ActionGateway

A Run stands for one idempotency key. A caller looks the key up in one transaction
and inserts in another; a reader takes the Run in one transaction and the ledger in
another, with everything else running in between. `PublicStatusIsTrue` compares
what is then answered with the rows as they are. While the workflow has failed
before an action row exists and the Run is not committed yet, the code answers with
incomplete evidence; this is transient and the property allows for it.

### Quarantine

A plan identifier is a hash of the evidence, so a plan is the evidence. The ledger
methods are called by any attempt in any order, which includes more than the
coordinator does. Quarantine can be a dead end by design: an action that stays
`dispatching` because its worker is gone, or a second foreign write after parking,
leaves a Run that no plan releases. The documentation lists these as non-goals, and
they are why the run does not check for deadlock.

### ToolSteps, MemoryStore and the agents

The n-th claim of a step draws attempt token `n`; a step copied by a replay has claim
count 0. Evidence is written to the ledger and then mirrored to the public stream, in
two transactions; a restarted attempt repairs the mirror by reading. The planner, the
tools and the checks may answer differently each time they are asked. That is what
makes a restart interesting: a decision or a result on record must be used and not
asked for again. The sandbox child is a process of its own that may outlive its
parent. A permanent failure of a check that is persisted just before a crash is met
by the recovered attempt as a failed step and fails the Run, as in the code.

An exception of the store may end any step that calls it. `LoopRaises` lets it escape
from the dynamic loop and from the memory around it, the append to the public stream
included: the Manager fails the Run, whose execution stays open and whose evidence
may stay unpublished. `ReleaseRaises` closes the execution as failed when the
exception comes from the step loop and lets it escape elsewhere; `CommitRaises` turns
a completion into a failure. An exception of the failure commit itself ends the
worker and leaves the lease to run out, which is `Crash`. `TrailIsComplete` is stated
with this in mind: an execution that is closed has all of its evidence in the public
stream, a completed Run also its memory mutations, and a failed Run whose execution
is open has it all only if no call of the store raised.

`step.cache_reused` and `result_reused` events are lease checks without a record.
Cancellation of an agent's Run is left to `RuntimeManager`; the tool registry does
not change between attempts; the overlay of checkpointed preferences in the travel
agent is content.

### PostgresRunStore

The variables of `RunStore` hold committed rows; `txn` is the open transaction of
each connection and how far it has come. A statement is an action that sees what
is committed when it runs. `At(x)` instantiates `RunStore` with the clock of
transaction `x`, because `transaction_timestamp()` is read once. `Locked` is what
`FOR UPDATE` excludes; a row lock of a transaction that touches one Run is not kept
as state, so a scan with `SKIP LOCKED` may pick any candidate of a thread's head. The
claim's UPDATE and its entry into the partial unique index are two actions: the
captured revision comes from the snapshot of the first. `Rollback` covers a unique
violation, an unmatched row, a timeout and a lost connection.

### PostgresLedger

A method is a list of statements; a session holds the row locks it took and remembers
what it read. `ReadsAreCurrent` says that what it read still holds when it writes,
`NoLockCycle` that sessions never wait for each other in a circle. `FOR UPDATE` of a
missing row locks nothing, which is where a lock on another row has to stand in.
The thread row exists from the start; the lookup of the owner of an idempotency key
(`FOR SHARE`) is left out. A replay reads only Runs that were submitted earlier, so
two replays do not wait for each other. `workflow_executions` has no foreign key to
`runs`, so recording a provider's answer takes no lock on the Run.

## Runs

| Run | Instance | Shows |
| --- | --- | --- |
| `run_store` | 2 Runs on 1 or 2 threads, 2 attempts each, clock 0..1, observations up to 3 events | serial checkpoint history, orderly handover, outcomes that are decided once under a lease, an event stream that agrees with the row |
| `postgres_store` | 2 connections, 2 Runs of a thread, 2 attempts each, clock 0..1 | the same history under interleaved statements; serial seeds; completion is not overtaken between its statements |
| `manager_thread` | 2 processes of 1 worker, 2 Runs of a thread; any two of crash, starved heartbeat, undecided action | exclusive execution on current state |
| `manager_progress` | 1 process of 2 workers, 1 Run; any two of stop, crash, store exception, starved heartbeat, undecided action, cancellation | leases are handed over when drained and only then; a cancellation is masked only by a safety failure; every Run ends |
| `actions` | 2 attempts, 2 providers, one registration change, one store exception, a cancellation | refinement of `ActionLedger`, at most one effect, every dispatch is settled, the Run tells the outcome |
| `gateway` | 2 callers with 2 bodies and one key, 2 posts, 1 reader at a time, 2 attempts, one store exception | public status is true and final, a Run that has ended has an outcome to tell, the ledger is truthful, no Run ends with a dispatch in flight |
| `quarantine` | a writing Run and its successor, 2 attempts, 2 operators, revisions up to 2 | a parked Run is held, and released once on evidence that stands; repeated commands agree |
| `agents` | a travel Run (2 attempts, 2 tool calls), or a release Run (1 attempt) with its replay (2 attempts) over 3 checks; crashes, one store exception, lost lease or missed tool deadline, one foreign memory write | restarts agree with the record, evidence and verdicts are grounded, the public stream is complete, memory keeps one line of versions, every Run ends |
| `pg_ledger` | 3 connections; five loads: starting, acting, parking, replaying, remembering | reads are current, locks have no cycle, rows agree, first outcome stands |

`HandoverIsOrderly`, `OutcomeStands` and `StopHandsOver` are conjunctions of
properties that are stated one by one above them; TLC reports the conjunct that
fails. Types are checked by the proofs.

### Bounds

Two attempts suffice for every conflict between a stale and a current
holder (`manager_*` allow four to six claims). Two Runs give every order of
stamping, insertion, claim and completion within a thread, and two threads show that
one does not disturb the other. A clock of two readings separates expired from
live and can go back; with a clock of one reading leases end by `expire_run_lease`
or `Tick`. `MaxDispatches` is one more than `max_dispatches`, so the
dispatch budget is enforced by the code and not by the bound. `MaxEvents` stops
pure observations only. `Budget` counts disturbances by kind and in total.
`MaxFaults` bounds store exceptions, `MaxDrifts` registration changes, `MaxMishaps`
the store exceptions, lost leases and missed tool deadlines of agents together, `MaxForeign` and
`MaxRevision` foreign writes, `MaxPosts` and `MaxReaders` the requests at the
gateway, `MaxVersions` the versions of a memory. A foreign checkpoint write happens
only once an action is dispatched; before that a Run is failed and not parked.
In `ExternalActions` and `Agents` the last explored attempt is neither crashed nor
expired, since no attempt is left to recover from it; all others may stop anywhere.

Three checks with two dependencies contain a root, a join and an order among
independent checks; `DagIsRight` checks the graph algorithms against reference
definitions over all graphs of that size. The five loads of `pg_ledger` group the
methods that touch the same rows; a method outside a group shares no row with it
that it writes. Symmetry is used over connections, operators, callers, processes,
threads and memory values, which no liveness property ranges over.

`CHECK_DEADLOCK FALSE` is used for `actions` and `gateway`, where a Run that ended
leaves nothing to do, for `quarantine` (see above), and for two runs that stop at
their counterexample. In `agents` the only cycle is the stuttering of a settled
service, so the absence of deadlock means that every submitted Run ends.

### Fairness

In `RuntimeManager`: threads that are alive keep running, renewals in
flight return, a stop in progress proceeds, a stopped process is started again by
its supervisor, and time passes. In `ExternalActions`: an attempt that lives goes
on, some worker claims what is claimable, and the lease of an attempt that ended
runs out. Provider answers need no fairness, because every call has a timeout.
Two assumptions stand behind this. `stop()` waits for a heartbeat longer than a
renewal takes, with at most one late renewal following it. An exception that escapes
a worker thread shrinks the pool (it is listed as a hazard); liveness assumes that
another worker, process or restart remains.

## Findings

Three runs state a sentence of the documentation and find it violated.

- `run_store_seed_conflict`: a client-state seed can meet a revision conflict that
  `docs/thread-execution-serialization.md` calls impossible, because Runs are
  ordered by a timestamp taken before their insertion.
- `actions_unknown_masked`: one store exception inside the handler of
  `DurableActionRuntime.execute` turns `external_action_outcome_unknown` into a
  generic failure or a cancellation. `dynamic_loop.py` avoids this by re-raising
  the safety codes before it reads the store. This is why `RunTellsOutcome` promises
  the codes of failed and cancelled Runs only without a store exception, and why
  `EveryDispatchSettles` excepts a last attempt that an exception ended.
- `memory_forget`: a recovered attempt writes a memory again that was deleted after
  its first attempt had remembered it.

Four remarks on what holds less widely than one might expect.

- `_owned_claims` of the Manager is assigned unconditionally (`manager.py:308`), so a
  starved worker can replace a live generation and not only an expired one; a drained
  stop then leaves that lease to expire. `DrainedStopReleasesLeases` excludes it.
- A definitive refusal of a *second* dispatch is recorded as a failed action although
  the first may have been applied. With a provider whose refusals bind the key
  (`RefusalBindsKey`) the ledger is truthful.
- With two store exceptions, the second inside the handler of the first, a Run can
  fail while its action is still dispatching. The runs allow one.
- On PostgreSQL `CapturedRevisionHeld` and `ThreadFifo` are not promised. A claim may
  capture a revision, and before it reaches the unique index an earlier-stamped Run of
  the thread may be inserted, claimed and completed; the first Run then starts on a
  superseded revision and is failed by the comparison at completion. The serial
  history rests on that comparison, as its mutant shows.

## Proofs

The assumptions are the named `ASSUME`s of the modules: types and nonempty sets of
constants and, for `PostgresLedger`, that a set of Runs has a last one and that the step of
an external write is claimed once and finished with its action. `Spec`, `LedgerSpec`, `ActionsSpec`, `GatewaySpec`, `ManagerSpec`,
`QuarantineSpec` and `PgSpec` below are the specifications the runs check.

`RunStoreProofs` proves, for any set of Runs and threads, any clock and any number
of attempts, that types are kept, that a thread has one running Run, that its
checkpoints form one chain, that a captured revision is held until the terminal
commit, that an accepted cancellation excludes completion, that only a live lease
decides an outcome, that takeovers keep the base revision, and that the store
implements `ThreadHistory`. The inductive invariant joins serial threads, held
revisions and linear history, none of which is inductive alone: a save extends the
chain only because the saving Run still holds the latest revision, and it does
because no other Run of its thread was running since its claim. `UnclaimedHasNoBase`
is the missing piece that makes a first claim capture the current revision.

The second half of `RunStoreProofs` proves `HandoverIsOrderly` and `OutcomeStands`. The
argument is one lemma, `RowShape`: a step changes the row of at most one Run, and leases
it, keeps it under its token, ends it under its live lease, or notes something on it.
`EventsTellStatus` is proved from the same lemma at the end of `PostgresRunStoreProofs`,
because it counts events: the library's theorems on finite sets are kept out of the
modules that others extend, since every definition in scope slows down every obligation.
The counts are about sequences of any length; the lemmas `CountExtended` and
`CountAppend` say how an appended event changes a count.

`ActionLedgerProofs` proves that the action row and its step agree, that an unsafe
action is dispatched at most once, that recorded outcomes are final, and that the
ledger's steps are stuttering steps of `RunStore`, which carries all theorems above
over to `ActionLedger`. The agreement of step and action is the inductive
strengthening: it ties a prepared action to a dispatch count of zero.

`ExternalActionsProofs` proves that `ActionsSpec` implements `LedgerSpec`: whatever
attempts, exceptions, crashes, registrations and providers do, the rows change only
by the ledger's own steps. The invariant (`ActionsInv`) adds to the ledger's that every
attempt at work holds a token the Run has issued, and that an attempt that is about
to prepare the action has resolved a provider. The ledger's own invariant is needed
as well: what an attempt settles or dispatches again has been dispatched before.
With `LedgerKeepsRunStore` the
theorems about `ActionLedger` and `RunStore` hold of the whole system.

`QuarantineProofs` proves the four properties of quarantine itself, for any number of
Runs, operators, attempts and foreign writes. The invariant (`QInv`) says that a
parked Run has no lease and that the conflict on record is the one it met; with one
running Run per thread this holds the thread, and with the agreement of step and
action it makes settled evidence complete. `ReadbackSucceeds` needs more
(`DeskInv`): a plan names a revision that the thread has reached, a committed plan is
the one resolution on record, and a released Run is never leased again.

`PostgresRunStoreProofs` proves, for any number of sessions, the three properties the
run `postgres_store` checks: one unfinished seed per thread, a completion whose
statements never contradict each other, and the refinement of `ThreadHistory`. The
invariant (`PgInv`) says what each open transaction may rely on at its statement
(`TxnOK`) and that no two transactions hold the same row lock, advisory lock or index
entry (`Apart`). A statement that only reads adds to its own transaction's reliance
(`StatementKeeps`); a commit writes one row that nobody else has locked, starts a Run
only with the thread's index entry and inserts a seed only under the advisory lock, and
that is all the others rely on (`OthersStand`). Every step then has one of the shapes
of `RunStoreProofs`, from which the refinement follows by the same lemma,
`ShapeImplements`.

`RuntimeManagerProofs` proves, for any number of processes, workers, Runs and
disturbances, that no two workers hold current leases on Runs of one thread, that
a Runtime works on the latest checkpoint, that only the safety of an external action
masks a cancellation, and that `stop()` hands leases over when their work is drained
and not before. The invariant (`ManagerInv`) joins the store's with what the processes
remember: no two workers have the same claim (`ClaimsAreApart`), the checkpoint of a
thread does not move under a claim that is still the latest, live or expired
(`OwnersAreCurrent`), and, without store errors and starved claims, every live lease of a
process is in its table or about to be entered (`LeasesAccounted`). The second is what an
expired attempt that is still running needs: it is a statement about tokens, not about
the clock.

The second part of `ExternalActionsProofs` proves `AtMostOneEffect`, `LedgerTellsTruth`,
`NoDispatchBehindTerminalRun` and `RunTellsOutcome`. Its invariant (`ActionsSafe`) says, for each
place in the code of the coordinator and of `DurableActionRuntime.execute`, what an attempt
may rely on. Some of it lasts whoever holds the lease (`Recalls`: the token it dispatched
with, an outcome it read); the rest holds as long as the attempt's lease is current
(`OwnerKnows`: that nothing is in flight, or that the exception under way will leave the Run to
be reconciled). A step of one attempt changes what its successor or predecessor relies on
only in the ways of `Writes`, and those keep `Recalls`; a claim makes every other attempt
of the Run stale, so `OwnerKnows` is about one attempt at a time. On the provider's side
every request of a Run carries one key (`Requests`), since an unsafe action is sent once
and an idempotent one under the identity it was prepared with. `LedgerTellsTruth` has the
hypothesis `RefusalBindsKey`, the provider's contract that a refused key is not applied later.
`NoDispatchBehindTerminalRun` is stated, and proved, for at most one exception of the store. With two
it fails: the exception of a send reaches the handlers of `DurableActionRuntime.execute`,
a second one inside them escapes to the Manager, and the Manager commits an ordinary
failure while the action is dispatching. The runs explore one exception.

`GatewayProofs` proves the three properties of the Action API for any number of callers,
keys and bodies. The API only reads the system below it, so `ActionsSafe` carries over;
`Sighting` adds what the projection needs of the attempts, chiefly that a Run which fails
with the code `external_action_outcome_unknown` has that outcome in the ledger. A caller's stale
Run record (`Remembers`) is right about what cannot change any more: a terminal status,
its error code and the unknown outcome. From these `ProjectionTells` derives what a caller
is told by the state of the action, and a terminal answer turns out not to depend on the
record's age. `EndedRunHasOutcome` adds that terminal commits leave no reconciliation code
behind (`EndIsCoded`) and that only a recorded success completes a Run; it needs no bound
on exceptions or registration changes. `PublicStatusIsTrue` needs `RefusalBindsKey` as
above. `PublicOutcomeIsFinal` is proved for a fixed registry and at most one exception of the store, the values of its run: otherwise
a Run may end, or its workflow be closed, behind a dispatch in flight, which is told as
`outcome_unknown` until a late answer settles it.

`PostgresLedgerProofs` proves the six properties of the run `pg_ledger`, for any number of
connections, Runs and loads. Of a method's statements it uses only the order in which they
lock (`Disciplined`): the Run first, the execution before its steps, actions and events, the
advisory lock before the versions of a key, and executions of several Runs in the order of
the Runs. `MethodsAreDisciplined` shows it of each method. The invariant (`LedgerInv`)
says that what an open transaction has read is what the tables hold (`UpToDate`), and that
two transactions have not locked the same Run, key or existing execution (`Apart`). A
missing row cannot be locked; the row of the Run, locked before, stands in for it, except
for `finalize_external_action`, which is not fenced but needs an execution that exists. A commit
then writes only rows that nobody else has read (`CommitWrites`, `OthersKeep`), so every
method acts as one step whose effect on the ledger rows is listed in `Effect`. The other
properties follow from `Effect`. `RowsAgree` needs `ExternalStepsApart`: with a second
attempt a step could be claimed again over its action. The code claims it with
`max_attempts=1`. `NoLockCycles` follows from the order of executions: in a circle every
session would wait for an execution, each of a later Run than one it holds.

Model-checked only: liveness; the agents, whose invariants are about the whole control
state of their loops; and the graph algorithms, whose correctness for every graph needs an
induction.

## Not modelled

- Schema creation and migration (`initialize()`, `postgres_schema.py`): run before
  the service starts and leave no later state.
- An external write inside the dynamic loop. It takes the coordinator of
  `ExternalActions`; the product of the loop and the coordinator is out of TLC's reach.
- Expiry of memory records, and the ranking of what a snapshot selects.
- The deterministic travel planner, reducer, validator and reviewers, and the
  incident-triage domain: they compute content from their input and keep no state.
- Resource limits, environment filtering and output truncation of the sandbox.
- HTTP routing, authentication, logging, canonical JSON, registries and deployment
  settings: pure functions of a request or of start-up configuration. The routes
  other than the Action routes call one modelled operation each.
- The demonstration provider's fault console, evaluation, reinforcement learning,
  examples and scripts drive the modelled system from outside.
