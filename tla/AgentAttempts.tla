--------------------------- MODULE AgentAttempts ---------------------------
(***************************************************************************)
(* What the attempts of the built-in agents share: the claim and the       *)
(* terminal commit of RuntimeManager, the two-step recording of evidence,  *)
(* and the sandbox that runs a read-only tool in a child process.          *)
(*                                                                         *)
(* Attempt k of a Run is the worker that claimed it under lease token k.   *)
(* Each of its steps is one transaction or one wait; an attempt that lost  *)
(* its lease goes on until a fenced write tells it so.                     *)
(***************************************************************************)
EXTENDS ToolSteps, MemoryStore

CONSTANTS
  Output,      \* results a tool may print
  AttemptsOf,  \* bound: claims of each Run that are explored; the last attempt
               \* neither dies nor loses its lease
  MaxMishaps   \* bound: leases of live attempts and deadlines of tools that run
               \* out, and exceptions of the store

ASSUME AttemptsAssumption ==
  /\ AttemptsOf \in [Run -> 1 .. MaxAttempts]
  /\ MaxMishaps \in Nat

VARIABLES
  pc,       \* where each attempt stands
  frame,    \* what each attempt knows
  child,    \* the child process of each attempt's sandbox
  verdict,  \* workflow_executions.result_json: the outcome and the reused steps
  lapses,   \* leases of live attempts and deadlines of tools that ran out so far
  faults    \* exceptions of the store so far

attemptVars == <<pc, frame>>
storeVars == <<vars, stepVars, memoryVars, verdict>>
boundVars == <<lapses, faults>>
agentVars == <<storeVars, attemptVars, child, boundVars>>

Attempt == 1 .. MaxAttempts

FailureCode == {"tool_timeout", "tool_execution_failed"}

\* obs: results of the steps so far, in order.  written: memory keys written.
\* invalid, reused: steps a replay must run, and copied.  item, next: evidence to record and where
\* to go on.  code: the error under way.  token: claim of the current step.
\* out: what the sandbox returned.  tries: claims tried for the current step.
NoFrame == [obs |-> <<>>, written |-> {}, invalid |-> {}, reused |-> {},
            item |-> Nothing, next |-> "none", code |-> "none", token |-> 0,
            out |-> "none", tries |-> 0]

NoVerdict == [outcome |-> "none", reused |-> {}]

AttemptsInit ==
  /\ pc = [r \in Run |-> [k \in Attempt |-> "idle"]]
  /\ frame = [r \in Run |-> [k \in Attempt |-> NoFrame]]
  /\ child = [r \in Run |-> [k \in Attempt |-> "none"]]
  /\ verdict = [r \in Run |-> NoVerdict]
  /\ lapses = 0 /\ faults = 0

-----------------------------------------------------------------------------
(* Control flow of an attempt. *)

Current(r, k) == assert_current_run_lease(r, k)

GotoWith(r, k, label, f) ==
  /\ pc' = [pc EXCEPT ![r][k] = label]
  /\ frame' = [frame EXCEPT ![r][k] = f]

Goto(r, k, label) == GotoWith(r, k, label, frame[r][k])
Finish(r, k) == GotoWith(r, k, "done", NoFrame)

Raise(r, k, code) == GotoWith(r, k, "raise", [NoFrame EXCEPT !.code = code])

Recording(r, k, item, next, f) ==
  GotoWith(r, k, "record", [f EXCEPT !.item = item, !.next = next])

ReadOnly == UNCHANGED storeVars

\* A fenced write that finds the lease lost ends the attempt (RunLeaseLostError).
LeaseLost(r, k) == ~Current(r, k) /\ Finish(r, k) /\ ReadOnly

Mishap == lapses + faults < MaxMishaps

\* A call of the store raises: the transaction is rolled back, and the handlers
\* between the call and the Manager take the attempt to Handled.  An exception
\* after the commit has the effect of one in the next call, and after the claim
\* of a step that of an executor that raises.
StoreRaises(r, k, Handled) ==
  /\ Mishap /\ faults' = faults + 1
  /\ Handled
  /\ ReadOnly
  /\ UNCHANGED <<child, lapses>>

\* The next step id of an attempt and what its observations become.
Position(r, k) == Len(frame[r][k].obs) + 1
Observed(f, result) ==
  [NoFrame EXCEPT !.obs = Append(f.obs, result), !.invalid = f.invalid,
                    !.reused = f.reused]

-----------------------------------------------------------------------------
(* EvidenceProjector.record: append to the ledger, then to the public stream. *)

\* Mutant: evidence is appended without looking for it.
Record_again(r, k) ==
  /\ pc[r][k] = "record"
  /\ \/ /\ append_evidence(r, k, frame[r][k].item) /\ Goto(r, k, "publish")
        /\ UNCHANGED <<memoryVars, verdict>>
     \/ LeaseLost(r, k)
  /\ UNCHANGED child

\* Existing evidence must be identical.
Record(r, k) ==
  LET item == frame[r][k].item
      existing == workflow_evidence(r, item.id)
  IN  /\ pc[r][k] = "record"
      /\ \/ /\ existing = Nothing
            /\ append_evidence(r, k, item) /\ Goto(r, k, "publish")
            /\ UNCHANGED <<memoryVars, verdict>>
         \/ existing = item /\ Goto(r, k, "publish") /\ ReadOnly
         \/ existing \notin {Nothing, item} /\ Raise(r, k, "mismatch") /\ ReadOnly
         \/ existing = Nothing /\ LeaseLost(r, k)
      /\ UNCHANGED child

\* An exception of the append escapes and leaves the evidence unpublished
\* (LoopRaises).
Publish(r, k) ==
  LET id == frame[r][k].item.id
      Onward == GotoWith(r, k, frame[r][k].next,
                         [frame[r][k] EXCEPT !.item = Nothing, !.next = "none"])
  IN  /\ pc[r][k] = "publish"
      /\ \/ Mirrored(r, id) /\ Onward /\ ReadOnly
         \/ /\ ~Mirrored(r, id)
            /\ append_run_event(r, k, id) /\ Onward /\ UNCHANGED <<memoryVars, verdict>>
         \/ ~Mirrored(r, id) /\ LeaseLost(r, k)
      /\ UNCHANGED child

-----------------------------------------------------------------------------
(* ToolSandbox: a child process raced by its deadline. *)

\* The tool is refused (not registered, an external write, an unsupported
\* capability, invalid arguments), the child starts, or starting it raises.
Spawn(r, k) ==
  /\ pc[r][k] = "tool"
  /\ \/ /\ GotoWith(r, k, "returned", [frame[r][k] EXCEPT !.out = "tool_execution_failed"])
        /\ UNCHANGED child
     \/ /\ Goto(r, k, "communicate")
        /\ child' = [child EXCEPT ![r][k] = "running"]
     \/ GotoWith(r, k, "executor_raised", frame[r][k]) /\ UNCHANGED child
  /\ ReadOnly

\* The child prints a result or fails; nobody reads what an orphan prints.
ChildExits(r, k) ==
  /\ child[r][k] = "running"
  /\ \E out \in IF pc[r][k] = "done" THEN {"none"} ELSE Output \cup {"tool_execution_failed"} :
       child' = [child EXCEPT ![r][k] = out]
  /\ UNCHANGED <<storeVars, attemptVars>>

Collect(r, k) ==
  /\ pc[r][k] = "communicate"
  /\ child[r][k] \notin {"none", "running"}
  /\ GotoWith(r, k, "returned", [frame[r][k] EXCEPT !.out = child[r][k]])
  /\ child' = [child EXCEPT ![r][k] = "none"]
  /\ ReadOnly

\* communicate(timeout) gives up; the child may still end before it is killed.
Expire(r, k) ==
  /\ pc[r][k] = "communicate"
  /\ child[r][k] = "running"
  /\ Mishap /\ lapses' = lapses + 1
  /\ Goto(r, k, "terminate")
  /\ UNCHANGED <<child, faults>>
  /\ ReadOnly

\* Mutant: the child is left alone.
_terminate_process_not(r, k) == UNCHANGED child

\* The child is killed if it still runs, and reaped.
_terminate_process(r, k) == child' = [child EXCEPT ![r][k] = "none"]

\* Whatever the child printed meanwhile is discarded.
Terminate(r, k) ==
  /\ pc[r][k] = "terminate"
  /\ _terminate_process(r, k)
  /\ GotoWith(r, k, "returned", [frame[r][k] EXCEPT !.out = "tool_timeout"])
  /\ ReadOnly

-----------------------------------------------------------------------------
(* RuntimeManager around the agent. *)

Start(r, label) ==
  /\ claim_next_run(r)
  /\ GotoWith(r, attempt'[r], label, NoFrame)
  /\ UNCHANGED <<stepVars, memoryVars, verdict, child, boundVars>>

\* If the transaction raises, the Manager turns to the failure commit.
CommitRaises(r, k) ==
  pc[r][k] = "commit" /\ StoreRaises(r, k, Raise(r, k, "store_error"))

Commit(r, k) ==
  /\ pc[r][k] = "commit"
  /\ \/ /\ commit_completed_run(r, k) /\ Finish(r, k)
        /\ UNCHANGED <<stepVars, memoryVars, verdict>>
     \/ LeaseLost(r, k)
  /\ UNCHANGED child

\* An exception here ends the worker like Crash: nobody renews the lease.
CommitFailure(r, k) ==
  /\ pc[r][k] = "raise"
  /\ \/ /\ commit_failed_run(r, k, EXECUTION, FALSE) /\ Finish(r, k)
        /\ UNCHANGED <<stepVars, memoryVars, verdict>>
     \/ LeaseLost(r, k)
  /\ UNCHANGED child

Busy(r, k) == pc[r][k] \notin {"idle", "done"}

\* The process dies and nobody renews its lease; its child is orphaned.
Crash(r, k) ==
  /\ Busy(r, k) /\ k < AttemptsOf[r]
  /\ Finish(r, k)
  /\ child' = [child EXCEPT ![r][k] = IF @ = "running" THEN @ ELSE "none"]
  /\ IF Current(r, k) THEN expire_run_lease(r, k) ELSE UNCHANGED vars
  /\ UNCHANGED <<stepVars, memoryVars, verdict, boundVars>>

\* The lease of a live attempt runs out (a starved heartbeat).
Lapse(r, k) ==
  /\ k < AttemptsOf[r]
  /\ Mishap /\ lapses' = lapses + 1
  /\ Current(r, k)
  /\ expire_run_lease(r, k)
  /\ UNCHANGED <<stepVars, memoryVars, verdict, attemptVars, child, faults>>

SharedStep(r, k) ==
  \/ /\ \/ Record(r, k) \/ Publish(r, k)
        \/ Spawn(r, k) \/ ChildExits(r, k) \/ Collect(r, k)
        \/ Terminate(r, k)
        \/ Commit(r, k) \/ CommitFailure(r, k)
     /\ UNCHANGED boundVars
  \/ CommitRaises(r, k)
  \/ Expire(r, k)
  \/ Crash(r, k)
  \/ Lapse(r, k)

-----------------------------------------------------------------------------
(* Properties. *)

\* The deadline of a tool never leaves a child process behind: a child belongs
\* to an attempt that waits for it, or that died while it waited.
ChildHasOwner ==
  \A r \in Run, k \in Attempt :
    child[r][k] # "none" => pc[r][k] \in {"communicate", "terminate", "done"}

\* The lease holder never meets an execution, a step or evidence of another
\* identity: what a recovered attempt derives from the sealed snapshot and the
\* recorded decisions is what the attempts before it wrote.  (A stale attempt
\* may meet its successor's evidence; it can no longer commit anything.)  The
\* bounded claim loop settles every step before its guard, and the serial
\* schedule never reaches a step before its dependencies.
RestartsAgree ==
  \A r \in Run, k \in Attempt :
    /\ Current(r, k) => frame[r][k].code # "mismatch"
    /\ frame[r][k].code # "loop_guard" /\ pc[r][k] # "unscheduled"
=============================================================================
