----------------------- MODULE ExternalActionsProofs -----------------------
(***************************************************************************)
(* The attempts, faults and providers of ExternalActions implement the     *)
(* action ledger, for every set of Runs, attempts and providers.  So every *)
(* theorem about ActionLedger and RunStore holds of the whole system.      *)
(*                                                                         *)
(* The second part is what an external write promises, for every dispatch  *)
(* budget as well: at most one effect, a ledger that tells the truth about *)
(* it, and a Run that ends as the ledger says.  Its inductive invariant    *)
(* says what an attempt knows at each place of the code, and which         *)
(* dispatches, requests and effects there can be.                          *)
(***************************************************************************)
EXTENDS ExternalActions, ActionLedgerProofs, RunStoreProofs

Label == {"idle", "done", "boundary", "open", "mark", "resolve", "step", "claim",
          "prepare", "begin", "recover", "retry", "retry_ambiguous", "restore", "send",
          "await", "succeeded", "failed", "unknown", "unknown_leased", "evidence",
          "evidence_again", "finalize", "fail", "fail_safely", "host", "result",
          "cancel", "cancel_result", "manager"}

Code == Exception \cup ActionStatus

Frame == [reconcile : BOOLEAN, cancel : BOOLEAN, recovered : BOOLEAN,
          identity : Provider \cup {NoProvider}, token : Nat, exc : Code,
          hosted : BOOLEAN]

\* An attempt that prepares the action has resolved a provider.
Resolved(label, f) == label \in {"claim", "prepare"} => f.identity \in Provider

\* Attempts are well formed and presented by Runs that were claimed that often.
AttemptsOK ==
  /\ pc \in [Run -> [Attempt -> Label]]
  /\ frame \in [Run -> [Attempt -> Frame]]
  /\ registered \in [Run -> Provider \cup {NoProvider}]
  /\ \A r \in Run, k \in Attempt :
       /\ pc[r][k] # "idle" => k <= attempt[r]
       /\ Resolved(pc[r][k], frame[r][k])

\* A lease carries the token of some claim; an Action never waits blocked.
RowsOK ==
  /\ \A r \in Run : lease_token[r] <= attempt[r]
  /\ \A r \in Run : workflow[r].status # "blocked"

\* The inductive invariant.  The ledger's own invariant is part of it: only an
\* action that was dispatched can be settled or dispatched again.
ActionsInv == TypeOK /\ LedgerInv /\ RowsOK /\ AttemptsOK

\* A step moves attempt k of Run r, and no other attempt.
Moved(r, k) ==
  \E label \in Label, f \in Frame : GotoWith(r, k, label, f) /\ Resolved(label, f)

\* The codes an attempt may raise.
LEMMA Codes ==
  /\ {"none", "other", "rejected", "evidence_incomplete", "reconciliation_pending",
      "run_cancel_requested", "failed", "outcome_unknown"} \subseteq Code
  /\ ActionStatus \subseteq Code
BY Zenon DEF Code, Exception, ResolutionCode, SafetyCode, ActionStatus

\* An attempt starts and ends with an empty frame.
LEMMA NoFrameType == NoFrame \in Frame
BY Codes DEF NoFrame, Frame, NoToken

\* Every way to continue at a label moves the attempt.
LEMMA Continues ==
  ASSUME AttemptsOK, NEW r \in Run, NEW k \in Attempt
  PROVE  /\ \A label \in Label \ {"claim", "prepare"} :
              /\ Goto(r, k, label) => Moved(r, k)
              /\ \A d \in Nat : With(r, k, label, d) => Moved(r, k)
              /\ \A code \in Code : Closing(r, k, label, code) => Moved(r, k)
         /\ \A code \in Code : Raise(r, k, code) => Moved(r, k)
         /\ Finish(r, k) => Moved(r, k)
         /\ Escape(r, k) => Moved(r, k)
<1>1. frame[r][k] \in Frame
  BY DEF AttemptsOK
<1>2. \A f \in Frame, code \in Code : Thrown(f, code) \in Frame
  BY Zenon, NoFrameType DEF Thrown, Frame, NoFrame
<1>3. \A d \in Nat : [frame[r][k] EXCEPT !.token = d] \in Frame
  BY <1>1 DEF Frame
<1>4. \A f \in Frame : [f EXCEPT !.hosted = TRUE] \in Frame
  BY Zenon DEF Frame
<1>5. ASSUME NEW label \in Label \ {"claim", "prepare"}, NEW f \in Frame, GotoWith(r, k, label, f)
      PROVE  Moved(r, k)
  BY <1>5 DEF Moved, Resolved
<1>6. ASSUME NEW label \in Label \ {"claim", "prepare"}
      PROVE  /\ Goto(r, k, label) => Moved(r, k)
             /\ \A d \in Nat : With(r, k, label, d) => Moved(r, k)
             /\ \A code \in Code : Closing(r, k, label, code) => Moved(r, k)
  BY <1>1, <1>2, <1>3, <1>5 DEF Goto, With, Closing
<1>7. "manager" \in Label \ {"claim", "prepare"} /\ "host" \in Label \ {"claim", "prepare"}
      /\ "done" \in Label \ {"claim", "prepare"}
  BY DEF Label
<1>8. \A code \in Code : Raise(r, k, code) => Moved(r, k)
  BY <1>1, <1>2, <1>5, <1>7 DEF Raise
<1>9. Finish(r, k) => Moved(r, k)
  BY <1>5, <1>7, NoFrameType DEF Finish
<1>10. Escape(r, k) => Moved(r, k)
  <2>1. Thrown(frame[r][k], "other") \in Frame
    BY Zenon, <1>1, <1>2, Codes
  <2> QED
    BY <1>4, <1>5, <1>7, <2>1 DEF Escape
<1> QED
  BY <1>6, <1>8, <1>9, <1>10

\* Every undisturbed step of an attempt moves that attempt, which was claimed.
LEMMA LocalMoves ==
  ASSUME ActionsInv, NEW r \in Run, NEW k \in Attempt, Local(r, k)
  PROVE  pc[r][k] # "idle" /\ Moved(r, k)
<1> USE DEF ActionsInv
<1>f. frame[r][k] \in Frame /\ registered[r] \in Provider \cup {NoProvider}
  BY DEF AttemptsOK
<1>a. /\ action[r].status \in ActionStatus /\ action[r].dispatch_count \in Nat
      /\ step[r] \in {"none", "running", "completed", "failed"}
      /\ workflow[r].status \in WorkflowStatus \ {"blocked"}
  BY DEF LedgerInv, LedgerTypeOK, RowsOK
<1>b. Dispatched(r) => action[r].status \in {"dispatching"} \cup ActionTerminal
  BY Zenon, <1>a DEF LedgerInv, StepAgreesWithAction, ActionStatus
<1>c. ASSUME NEW label \in {"open", "cancel", "mark", "resolve", "result", "step", "restore",
                            "begin", "recover", "retry", "retry_ambiguous", "send", "await",
                            "succeeded", "failed", "unknown", "unknown_leased", "evidence",
                            "finalize", "fail", "fail_safely", "manager", "cancel_result"}
      PROVE  label \in Label \ {"claim", "prepare"}
  BY DEF Label
<1>d. ASSUME NEW label \in Label \ {"claim", "prepare"}, NEW f \in Frame, GotoWith(r, k, label, f)
      PROVE  Moved(r, k)
  BY <1>d DEF Moved, Resolved
<1>1. CASE Boundary(r, k)
  BY Zenon, <1>1, <1>c, <1>d, <1>f, NoFrameType DEF Boundary, NoFrame, Frame
<1>2. ASSUME Dispatched(r), Reconcile(r, k) PROVE Moved(r, k)
  BY Zenon, <1>2, <1>a, <1>b, <1>c, Continues, Codes DEF Reconcile, ActionTerminal
<1>3. CASE Open(r, k)
  <2>1. CASE Raise(r, k, "other")
    BY <1>3, <2>1, Continues, Codes DEF Open
  <2>2. CASE Goto(r, k, "mark") \/ Goto(r, k, "resolve") \/ Goto(r, k, "result")
    BY <1>3, <1>c, <2>2, Continues DEF Open
  <2>3. CASE workflow[r].status = "failed" /\ ~Raise(r, k, "other")
    BY <1>3, <1>2, <2>3, Continues, Codes DEF Open
  <2> QED
    BY Zenon, <1>3, <1>a, <2>1, <2>2, <2>3 DEF Open, WorkflowStatus
<1>4. CASE Mark(r, k) \/ Finalize(r, k)
  BY <1>4, <1>c, Continues, Codes DEF Mark, Finalize, Fenced
<1>5. CASE Resolve(r, k)
  BY Zenon, <1>5, <1>2, <1>c, Continues, Codes DEF Resolve
<1>6. CASE Fail(r, k)
  <2>1. frame[r][k].exc \in Code
    BY <1>f DEF Frame
  <2> QED
    BY Zenon, <1>6, <2>1, Continues, Codes DEF Fail
<1>7. CASE Host(r, k)
  <2> DEFINE f == [frame[r][k] EXCEPT !.hosted = TRUE]
  <2>1. /\ f \in Frame
        /\ [f EXCEPT !.token = action[r].dispatch_count] \in Frame
        /\ [f EXCEPT !.exc = "evidence_incomplete"] \in Frame
    BY Zenon, <1>f, <1>a, Codes DEF Frame
  <2>2. \/ GotoWith(r, k, "manager", f)
        \/ GotoWith(r, k, "unknown_leased", [f EXCEPT !.token = action[r].dispatch_count])
        \/ GotoWith(r, k, "fail", [f EXCEPT !.exc = "evidence_incomplete"])
    BY <1>7 DEF Host
  <2> HIDE DEF f
  <2> QED
    BY <1>7, <1>c, <1>d, <2>1, <2>2 DEF Host
<1>8. CASE Step(r, k)
  <2> DEFINE f == [frame[r][k] EXCEPT !.identity = registered[r]]
  <2>1. CASE Closing(r, k, "fail", "rejected") \/ Goto(r, k, "restore")
    BY <1>8, <1>c, <2>1, Continues, Codes DEF Step
  <2>2. /\ f \in Frame /\ f.identity = registered[r]
        /\ [f EXCEPT !.recovered = TRUE] \in Frame
        /\ [f EXCEPT !.recovered = TRUE].identity = registered[r]
    BY Zenon, <1>f DEF Frame
  <2>3. \/ Closing(r, k, "fail", "rejected") \/ Goto(r, k, "restore")
        \/ /\ registered[r] # NoProvider
           /\ \/ GotoWith(r, k, "claim", f)
              \/ GotoWith(r, k, "prepare", [f EXCEPT !.recovered = TRUE])
    BY Zenon, <1>8, <1>a DEF Step
  <2> HIDE DEF f
  <2>4. "claim" \in Label /\ "prepare" \in Label
    BY DEF Label
  <2>5. CASE registered[r] # NoProvider
    BY Zenon, <1>8, <1>f, <2>1, <2>2, <2>3, <2>4, <2>5 DEF Step, Moved, Resolved
  <2> QED
    BY <1>8, <2>1, <2>3, <2>5
<1>9. CASE ClaimStep(r, k)
  <2>1. Goto(r, k, "prepare") \/ Raise(r, k, "other")
    BY <1>9 DEF ClaimStep, Fenced
  <2>2. ASSUME Goto(r, k, "prepare") PROVE Moved(r, k)
    <3>1. frame[r][k].identity \in Provider /\ "prepare" \in Label
      BY <1>9 DEF ClaimStep, AttemptsOK, Resolved, Label
    <3> QED
      BY <1>f, <2>2, <3>1 DEF Goto, Moved, Resolved
  <2> QED
    BY <1>9, <2>1, <2>2, Continues, Codes DEF ClaimStep
<1>10. ASSUME PrepareFailed(r, k) PROVE Moved(r, k)
  BY <1>10, <1>c, Continues, Codes DEF PrepareFailed
<1>11. CASE Prepare(r, k)
  <2> DEFINE f == [frame[r][k] EXCEPT !.identity = NoProvider, !.recovered = FALSE,
                                      !.token = action[r].dispatch_count]
  <2>1. f \in Frame
    BY Zenon, <1>f, <1>a DEF Frame
  <2>2. \/ GotoWith(r, k, "recover", f) \/ GotoWith(r, k, "begin", f)
        \/ With(r, k, "unknown_leased", action[r].dispatch_count)
        \/ Closing(r, k, "fail", "rejected") \/ PrepareFailed(r, k)
    BY <1>11 DEF Prepare
  <2> HIDE DEF f
  <2>3. Moved(r, k)
    BY Zenon, <1>a, <1>c, <1>d, <1>10, <2>1, <2>2, Continues, Codes
  <2> QED
    BY <1>11, <2>3 DEF Prepare
<1>12. ASSUME action'[r].dispatch_count \in Nat, With(r, k, "send", action'[r].dispatch_count)
       PROVE  Moved(r, k)
  BY Zenon, <1>12, <1>c, Continues
<1>13. Redispatch(r) => action'[r].dispatch_count \in Nat
  BY <1>a DEF Redispatch, LedgerInv, LedgerTypeOK
<1>14. CASE Begin(r, k)
  BY Zenon, <1>14, <1>12, <1>13, Continues, Codes DEF Begin, begin_external_action_dispatch
<1>15. CASE Retry(r, k)
  <2>1. \/ Redispatch(r) /\ With(r, k, "send", action'[r].dispatch_count)
        \/ Goto(r, k, "restore") \/ Closing(r, k, "fail", "rejected") \/ Raise(r, k, "other")
    BY Zenon, <1>15 DEF Retry, retry_external_action_dispatch
  <2>2. Moved(r, k)
    BY Zenon, <1>12, <1>13, <1>c, <2>1, Continues, Codes
  <2> QED
    BY Zenon, <1>15, <2>2 DEF Retry
<1>16. CASE _recover_external_dispatch(r, k) \/ Answered(r, k) \/ Ambiguous(r, k)
  BY Zenon, <1>16, <1>c, Continues DEF _recover_external_dispatch, Answered, Ambiguous
<1>17. CASE Restore(r, k)
  BY Zenon, <1>17, <1>a, <1>c, Continues, Codes DEF Restore
<1>18. CASE Record(r, k)
  <2>1. \/ Goto(r, k, "evidence") \/ Closing(r, k, "fail_safely", "failed")
        \/ Goto(r, k, "unknown")
    BY Zenon, <1>18 DEF Record
  <2> QED
    BY Zenon, <1>18, <1>c, <2>1, Continues, Codes DEF Record
<1>19. CASE _raise_external_outcome_unknown(r, k)
  <2>1. \/ Closing(r, k, "fail_safely", "outcome_unknown")
        \/ Raise(r, k, "other") \/ Raise(r, k, "reconciliation_pending")
    BY Zenon, <1>19 DEF _raise_external_outcome_unknown
  <2> QED
    BY Zenon, <1>19, <1>c, <2>1, Continues, Codes DEF _raise_external_outcome_unknown
<1>20. CASE Evidence(r, k)
  BY Zenon, <1>20, <1>c, Continues, Codes DEF Evidence
<1>21. CASE Result(r, k) \/ Cancel(r, k)
  BY <1>21, <1>c, Continues DEF Result, Cancel, LeaseLost
<1>22. CASE Manager(r, k)
  <2>1. Finish(r, k) \/ Goto(r, k, "cancel")
    BY Zenon, <1>22 DEF Manager, LeaseLost
  <2> QED
    BY Zenon, <1>22, <1>c, <2>1, Continues DEF Manager
<1> QED
  BY <1>1, <1>3, <1>4, <1>5, <1>6, <1>7, <1>8, <1>9, <1>11, <1>14, <1>15, <1>16, <1>17,
     <1>18, <1>19, <1>20, <1>21, <1>22 DEF Local

\* A disturbance or a send moves the attempt as well.
LEMMA OtherMoves ==
  ASSUME ActionsInv, NEW r \in Run, NEW k \in Attempt,
         Send(r, k) \/ Crash(r, k) \/ StoreFault(r, k)
  PROVE  pc[r][k] # "idle" /\ Moved(r, k)
<1> USE DEF ActionsInv
<1>1. CASE Send(r, k)
  <2>1. Raise(r, k, "other") \/ Goto(r, k, "unknown_leased") \/ Goto(r, k, "await")
    BY Zenon, <1>1 DEF Send
  <2>2. "unknown_leased" \in Label \ {"claim", "prepare"} /\ "await" \in Label \ {"claim", "prepare"}
    BY DEF Label
  <2> QED
    BY Zenon, <1>1, <2>1, <2>2, Continues, Codes DEF Send
<1>2. CASE Crash(r, k)
  BY Zenon, <1>2, Continues DEF Crash, Busy
<1>3. CASE StoreFault(r, k)
  <2>1. pc[r][k] \in Label \ {"idle", "done", "recover", "await"}
    BY Zenon, <1>3 DEF StoreFault, Busy, AttemptsOK
  <2>2. {"unknown", "evidence_again", "fail"} \subseteq Label \ {"claim", "prepare"}
    BY DEF Label
  <2>3. PrepareFailed(r, k) => Moved(r, k)
    BY Zenon, <2>2, Continues, Codes DEF PrepareFailed
  <2>4. frame[r][k].exc \in Code
    BY DEF AttemptsOK, Frame
  <2>5. \/ Raise(r, k, "other") \/ Escape(r, k) \/ PrepareFailed(r, k)
        \/ Goto(r, k, "unknown") \/ Raise(r, k, "reconciliation_pending")
        \/ Goto(r, k, "evidence_again") \/ Raise(r, k, "evidence_incomplete")
        \/ Raise(r, k, frame[r][k].exc) \/ Finish(r, k)
    BY Zenon, <1>3, <2>1 DEF StoreFault, Faulted, Label
  <2> QED
    BY <2>1, <2>2, <2>3, <2>4, <2>5, Continues, Codes
<1> QED
  BY Zenon, <1>1, <1>2, <1>3

\* Every step of a claimed attempt is a transaction of the ledger or of the Run
\* store under that attempt's token, or touches neither.
LEMMA LocalIsLedgerStep ==
  ASSUME ActionsInv, NEW r \in Run, NEW k \in Attempt, pc[r][k] # "idle", Local(r, k)
  PROVE  [LedgerNext]_allLedgerVars
<1> USE DEF ActionsInv
<1>a. k \in 1 .. MaxAttempts /\ k \in Tokens(r)
  BY RunStoreAssumption DEF AttemptsOK, Attempt, Tokens, TypeOK
<1>b. ReadOnly => UNCHANGED allLedgerVars
  BY Zenon DEF ReadOnly, allLedgerVars
<1>c. LedgerStep(r, k) => LedgerNext
  BY <1>a DEF LedgerNext
<1>d. AttemptStep(r, k) /\ UNCHANGED ledgerVars => LedgerNext
  BY Zenon, <1>a DEF LedgerNext, Next
<1>e. UNCHANGED vars /\ UNCHANGED ledgerVars => UNCHANGED allLedgerVars
  BY Zenon DEF allLedgerVars
<1>f. ASSUME NEW d, NEW s \in ActionTerminal, _finalize_external_action(r, d, s)
      PROVE  LedgerNext
  <2>1. action[r].dispatch_count = d /\ action[r].status \in {"dispatching"} \cup ActionTerminal
    BY <1>f DEF _finalize_external_action, Settle, HoldsDispatch, ExactDuplicate
  <2>2. d \in 1 .. action[r].dispatch_count
    BY <2>1 DEF LedgerInv, LedgerTypeOK, StepAgreesWithAction, Dispatched, ActionTerminal
  <2> QED
    BY Zenon, <1>c, <1>f, <2>2 DEF LedgerStep
<1>1. CASE \/ Boundary(r, k) \/ Resolve(r, k) \/ Host(r, k) \/ Step(r, k)
           \/ _recover_external_dispatch(r, k) \/ Restore(r, k) \/ Answered(r, k)
           \/ Ambiguous(r, k) \/ Evidence(r, k)
  BY Zenon, <1>1, <1>b DEF Boundary, Resolve, Host, Step, _recover_external_dispatch, Restore,
     Answered, Ambiguous, Evidence
<1>2. CASE Open(r, k)
  BY Zenon, <1>2, <1>b, <1>c DEF Open, LedgerStep
<1>3. CASE Mark(r, k)
  BY Zenon, <1>3, <1>b, <1>c DEF Mark, Fenced, LedgerStep
<1>4. CASE Finalize(r, k)
  BY Zenon, <1>4, <1>b, <1>c DEF Finalize, Fenced, LedgerStep
<1>5. CASE Fail(r, k)
  <2>1. \/ ReadOnly
        \/ \E code \in {EXECUTION, SAFETY} :
             _finalize_execution(r, k, "failed", code) /\ UNCHANGED actionRows
    BY Zenon, <1>5 DEF Fail
  <2> QED
    BY Zenon, <1>b, <1>c, <2>1 DEF LedgerStep
<1>6. CASE ClaimStep(r, k)
  BY Zenon, <1>6, <1>b, <1>c DEF ClaimStep, Fenced, LedgerStep
<1>7. CASE Prepare(r, k)
  <2>1. frame[r][k].identity \in Provider
    BY <1>7 DEF Prepare, AttemptsOK, Resolved
  <2>2. ReadOnly \/ prepare_external_action(r, k, frame[r][k].identity)
    BY <1>7 DEF Prepare
  <2> QED
    BY Zenon, <1>b, <1>c, <2>1, <2>2 DEF LedgerStep
<1>8. CASE Begin(r, k)
  BY Zenon, <1>8, <1>b, <1>c DEF Begin, LedgerStep
<1>9. CASE Retry(r, k)
  <2> DEFINE d == frame[r][k].token
  <2>1. ReadOnly \/ retry_external_action_dispatch(r, k, d)
    BY Zenon, <1>9 DEF Retry
  <2>2. ASSUME retry_external_action_dispatch(r, k, d) PROVE LedgerNext
    <3>1. action[r].dispatch_count = d /\ action[r].status = "dispatching"
      BY Zenon, <2>2 DEF retry_external_action_dispatch
    <3>2. d \in 1 .. action[r].dispatch_count
      BY <3>1 DEF LedgerInv, LedgerTypeOK, StepAgreesWithAction, Dispatched
    <3> QED
      BY Zenon, <1>c, <2>2, <3>2 DEF LedgerStep
  <2> QED
    BY Zenon, <1>b, <2>1, <2>2
<1>10. CASE Record(r, k)
  <2>1. pc[r][k] \in ActionTerminal
    BY Zenon, <1>10 DEF Record, ActionTerminal
  <2> QED
    BY Zenon, <1>10, <1>b, <1>f, <2>1 DEF Record
<1>11. CASE _raise_external_outcome_unknown(r, k)
  <2>1. ReadOnly \/ _finalize_external_action(r, frame[r][k].token, "outcome_unknown")
    BY Zenon, <1>11 DEF _raise_external_outcome_unknown, finalize_reconciliation_unknown
  <2> QED
    BY Zenon, <1>b, <1>f, <2>1 DEF ActionTerminal
<1>12. CASE Result(r, k)
  BY Zenon, <1>12, <1>d, <1>e DEF Result, LeaseLost, AttemptStep
<1>13. CASE Cancel(r, k)
  BY Zenon, <1>13, <1>d, <1>e DEF Cancel, LeaseLost, AttemptStep
<1>14. CASE Manager(r, k)
  BY Zenon, <1>14, <1>d, <1>e DEF Manager, LeaseLost, AttemptStep
<1> QED
  BY <1>1, <1>2, <1>3, <1>4, <1>5, <1>6, <1>7, <1>8, <1>9, <1>10, <1>11, <1>12, <1>13, <1>14
  DEF Local

\* Every step of the system is a step of the ledger, or leaves it alone.
LEMMA StepsAreLedgerSteps ==
  ASSUME ActionsInv, [ActionsNext]_actionVars
  PROVE  [LedgerNext]_allLedgerVars
<1> USE DEF ActionsInv
<1>1. CASE UNCHANGED actionVars
  BY <1>1 DEF actionVars, allLedgerVars
<1>2. ASSUME NEW r \in Run, Client(r) PROVE LedgerNext
  BY Zenon, <1>2 DEF Client, LedgerNext, Next
<1>3. ASSUME NEW r \in Run, ClaimNext(r) PROVE LedgerNext
  BY <1>3 DEF ClaimNext, Claim, LedgerNext, Next
<1>4. ASSUME NEW r \in Run, Drift(r) \/ Deliver(r) PROVE UNCHANGED allLedgerVars
  BY Zenon, <1>4 DEF Drift, Deliver, allLedgerVars
<1>5. ASSUME NEW r \in Run, NEW k \in Attempt, Work(r, k) PROVE [LedgerNext]_allLedgerVars
  <2>1. CASE Local(r, k)
    BY Zenon, <2>1, LocalMoves, LocalIsLedgerStep
  <2>2. CASE Send(r, k)
    BY Zenon, <2>2 DEF Send, ReadOnly, allLedgerVars
  <2> QED
    BY <1>5, <2>1, <2>2 DEF Work
<1>6. ASSUME NEW r \in Run, NEW k \in Attempt, Crash(r, k) \/ StoreFault(r, k)
      PROVE  UNCHANGED allLedgerVars
  BY Zenon, <1>6 DEF Crash, StoreFault, allLedgerVars
<1>7. ASSUME NEW r \in Run, NEW k \in Attempt, Lapse(r, k) PROVE LedgerNext
  <2>1. k \in Tokens(r)
    BY <1>7, RunStoreAssumption DEF Lapse, Current, assert_current_run_lease, CurrentLease,
       RowsOK, TypeOK, Attempt, Tokens
  <2> QED
    BY Zenon, <1>7, <2>1 DEF Lapse, LedgerNext, Next, AttemptStep
<1> QED
  BY Zenon, <1>1, <1>2, <1>3, <1>4, <1>5, <1>6, <1>7 DEF ActionsNext

\* Ledger transactions write no column of the Run store and block no workflow.
LEMMA LedgerStepKeeps ==
  ASSUME LedgerInv, RowsOK, [LedgerNext]_allLedgerVars
  PROVE  [Next]_vars /\ \A q \in Run : workflow'[q].status # "blocked"
<1>1. ASSUME NEW r \in Run, NEW t, LedgerStep(r, t)
      PROVE  UNCHANGED vars /\ \A q \in Run : workflow'[q].status # "blocked"
  <2> USE DEF RowsOK, LedgerInv, LedgerTypeOK
  <2>1. CASE create_or_get_execution(r, t, ActionInput)
    BY Zenon, <2>1 DEF create_or_get_execution
  <2>2. CASE mark_running(r, t)
    BY <2>2 DEF mark_running
  <2>3. ASSUME NEW s \in {"ready", "failed"}, NEW code, _finalize_execution(r, t, s, code)
        PROVE  UNCHANGED vars /\ \A q \in Run : workflow'[q].status # "blocked"
    BY Zenon, <2>3 DEF _finalize_execution
  <2>4. CASE UNCHANGED vars /\ UNCHANGED workflow
    BY Zenon, <2>4
  <2> QED
    BY Zenon, <1>1, <2>1, <2>2, <2>3, <2>4
    DEF LedgerStep, claim_step, prepare_external_action, begin_external_action_dispatch,
        Redispatch, retry_external_action_dispatch, _finalize_external_action, Settle,
        finalize_reconciliation_unknown, ledgerVars
<1> QED
  BY Zenon, <1>1 DEF LedgerNext, allLedgerVars, ledgerVars, RowsOK

\* A lease carries the token of a claim, and claims are only counted up.
LEMMA TokensGrow ==
  ASSUME TypeOK, RowsOK, [Next]_vars, NEW r \in Run
  PROVE  attempt[r] <= attempt'[r] /\ lease_token'[r] <= attempt'[r]
<1>1. attempt[r] \in Nat /\ lease_token[r] \in Nat /\ lease_token[r] <= attempt[r]
  BY Zenon DEF TypeOK, RowsOK
<1> QED
  BY SMTT(30), <1>1, RowShape DEF Untouched, Leased, Kept, Ended, Noted, NoToken

\* The invariant is preserved by every step.
LEMMA ActionsStep ==
  ASSUME ActionsInv, [ActionsNext]_actionVars
  PROVE  ActionsInv'
<1> USE DEF ActionsInv
<1>1. [LedgerNext]_allLedgerVars
  BY StepsAreLedgerSteps
<1>2. LedgerInv'
  BY <1>1, NextKeepsInv
<1>3. [Next]_vars /\ \A q \in Run : workflow'[q].status # "blocked"
  BY Zenon, <1>1, LedgerStepKeeps
<1>4. TypeOK'
  BY Zenon, <1>3, TypeStep
<1>5. \A q \in Run : attempt[q] <= attempt'[q] /\ lease_token'[q] <= attempt'[q]
  BY Zenon, <1>3, TokensGrow
<1>6. RowsOK'
  BY Zenon, <1>3, <1>5 DEF RowsOK
<1>7. \A q \in Run : attempt[q] \in Nat /\ attempt'[q] \in Nat
  BY Zenon, <1>4 DEF TypeOK
<1>8. ASSUME UNCHANGED attemptVars, registered' \in [Run -> Provider \cup {NoProvider}]
      PROVE  AttemptsOK'
  BY <1>5, <1>7, <1>8 DEF attemptVars, AttemptsOK, Attempt
<1>9. ASSUME NEW r \in Run, NEW k \in Attempt, k <= attempt'[r], Moved(r, k),
             UNCHANGED registered
      PROVE  AttemptsOK'
  <2>1. PICK label \in Label, f \in Frame : GotoWith(r, k, label, f) /\ Resolved(label, f)
    BY Zenon, <1>9 DEF Moved
  <2>2. /\ pc' = [pc EXCEPT ![r][k] = label]
        /\ frame' = [frame EXCEPT ![r][k] = f]
    BY Zenon, <2>1 DEF GotoWith
  <2>3. /\ pc' \in [Run -> [Attempt -> Label]]
        /\ frame' \in [Run -> [Attempt -> Frame]]
        /\ registered' \in [Run -> Provider \cup {NoProvider}]
    BY Zenon, <1>9, <2>2 DEF AttemptsOK
  <2>4. ASSUME NEW q \in Run, NEW j \in Attempt
        PROVE  (pc'[q][j] # "idle" => j <= attempt'[q]) /\ Resolved(pc'[q][j], frame'[q][j])
    <3>1. CASE q = r /\ j = k
      BY <1>9, <2>1, <2>2, <3>1 DEF AttemptsOK
    <3>2. CASE ~(q = r /\ j = k)
      <4>1. pc'[q][j] = pc[q][j] /\ frame'[q][j] = frame[q][j]
        BY Zenon, <2>2, <3>2 DEF AttemptsOK
      <4>2. (pc[q][j] # "idle" => j <= attempt[q]) /\ Resolved(pc[q][j], frame[q][j])
        BY Zenon DEF AttemptsOK
      <4>3. j \in Int
        BY DEF Attempt
      <4> QED
        BY <1>5, <1>7, <4>1, <4>2, <4>3
    <3> QED
      BY Zenon, <3>1, <3>2
  <2> QED
    BY Zenon, <2>3, <2>4 DEF AttemptsOK
<1>10. ASSUME NEW r \in Run, NEW k \in Attempt, pc[r][k] # "idle" PROVE k <= attempt'[r]
  BY SMTT(30), <1>5, <1>7, <1>10 DEF AttemptsOK, Attempt
<1>11. AttemptsOK'
  <2>1. CASE UNCHANGED actionVars
    BY Zenon, <1>8, <2>1 DEF actionVars, worldVars, AttemptsOK
  <2>2. ASSUME NEW r \in Run, Client(r) \/ Deliver(r) \/ (\E k \in Attempt : Lapse(r, k))
        PROVE  AttemptsOK'
    BY Zenon, <1>8, <2>2 DEF Client, Deliver, Lapse, worldVars, AttemptsOK
  <2>3. ASSUME NEW r \in Run, Drift(r) PROVE AttemptsOK'
    BY Zenon, <1>8, <2>3 DEF Drift, AttemptsOK
  <2>4. ASSUME NEW r \in Run, NEW k \in Attempt, Work(r, k) \/ Crash(r, k) \/ StoreFault(r, k)
        PROVE  AttemptsOK'
    <3>1. pc[r][k] # "idle" /\ Moved(r, k)
      BY Zenon, <2>4, LocalMoves, OtherMoves DEF Work
    <3>2. UNCHANGED registered
      BY Zenon, <2>4 DEF Work, Crash, StoreFault, worldVars
    <3> QED
      BY Zenon, <1>9, <1>10, <3>1, <3>2
  <2>5. ASSUME NEW r \in Run, ClaimNext(r) PROVE AttemptsOK'
    <3> DEFINE f == [NoFrame EXCEPT !.cancel = cancel_requested[r],
                                    !.reconcile = error_code'[r] = PENDING]
    <3>1. attempt'[r] \in Attempt /\ UNCHANGED registered
      BY <1>7, <2>5, RunStoreAssumption
      DEF ClaimNext, Claim, claim_next_run, Lease, Attempt, worldVars, TypeOK
    <3>2. f \in Frame
      BY Zenon, NoFrameType DEF Frame, NoFrame, TypeOK
    <3>3. GotoWith(r, attempt'[r], "boundary", f)
      BY <2>5 DEF ClaimNext, Claim
    <3> HIDE DEF f
    <3>4. "boundary" \in Label /\ Resolved("boundary", f)
      BY Zenon DEF Label, Resolved
    <3>5. PICK k \in Attempt : k = attempt'[r]
      BY Zenon, <3>1
    <3>6. Moved(r, k)
      BY Zenon, <3>2, <3>3, <3>4, <3>5 DEF Moved
    <3>7. k <= attempt'[r]
      BY <1>7, <3>5
    <3> QED
      BY <1>9, <3>1, <3>6, <3>7
  <2> QED
    BY Zenon, <2>1, <2>2, <2>3, <2>4, <2>5 DEF ActionsNext
<1> QED
  BY <1>2, <1>4, <1>6, <1>11

\* Before any submission no attempt runs.
LEMMA ActionsStart == ActionsInit => ActionsInv
<1> SUFFICES ASSUME ActionsInit PROVE ActionsInv
  OBVIOUS
<1>1. TypeOK
  BY Zenon, InitIInv DEF ActionsInit, LedgerInit, IInv
<1>2. LedgerInv
  BY Zenon, LedgerInitInv DEF ActionsInit
<1>3. RowsOK
  BY DEF ActionsInit, LedgerInit, Init, RowsOK, NoExecution, NoToken
<1>4. AttemptsOK
  BY Zenon, NoFrameType DEF ActionsInit, AttemptsOK, Resolved, Label
<1> QED
  BY <1>1, <1>2, <1>3, <1>4 DEF ActionsInv

\* The invariant holds of every behaviour of the attempts.
THEOREM ActionsInvariance == ActionsSpec => []ActionsInv
BY ActionsStart, ActionsStep, PTL DEF ActionsSpec

\* Attempts that crash, lose their lease or meet store faults, a changing
\* registration and late providers only ever take steps of the ledger
\* (ExternalActionCoordinator and DurableActionRuntime use SQLiteWorkflowStore
\* as it is specified).
THEOREM AttemptsImplementLedger == ActionsSpec => ImplementsLedger
<1>1. ActionsInit => LedgerInit
  BY DEF ActionsInit
<1>2. ActionsInv /\ [ActionsNext]_actionVars => [LedgerNext]_allLedgerVars
  BY StepsAreLedgerSteps
<1> QED
  BY <1>1, <1>2, ActionsInvariance, PTL DEF ActionsSpec, LedgerSpec, ImplementsLedger

-----------------------------------------------------------------------------
(* What an attempt knows.  A label and a frame stand for what the attempt has   *)
(* seen of the ledger: some of it is true for good, the rest as long as the     *)
(* attempt holds the lease.  The operators take the label l and the frame f of  *)
(* an attempt, and the action row a and workflow status w of its Run.           *)

InFlight(a) == a.status = "dispatching"

\* Nothing was sent, or its success is recorded.
Clear(a) == a.status \in {"none", "prepared", "succeeded"}

\* Before the attempt's own dispatch; with a dispatch of its own; with the token
\* of a dispatch; with a recorded success; inside the running workflow.
Early == {"open", "mark", "resolve", "step", "claim", "prepare"}
Own == {"send", "await", "retry_ambiguous", "succeeded", "failed", "unknown"}
Tokened == Own \cup {"recover", "retry", "unknown_leased"}
Proven == {"evidence", "evidence_again", "finalize"}
Working == {"resolve", "step", "claim", "prepare", "begin", "recover", "retry", "restore",
            "send", "await", "retry_ambiguous", "succeeded"} \cup Proven
Hosted == {"unknown_leased", "fail", "fail_safely", "manager", "cancel"}

\* True for good: dispatch tokens that were drawn, outcomes that were read, and
\* workflows that are ready.
Recalls(l, f, a, w) ==
  /\ l \in Tokened => f.token \in 1 .. a.dispatch_count
  /\ l \in {"retry", "retry_ambiguous"} => f.token < max_dispatches
  /\ l \in {"restore", "fail_safely"} => a.status \in ActionTerminal
  /\ l = "fail_safely" => f.exc \in SafetyCode
  /\ l \in Proven => a.status = "succeeded"
  /\ l \in {"result", "cancel_result"} => w = "ready"
  /\ f.hosted => l \in Hosted
  /\ l = "fail" => f.exc = IF f.hosted THEN "evidence_incomplete" ELSE "rejected"

\* The exception under way tells what the ledger holds, or leaves the Run to
\* the next attempt.
Warned(f, a) ==
  \/ f.exc = "reconciliation_pending"
  \/ Clear(a)
  \/ f.exc \in SafetyCode /\ ~InFlight(a)
  \/ f.exc = "rejected" /\ f.reconcile

\* No dispatch is in flight when the Manager commits the exception.
Netted(f, a) ==
  \/ f.exc = "reconciliation_pending"
  \/ ~InFlight(a)
  \/ f.reconcile /\ f.exc \notin ResolutionCode

\* True while attempt k holds the lease, after n store exceptions.
OwnerKnows(k, l, f, a, w, n) ==
  /\ l = "boundary" /\ a.dispatch_count > 0 => k > 1
  /\ l \in Early /\ a.dispatch_count > 0 => f.reconcile
  /\ l = "begin" => a.status = "prepared"
  /\ l \in Own => InFlight(a) /\ f.token = a.dispatch_count
  /\ l \in Working => w = "running"
  /\ l = "fail" /\ f.hosted => ~InFlight(a)
  /\ l = "fail" /\ ~f.hosted /\ n = 0 => Clear(a) \/ f.reconcile
  /\ l \in {"host", "manager"} /\ n = 0 => Warned(f, a)
  /\ l = "manager" /\ n <= 1 => Netted(f, a)
  /\ l = "cancel" /\ n = 0 => Clear(a)
  /\ l = "cancel" /\ n <= 1 => ~InFlight(a)

\* Every attempt knows what its place in the code says.
Knows(r, k) ==
  /\ Recalls(pc[r][k], frame[r][k], action[r], workflow[r].status)
  /\ pc[r][k] # "idle" /\ Current(r, k) =>
       OwnerKnows(k, pc[r][k], frame[r][k], action[r], workflow[r].status, faults)

Knowledge == \A r \in Run, k \in Attempt : Knows(r, k)

\* A dispatch belongs to one attempt.
TokensApart ==
  \A r \in Run : \A j, k \in Attempt :
    pc[r][j] \in Own /\ pc[r][k] \in Own /\ frame[r][j].token = frame[r][k].token => j = k

\* The one effect the write of a Run can have.
OneKey(r) ==
  [token |-> IF retry_mode[r] = "unsafe" THEN 1 ELSE NoToken, to |-> action[r].provider]

\* Requests carry dispatches of the ledger to the provider it names, and an
\* answer tells what that provider did.
Requests(r) ==
  /\ sent[r] \subseteq [token : 1 .. action[r].dispatch_count, to : {action[r].provider}]
  /\ applied[r] \subseteq {OneKey(r)}
  /\ refused[r] \subseteq {OneKey(r)}
  /\ applied[r] # {} \/ refused[r] # {} => Dispatched(r)
  /\ RefusalBindsKey => applied[r] = {} \/ refused[r] = {}

Answers(r) ==
  \A d \in Dispatch :
    /\ answer[r][d] = "ok" => applied[r] # {}
    /\ answer[r][d] = "refused" => refused[r] # {}

Outcomes(r) ==
  /\ action[r].status = "succeeded" => applied[r] # {}
  /\ action[r].status = "failed" => refused[r] # {}
  /\ \A k \in Attempt : pc[r][k] = "succeeded" => applied[r] # {}
  /\ \A k \in Attempt : pc[r][k] = "failed" => refused[r] # {}

Budgeted(r) ==
  action[r].dispatch_count <= max_dispatches /\ action[r].dispatch_count <= MaxDispatches

EffectsOK ==
  /\ sent \in [Run -> SUBSET [token : Nat, to : Provider \cup {NoProvider}]]
  /\ answer \in [Run -> [Dispatch -> {"none", "ok", "refused"}]]
  /\ DOMAIN applied = Run /\ DOMAIN refused = Run
  /\ \A r \in Run : Requests(r) /\ Answers(r) /\ Outcomes(r) /\ Budgeted(r)

\* How Runs and workflows begin and end.
EndsOK ==
  \A r \in Run :
    /\ status[r] \in {"absent", "queued"} => attempt[r] = 0
    /\ attempt[r] = 0 => action[r].status = "none"
    /\ workflow[r].status = "ready" => action[r].status = "succeeded"
    /\ status[r] = "completed" => workflow[r].status = "ready"
    /\ status[r] \in Terminal /\ faults <= 1 => ~InFlight(action[r])
    /\ status[r] \in Terminal /\ faults = 0 =>
         Clear(action[r]) \/ (status[r] = "failed" /\ error_code[r] = SAFETY)

\* The inductive invariant of the properties of the whole system.
ActionsSafe ==
  /\ ActionsInv /\ faults \in Nat
  /\ Knowledge /\ TokensApart /\ EffectsOK /\ EndsOK

-----------------------------------------------------------------------------
(* Knowledge that lasts. *)

\* Outcomes are final, dispatches are only counted up and a ready workflow stays
\* ready, so what an attempt recalls stays true.
LEMMA RecallsStay ==
  ASSUME NEW l, NEW f, NEW a, NEW b, NEW v, NEW w, Recalls(l, f, a, v),
         a.dispatch_count \in Nat, b.dispatch_count \in Nat,
         a.dispatch_count <= b.dispatch_count,
         a.status \in ActionTerminal => b.status = a.status,
         v = "ready" => w = "ready"
  PROVE  Recalls(l, f, b, w)
<1>1. f.token \in 1 .. a.dispatch_count => f.token \in 1 .. b.dispatch_count
  OBVIOUS
<1>2. "succeeded" \in ActionTerminal
  BY Zenon DEF ActionTerminal
<1> QED
  BY Zenon, <1>1, <1>2 DEF Recalls

\* While an attempt holds the lease, another one can at most record the answer to
\* a dispatch of its own, and store exceptions are only counted up.
LEMMA OwnerKnowsStill ==
  ASSUME NEW k, NEW l, NEW f, NEW a, NEW b, NEW w, NEW n \in Nat, NEW m \in Nat,
         OwnerKnows(k, l, f, a, w, n), n <= m, b.dispatch_count = a.dispatch_count,
         b.status = a.status \/ (InFlight(a) /\ b.status \in ActionTerminal),
         l \in Own => b.status = a.status
  PROVE  OwnerKnows(k, l, f, b, w, m)
<1>1. (m = 0 => n = 0) /\ (m <= 1 => n <= 1)
  OBVIOUS
<1>2. /\ InFlight(b) => InFlight(a)
      /\ Clear(a) => Clear(b)
      /\ a.status = "prepared" => b.status = "prepared"
  BY Zenon DEF InFlight, Clear, ActionTerminal
<1>3. /\ Warned(f, a) => Warned(f, b)
      /\ Netted(f, a) => Netted(f, b)
  BY Zenon, <1>2 DEF Warned, Netted
<1>4. l \in Own /\ InFlight(a) => InFlight(b)
  BY Zenon DEF InFlight
<1> QED
  BY Zenon, <1>1, <1>2, <1>3, <1>4 DEF OwnerKnows

-----------------------------------------------------------------------------
(* What a step teaches the attempt that takes it. *)

\* After a step attempt k of Run r knows what its new place says; a new dispatch
\* drew a new token, and an answer tells what the provider did.
Learned(r, k) ==
  /\ Recalls(pc'[r][k], frame'[r][k], action'[r], workflow'[r].status)
  /\ Current(r, k) =>
       OwnerKnows(k, pc'[r][k], frame'[r][k], action'[r], workflow'[r].status, faults')
  /\ pc'[r][k] \in Own =>
       \/ pc[r][k] \in Own /\ frame'[r][k].token = frame[r][k].token
       \/ frame'[r][k].token = action[r].dispatch_count + 1
  /\ pc'[r][k] = "succeeded" => applied[r] # {}
  /\ pc'[r][k] = "failed" => refused[r] # {}

\* A step of an attempt changes the place of that attempt only.
LEMMA Lands ==
  ASSUME AttemptsOK, NEW r \in Run, NEW k \in Attempt, NEW l, NEW f, GotoWith(r, k, l, f)
  PROVE  /\ pc'[r][k] = l /\ frame'[r][k] = f
         /\ \A q \in Run, j \in Attempt :
              ~(q = r /\ j = k) => pc'[q][j] = pc[q][j] /\ frame'[q][j] = frame[q][j]
BY Zenon DEF GotoWith, AttemptsOK

\* An exception keeps how the attempt began and who handles it.
LEMMA ThrownFields ==
  ASSUME NEW f, NEW c
  PROVE  Thrown(f, c).exc = c /\ Thrown(f, c).reconcile = f.reconcile
         /\ Thrown(f, c).hosted = f.hosted
BY Zenon DEF Thrown, NoFrame

\* An exception that leaves the Run to the next attempt, or says what the ledger
\* holds, may be raised anywhere; any other one needs the handlers of the runtime.
LEMMA RaiseTeaches ==
  ASSUME AttemptsOK, NEW r \in Run, NEW k \in Attempt, NEW c, Raise(r, k, c),
         \/ ~Current(r, k)
         \/ c = "reconciliation_pending"
         \/ c \in SafetyCode /\ ~InFlight(action'[r])
         \/ Clear(action'[r])
         \/ c = "rejected" /\ frame[r][k].reconcile
         \/ faults' # 0 /\ (frame[r][k].hosted => ~InFlight(action'[r]))
  PROVE  Learned(r, k)
<1> DEFINE f == Thrown(frame[r][k], c)
<1>1. /\ pc'[r][k] = IF frame[r][k].hosted THEN "manager" ELSE "host"
      /\ frame'[r][k] = f
  BY Zenon DEF Raise, GotoWith, AttemptsOK
<1>2. f.exc = c /\ f.reconcile = frame[r][k].reconcile /\ f.hosted = frame[r][k].hosted
  BY Zenon, ThrownFields
<1> HIDE DEF f
<1>3. /\ Clear(action'[r]) => ~InFlight(action'[r])
      /\ "rejected" \notin ResolutionCode
  BY Zenon DEF Clear, InFlight, ResolutionCode, SafetyCode
<1>4. /\ Current(r, k) /\ faults' = 0 => Warned(f, action'[r])
      /\ Current(r, k) /\ frame[r][k].hosted => Netted(f, action'[r])
  BY Zenon, <1>2, <1>3 DEF Warned, Netted
<1>5. CASE frame[r][k].hosted
  <2>1. pc'[r][k] = "manager"
    BY Zenon, <1>1, <1>5
  <2> QED
    BY Zenon, <1>1, <1>4, <1>5, <2>1
    DEF Learned, Recalls, OwnerKnows, Tokened, Own, Proven, Hosted, Early, Working
<1>6. CASE ~frame[r][k].hosted
  <2>1. pc'[r][k] = "host" /\ ~f.hosted
    BY Zenon, <1>1, <1>2, <1>6
  <2> QED
    BY Zenon, <1>1, <1>4, <2>1
    DEF Learned, Recalls, OwnerKnows, Tokened, Own, Proven, Hosted, Early, Working
<1> QED
  BY Zenon, <1>5, <1>6

\* An ordinary failure of the workflow is reported as "rejected": nothing was
\* sent, or the attempt reconciles.
LEMMA FailTeaches ==
  ASSUME AttemptsOK, NEW r \in Run, NEW k \in Attempt, Closing(r, k, "fail", "rejected"),
         ~frame[r][k].hosted,
         \/ ~Current(r, k)
         \/ Clear(action'[r])
         \/ frame[r][k].reconcile
         \/ faults' # 0
  PROVE  Learned(r, k)
<1> DEFINE f == Thrown(frame[r][k], "rejected")
<1>1. pc'[r][k] = "fail" /\ frame'[r][k] = f
  BY Zenon DEF Closing, GotoWith, AttemptsOK
<1>2. f.exc = "rejected" /\ f.reconcile = frame[r][k].reconcile /\ f.hosted = frame[r][k].hosted
  BY Zenon, ThrownFields
<1> HIDE DEF f
<1>3. ~f.hosted
  BY Zenon, <1>2
<1> QED
  BY Zenon, <1>1, <1>2, <1>3
  DEF Learned, Recalls, OwnerKnows, Tokened, Own, Proven, Hosted, Early, Working

\* A safety failure is reported once the ledger is settled.
LEMMA FailSafelyTeaches ==
  ASSUME AttemptsOK, NEW r \in Run, NEW k \in Attempt, NEW c \in SafetyCode,
         Closing(r, k, "fail_safely", c), action'[r].status \in ActionTerminal
  PROVE  Learned(r, k)
<1> DEFINE f == Thrown(frame[r][k], c)
<1>1. pc'[r][k] = "fail_safely" /\ frame'[r][k] = f
  BY Zenon DEF Closing, GotoWith, AttemptsOK
<1>2. f.exc = c /\ f.hosted = frame[r][k].hosted
  BY Zenon, ThrownFields
<1> HIDE DEF f
<1> QED
  BY Zenon, <1>1, <1>2
  DEF Learned, Recalls, OwnerKnows, Tokened, Own, Proven, Hosted, Early, Working

\* An attempt that will settle a dispatch as unknown names one that was drawn.
LEMMA UnknownTeaches ==
  ASSUME AttemptsOK, NEW r \in Run, NEW k \in Attempt, pc'[r][k] = "unknown_leased",
         frame'[r][k].token \in 1 .. action'[r].dispatch_count
  PROVE  Learned(r, k)
BY Zenon DEF Learned, Recalls, OwnerKnows, Tokened, Own, Proven, Hosted, Early, Working

\* An attempt that ended knows nothing.
LEMMA FinishTeaches ==
  ASSUME AttemptsOK, NEW r \in Run, NEW k \in Attempt, Finish(r, k)
  PROVE  Learned(r, k)
<1>1. pc'[r][k] = "done" /\ frame'[r][k] = NoFrame
  BY Zenon DEF Finish, GotoWith, AttemptsOK
<1>2. ~NoFrame.hosted
  BY Zenon DEF NoFrame
<1> QED
  BY Zenon, <1>1, <1>2
  DEF Learned, Recalls, OwnerKnows, Tokened, Own, Proven, Hosted, Early, Working

\* An exception that the handlers of the runtime do not see is harmless as long as
\* the attempt reconciles or no dispatch is in flight.
LEMMA EscapeTeaches ==
  ASSUME AttemptsOK, NEW r \in Run, NEW k \in Attempt, Escape(r, k), faults' # 0,
         \/ ~Current(r, k)
         \/ ~InFlight(action'[r])
         \/ frame[r][k].reconcile
         \/ ~(faults' <= 1)
  PROVE  Learned(r, k)
<1> DEFINE f == [Thrown(frame[r][k], "other") EXCEPT !.hosted = TRUE]
<1>1. pc'[r][k] = "manager" /\ frame'[r][k] = f
  BY Zenon DEF Escape, GotoWith, AttemptsOK
<1>2. f.exc = "other" /\ f.reconcile = frame[r][k].reconcile
  BY DEF Thrown, NoFrame
<1> HIDE DEF f
<1>3. Current(r, k) /\ faults' <= 1 => Netted(f, action'[r])
  BY Zenon, <1>2 DEF Netted, ResolutionCode, SafetyCode
<1> QED
  BY Zenon, <1>1, <1>3
  DEF Learned, Recalls, OwnerKnows, Tokened, Own, Proven, Hosted, Early, Working

\* What the invariant says of attempt k of Run r and of its rows.
LEMMA AtHand ==
  ASSUME ActionsSafe, NEW r \in Run, NEW k \in Attempt
  PROVE  /\ AttemptsOK
         /\ frame[r][k] \in Frame /\ frame[r][k].hosted \in BOOLEAN
         /\ frame[r][k].reconcile \in BOOLEAN /\ frame[r][k].token \in Nat
         /\ action[r].status \in ActionStatus /\ action[r].dispatch_count \in Nat
         /\ step[r] \in {"none", "running", "completed", "failed"}
         /\ Recalls(pc[r][k], frame[r][k], action[r], workflow[r].status)
         /\ pc[r][k] # "idle" /\ Current(r, k) =>
              OwnerKnows(k, pc[r][k], frame[r][k], action[r], workflow[r].status, faults)
<1>1. frame[r][k] \in Frame
  BY Zenon DEF ActionsSafe, ActionsInv, AttemptsOK
<1>2. frame[r][k].hosted \in BOOLEAN /\ frame[r][k].reconcile \in BOOLEAN
      /\ frame[r][k].token \in Nat
  BY Zenon, <1>1 DEF Frame
<1>3. /\ action[r].status \in ActionStatus /\ action[r].dispatch_count \in Nat
      /\ step[r] \in {"none", "running", "completed", "failed"}
  BY Zenon DEF ActionsSafe, ActionsInv, LedgerInv, LedgerTypeOK
<1> QED
  BY Zenon, <1>1, <1>2, <1>3 DEF ActionsSafe, ActionsInv, Knowledge, Knows

\* How the action row tells whether it was dispatched.
LEMMA RowTells ==
  ASSUME ActionsSafe, NEW r \in Run
  PROVE  /\ ~Dispatched(r) => Clear(action[r]) /\ ~InFlight(action[r])
         /\ Dispatched(r) => action[r].status \in {"dispatching"} \cup ActionTerminal
         /\ InFlight(action[r]) \/ action[r].status \in ActionTerminal =>
              Dispatched(r) /\ action[r].dispatch_count \in 1 .. action[r].dispatch_count
         /\ step[r] = "running" => action[r].status \in {"none", "prepared", "dispatching"}
         /\ step[r] \in {"completed", "failed"} => action[r].status \in ActionTerminal
<1>1. action[r].status \in ActionStatus /\ action[r].dispatch_count \in Nat
  BY Zenon DEF ActionsSafe, ActionsInv, LedgerInv, LedgerTypeOK
<1>2. /\ Dispatched(r) <=> action[r].status \notin {"none", "prepared"}
      /\ action[r].status \in ActionTerminal => step[r] = StepOf(action[r].status)
      /\ step[r] \in {"completed", "failed"} => action[r].status \in ActionTerminal
  BY Zenon DEF ActionsSafe, ActionsInv, LedgerInv, StepAgreesWithAction
<1>3. Dispatched(r) => action[r].dispatch_count \in 1 .. action[r].dispatch_count
  BY <1>1 DEF Dispatched
<1>4. /\ ~Dispatched(r) => Clear(action[r]) /\ ~InFlight(action[r])
      /\ Dispatched(r) => action[r].status \in {"dispatching"} \cup ActionTerminal
      /\ InFlight(action[r]) \/ action[r].status \in ActionTerminal => Dispatched(r)
  BY Zenon, <1>1, <1>2 DEF Clear, InFlight, ActionStatus, ActionTerminal
<1>5. step[r] = "running" => action[r].status \in {"none", "prepared", "dispatching"}
  BY Zenon, <1>1, <1>2 DEF StepOf, ActionStatus
<1> QED
  BY Zenon, <1>2, <1>3, <1>4, <1>5

\* The claim boundary: a recovered attempt reconciles whatever was dispatched.
LEMMA BoundaryTeaches ==
  ASSUME ActionsSafe, NEW r \in Run, NEW k \in Attempt, Boundary(r, k), faults' = faults
  PROVE  Learned(r, k)
<1> DEFINE rec == k > 1 /\ (frame[r][k].reconcile \/ Dispatched(r))
           f == [NoFrame EXCEPT !.reconcile = rec]
           to == IF frame[r][k].cancel /\ ~rec THEN "cancel" ELSE "open"
<1>1. pc'[r][k] = to /\ frame'[r][k] = f /\ action' = action /\ pc[r][k] = "boundary"
  BY Zenon, AtHand DEF Boundary, GotoWith, AttemptsOK, ReadOnly, ledgerVars, actionRows
<1>2. f.reconcile = rec /\ ~f.hosted
  BY DEF NoFrame
<1>3. Current(r, k) /\ action[r].dispatch_count > 0 => rec
  BY Zenon, <1>1, AtHand DEF OwnerKnows, Dispatched
<1>4. to = "open" \/ (to = "cancel" /\ ~rec)
  BY Zenon
<1> HIDE DEF rec, f, to
<1>5. CASE to = "open"
  BY Zenon, <1>1, <1>2, <1>3, <1>5
  DEF Learned, Recalls, OwnerKnows, Tokened, Own, Proven, Hosted, Early, Working
<1>6. CASE to = "cancel" /\ ~rec
  <2>1. Current(r, k) => Clear(action[r]) /\ ~InFlight(action[r])
    BY Zenon, <1>3, <1>6, RowTells DEF Dispatched
  <2> QED
    BY Zenon, <1>1, <1>2, <1>6, <2>1
    DEF Learned, Recalls, OwnerKnows, Tokened, Own, Proven, Hosted, Early, Working
<1> QED
  BY Zenon, <1>4, <1>5, <1>6

\* Reconciling a dispatched action ends in a safety failure.
LEMMA ReconcileTeaches ==
  ASSUME ActionsSafe, NEW r \in Run, NEW k \in Attempt, Reconcile(r, k), Dispatched(r),
         action' = action
  PROVE  Learned(r, k)
<1>1. CASE action[r].status = "dispatching"
  <2>1. With(r, k, "unknown_leased", action[r].dispatch_count)
    BY Zenon, <1>1 DEF Reconcile
  <2>2. pc'[r][k] = "unknown_leased" /\ frame'[r][k].token = action[r].dispatch_count
    BY <2>1, AtHand DEF With, GotoWith, AttemptsOK, Frame
  <2> QED
    BY Zenon, <1>1, <2>2, RowTells, AtHand, UnknownTeaches DEF InFlight
<1>2. ASSUME action[r].status \in ActionTerminal PROVE Learned(r, k)
  <2>1. PICK c \in SafetyCode : Closing(r, k, "fail_safely", c)
    BY Zenon, <1>2 DEF Reconcile, SafetyCode, ActionTerminal
  <2> QED
    BY Zenon, <1>2, <2>1, AtHand, FailSafelyTeaches
<1> QED
  BY Zenon, <1>1, <1>2, RowTells

\* The workflow store's writes for Run r touch that workflow only.
LEMMA WorkflowWrites ==
  ASSUME LedgerTypeOK, NEW r \in Run, NEW t
  PROVE  /\ create_or_get_execution(r, t, ActionInput) =>
              /\ Current(r, t) /\ UNCHANGED vars
              /\ workflow'[r].status =
                   IF workflow[r].status = "none" THEN "pending" ELSE workflow[r].status
         /\ mark_running(r, t) =>
              Current(r, t) /\ UNCHANGED vars /\ workflow'[r].status = "running"
         /\ \A s, code : _finalize_execution(r, t, s, code) =>
              /\ Current(r, t) /\ UNCHANGED vars
              /\ workflow'[r].status =
                   IF workflow[r].status = "running" THEN s ELSE workflow[r].status
         /\ \/ create_or_get_execution(r, t, ActionInput) \/ mark_running(r, t)
            \/ \E s, code : _finalize_execution(r, t, s, code)
            => \A q \in Run \ {r} : workflow'[q] = workflow[q]
<1> USE DEF LedgerTypeOK, Current
<1>1. create_or_get_execution(r, t, ActionInput) =>
        /\ Current(r, t) /\ UNCHANGED vars
        /\ workflow'[r].status =
             IF workflow[r].status = "none" THEN "pending" ELSE workflow[r].status
        /\ \A q \in Run \ {r} : workflow'[q] = workflow[q]
  BY DEF create_or_get_execution
<1>2. mark_running(r, t) =>
        /\ Current(r, t) /\ UNCHANGED vars /\ workflow'[r].status = "running"
        /\ \A q \in Run \ {r} : workflow'[q] = workflow[q]
  BY DEF mark_running
<1>3. \A s, code : _finalize_execution(r, t, s, code) =>
        /\ Current(r, t) /\ UNCHANGED vars
        /\ workflow'[r].status =
             IF workflow[r].status = "running" THEN s ELSE workflow[r].status
        /\ \A q \in Run \ {r} : workflow'[q] = workflow[q]
  BY DEF _finalize_execution
<1> QED
  BY Zenon, <1>1, <1>2, <1>3

\* Opening the workflow: a finished one is not executed again.
LEMMA OpenTeaches ==
  ASSUME ActionsSafe, NEW r \in Run, NEW k \in Attempt, Open(r, k), faults' = faults
  PROVE  Learned(r, k)
<1> USE AtHand
<1>1. pc[r][k] = "open" /\ action' = action
  BY Zenon DEF Open, ReadOnly, ledgerVars, actionRows
<1>2. ~frame[r][k].hosted
  BY Zenon, <1>1 DEF Recalls, Hosted
<1>3. CASE ~Current(r, k) /\ Raise(r, k, "other")
  BY Zenon, <1>3, RaiseTeaches
<1>4. CASE create_or_get_execution(r, k, ActionInput) /\ ~(~Current(r, k) /\ Raise(r, k, "other"))
  <2>1. /\ Current(r, k)
        /\ workflow'[r].status =
             IF workflow[r].status = "none" THEN "pending" ELSE workflow[r].status
    BY Zenon, <1>4, WorkflowWrites DEF ActionsSafe, ActionsInv, LedgerInv
  <2>2. action[r].dispatch_count > 0 => frame[r][k].reconcile
    BY Zenon, <1>1, <2>1 DEF OwnerKnows, Early
  <2>3. ASSUME NEW l, Goto(r, k, l) PROVE pc'[r][k] = l /\ frame'[r][k] = frame[r][k]
    BY Zenon, <2>3 DEF Goto, GotoWith, AttemptsOK
  <2>4. CASE workflow[r].status \in {"none", "pending"}
    <3>1. pc'[r][k] = "mark" /\ frame'[r][k] = frame[r][k]
      BY Zenon, <1>4, <2>3, <2>4 DEF Open
    <3> QED
      BY Zenon, <1>1, <1>2, <2>2, <3>1
      DEF Learned, Recalls, OwnerKnows, Tokened, Own, Proven, Hosted, Early, Working
  <2>5. CASE workflow[r].status = "running"
    <3>1. pc'[r][k] = "resolve" /\ frame'[r][k] = frame[r][k]
      BY Zenon, <1>4, <2>3, <2>5 DEF Open
    <3>2. workflow'[r].status = "running"
      BY Zenon, <2>1, <2>5
    <3> QED
      BY Zenon, <1>1, <1>2, <2>2, <3>1, <3>2
      DEF Learned, Recalls, OwnerKnows, Tokened, Own, Proven, Hosted, Early, Working
  <2>6. CASE workflow[r].status = "ready"
    <3>1. pc'[r][k] = "result" /\ frame'[r][k] = frame[r][k]
      BY Zenon, <1>4, <2>3, <2>6 DEF Open
    <3>2. workflow'[r].status = "ready"
      BY Zenon, <2>1, <2>6
    <3> QED
      BY Zenon, <1>1, <1>2, <3>1, <3>2
      DEF Learned, Recalls, OwnerKnows, Tokened, Own, Proven, Hosted, Early, Working
  <2>7. CASE workflow[r].status = "failed"
    <3>1. \/ Dispatched(r) /\ Reconcile(r, k)
          \/ ~Dispatched(r) /\ (Raise(r, k, "evidence_incomplete") \/ Raise(r, k, "rejected"))
      BY Zenon, <1>4, <2>7 DEF Open
    <3>2. ~Dispatched(r) => Clear(action'[r])
      BY Zenon, <1>1, RowTells
    <3> QED
      BY Zenon, <1>1, <3>1, <3>2, ReconcileTeaches, RaiseTeaches
  <2>8. workflow[r].status \in {"none", "pending", "running", "ready", "failed"}
    BY Zenon DEF ActionsSafe, ActionsInv, LedgerInv, LedgerTypeOK, RowsOK, WorkflowStatus
  <2> QED
    BY Zenon, <2>4, <2>5, <2>6, <2>7, <2>8
<1> QED
  BY Zenon, <1>3, <1>4 DEF Open

\* Marking the workflow running, finding the provider, and claiming the step.
LEMMA EntryTeaches ==
  ASSUME ActionsSafe, NEW r \in Run, NEW k \in Attempt, faults' = faults,
         Mark(r, k) \/ Resolve(r, k) \/ ClaimStep(r, k)
  PROVE  Learned(r, k)
<1> USE AtHand
<1>1. pc[r][k] \in {"mark", "resolve", "claim"} /\ action' = action
  BY Zenon DEF Mark, Resolve, ClaimStep, Fenced, claim_step, ReadOnly, ledgerVars, actionRows
<1>2. ~frame[r][k].hosted
  BY Zenon, <1>1 DEF Recalls, Hosted
<1>3. Current(r, k) /\ action[r].dispatch_count > 0 => frame[r][k].reconcile
  BY Zenon, <1>1 DEF OwnerKnows, Early
<1>4. CASE ~Current(r, k) /\ Raise(r, k, "other")
  BY Zenon, <1>4, RaiseTeaches
<1>5. ASSUME NEW l \in {"resolve", "step", "prepare"}, Goto(r, k, l),
             Current(r, k) => workflow'[r].status = "running"
      PROVE  Learned(r, k)
  <2>1. pc'[r][k] = l /\ frame'[r][k] = frame[r][k]
    BY Zenon, <1>5 DEF Goto, GotoWith, AttemptsOK
  <2> QED
    BY Zenon, <1>1, <1>2, <1>3, <1>5, <2>1
    DEF Learned, Recalls, OwnerKnows, Tokened, Own, Proven, Hosted, Early, Working
<1>6. CASE Mark(r, k)
  <2>1. mark_running(r, k) => workflow'[r].status = "running"
    BY Zenon, WorkflowWrites DEF ActionsSafe, ActionsInv, LedgerInv
  <2> QED
    BY Zenon, <1>4, <1>5, <1>6, <2>1 DEF Mark, Fenced
<1>7. pc[r][k] \in {"resolve", "claim"} /\ Current(r, k) => workflow[r].status = "running"
  BY Zenon, <1>1 DEF OwnerKnows, Working
<1>8. CASE ClaimStep(r, k)
  BY Zenon, <1>4, <1>5, <1>7, <1>8 DEF ClaimStep, Fenced, claim_step
<1>9. CASE Resolve(r, k)
  <2>1. \/ Goto(r, k, "step")
        \/ Dispatched(r) /\ Reconcile(r, k)
        \/ ~Dispatched(r) /\ Closing(r, k, "fail", "rejected")
    BY Zenon, <1>9 DEF Resolve
  <2>2. workflow' = workflow /\ pc[r][k] = "resolve"
    BY Zenon, <1>9 DEF Resolve, ReadOnly, ledgerVars
  <2>3. ~Dispatched(r) => Clear(action'[r])
    BY Zenon, <1>1, RowTells
  <2> QED
    BY Zenon, <1>1, <1>2, <1>5, <1>7, <2>1, <2>2, <2>3, ReconcileTeaches, FailTeaches
<1> QED
  BY Zenon, <1>6, <1>8, <1>9

\* The ledger's writes for Run r touch that action only: a dispatch is counted, an
\* answer settles the dispatch it names, a preparation names the provider.
LEMMA ActionWrites ==
  ASSUME LedgerTypeOK, NEW r \in Run
  PROVE  /\ Redispatch(r) =>
              /\ action'[r].status = "dispatching"
              /\ action'[r].dispatch_count = action[r].dispatch_count + 1
              /\ action'[r].provider = action[r].provider
              /\ \A q \in Run \ {r} : action'[q] = action[q]
         /\ \A d, s : Settle(r, d, s) =>
              /\ action'[r].status = s
              /\ action'[r].dispatch_count = action[r].dispatch_count
              /\ action'[r].provider = action[r].provider
              /\ \A q \in Run \ {r} : action'[q] = action[q]
         /\ \A t, p : prepare_external_action(r, t, p) =>
              /\ action'[r].status =
                   IF action[r].status = "none" THEN "prepared" ELSE action[r].status
              /\ action'[r].dispatch_count = action[r].dispatch_count
              /\ action[r].status # "none" => action' = action
              /\ \A q \in Run \ {r} : action'[q] = action[q]
<1> USE DEF LedgerTypeOK
<1>1. Redispatch(r) =>
        /\ action'[r].status = "dispatching"
        /\ action'[r].dispatch_count = action[r].dispatch_count + 1
        /\ action'[r].provider = action[r].provider
        /\ \A q \in Run \ {r} : action'[q] = action[q]
  BY DEF Redispatch
<1>2. \A d, s : Settle(r, d, s) =>
        /\ action'[r].status = s
        /\ action'[r].dispatch_count = action[r].dispatch_count
        /\ action'[r].provider = action[r].provider
        /\ \A q \in Run \ {r} : action'[q] = action[q]
  BY DEF Settle
<1>3. \A t, p : prepare_external_action(r, t, p) =>
        /\ action'[r].status =
             IF action[r].status = "none" THEN "prepared" ELSE action[r].status
        /\ action'[r].dispatch_count = action[r].dispatch_count
        /\ action[r].status # "none" => action' = action
        /\ \A q \in Run \ {r} : action'[q] = action[q]
  BY DEF prepare_external_action
<1> QED
  BY Zenon, <1>1, <1>2, <1>3

\* The tool step: a claimed step is continued, a finished one restored.
LEMMA StepTeaches ==
  ASSUME ActionsSafe, NEW r \in Run, NEW k \in Attempt, faults' = faults, Step(r, k)
  PROVE  Learned(r, k)
<1> USE AtHand
<1>1. pc[r][k] = "step" /\ action' = action /\ workflow' = workflow
  BY Zenon DEF Step, ReadOnly, ledgerVars, actionRows
<1>2. ~frame[r][k].hosted
  BY Zenon, <1>1 DEF Recalls, Hosted
<1>3. Current(r, k) /\ action[r].dispatch_count > 0 => frame[r][k].reconcile
  BY Zenon, <1>1 DEF OwnerKnows, Early
<1>4. Current(r, k) => workflow'[r].status = "running"
  BY Zenon, <1>1 DEF OwnerKnows, Working
<1>5. CASE Closing(r, k, "fail", "rejected")
  BY Zenon, <1>1, <1>2, <1>3, <1>5, RowTells, FailTeaches DEF Dispatched
<1> DEFINE f == [frame[r][k] EXCEPT !.identity = registered[r]]
<1>6. /\ f.hosted = frame[r][k].hosted /\ f.reconcile = frame[r][k].reconcile
      /\ [f EXCEPT !.recovered = TRUE].hosted = frame[r][k].hosted
      /\ [f EXCEPT !.recovered = TRUE].reconcile = frame[r][k].reconcile
  BY AtHand DEF Frame
<1>t. step[r] \in {"none", "running", "completed", "failed"}
  BY Zenon
<1>7. \/ Closing(r, k, "fail", "rejected")
      \/ GotoWith(r, k, "claim", f)
      \/ GotoWith(r, k, "prepare", [f EXCEPT !.recovered = TRUE])
      \/ Goto(r, k, "restore") /\ step[r] \in {"completed", "failed"}
  <2>1. CASE registered[r] = NoProvider \/ (step[r] = "running" /\ k = 1)
    BY Zenon, <2>1 DEF Step
  <2>2. CASE ~(registered[r] = NoProvider \/ (step[r] = "running" /\ k = 1))
    <3>1. CASE step[r] = "none"
      BY Zenon, <2>2, <3>1 DEF Step
    <3>2. CASE step[r] = "running"
      BY Zenon, <2>2, <3>2 DEF Step
    <3>3. CASE step[r] \in {"completed", "failed"}
      BY Zenon, <2>2, <3>3 DEF Step
    <3> QED
      BY Zenon, <1>t, <3>1, <3>2, <3>3
  <2> QED
    BY Zenon, <2>1, <2>2
<1>8. \/ Closing(r, k, "fail", "rejected")
      \/ pc'[r][k] = "claim" /\ frame'[r][k] = f
      \/ pc'[r][k] = "prepare" /\ frame'[r][k] = [f EXCEPT !.recovered = TRUE]
      \/ pc'[r][k] = "restore" /\ frame'[r][k] = frame[r][k] /\ step[r] \in {"completed", "failed"}
  <2>1. AttemptsOK
    BY Zenon
  <2>2. ASSUME NEW l, NEW e, GotoWith(r, k, l, e) PROVE pc'[r][k] = l /\ frame'[r][k] = e
    BY Zenon, <2>1, <2>2 DEF GotoWith, AttemptsOK
  <2> QED
    BY Zenon, <1>7, <2>2 DEF GotoWith, Goto
<1> HIDE DEF f
<1>9. ASSUME pc'[r][k] \in {"claim", "prepare"}, frame'[r][k].hosted = frame[r][k].hosted,
             frame'[r][k].reconcile = frame[r][k].reconcile
      PROVE  Learned(r, k)
  <2>1. ~frame'[r][k].hosted
    BY Zenon, <1>2, <1>9
  <2>2. Current(r, k) /\ action[r].dispatch_count > 0 => frame'[r][k].reconcile
    BY Zenon, <1>3, <1>9
  <2> QED
    BY Zenon, <1>1, <1>4, <1>9, <2>1, <2>2
    DEF Learned, Recalls, OwnerKnows, Tokened, Own, Proven, Hosted, Early, Working
<1>10. CASE pc'[r][k] = "restore" /\ frame'[r][k] = frame[r][k] /\ step[r] \in {"completed", "failed"}
  <2>1. action[r].status \in ActionTerminal
    BY Zenon, <1>10, RowTells
  <2> QED
    BY Zenon, <1>1, <1>2, <1>4, <1>10, <2>1
    DEF Learned, Recalls, OwnerKnows, Tokened, Own, Proven, Hosted, Early, Working
<1> QED
  BY Zenon, <1>5, <1>6, <1>8, <1>9, <1>10

\* Preparing the action finds it new, prepared before, or in flight.
LEMMA PrepareTeaches ==
  ASSUME ActionsSafe, NEW r \in Run, NEW k \in Attempt, faults' = faults, Prepare(r, k)
  PROVE  Learned(r, k)
<1> USE AtHand
<1>1. pc[r][k] = "prepare" /\ workflow' = workflow
  BY Zenon DEF Prepare, prepare_external_action, ReadOnly, ledgerVars
<1>2. ~frame[r][k].hosted
  BY Zenon, <1>1 DEF Recalls, Hosted
<1>3. Current(r, k) /\ action[r].dispatch_count > 0 => frame[r][k].reconcile
  BY Zenon, <1>1 DEF OwnerKnows, Early
<1>4. Current(r, k) => workflow'[r].status = "running"
  BY Zenon, <1>1 DEF OwnerKnows, Working
<1>5. ASSUME action' = action, Closing(r, k, "fail", "rejected") PROVE Learned(r, k)
  BY Zenon, <1>2, <1>3, <1>5, RowTells, FailTeaches DEF Dispatched
<1>6. ASSUME action' = action, action[r].status = "dispatching",
             With(r, k, "unknown_leased", action[r].dispatch_count)
      PROVE  Learned(r, k)
  <2>1. pc'[r][k] = "unknown_leased" /\ frame'[r][k].token = action[r].dispatch_count
    BY <1>6, AtHand DEF With, GotoWith, AttemptsOK, Frame
  <2> QED
    BY Zenon, <1>6, <2>1, RowTells, UnknownTeaches DEF InFlight
<1>7. ASSUME ~Current(r, k), PrepareFailed(r, k), action' = action PROVE Learned(r, k)
  BY Zenon, <1>5, <1>7, RaiseTeaches DEF PrepareFailed
<1>8. CASE prepare_external_action(r, k, frame[r][k].identity)
           /\ GotoWith(r, k, IF action[r].status = "dispatching" THEN "recover" ELSE "begin",
                [frame[r][k] EXCEPT !.identity = NoProvider, !.recovered = FALSE,
                                    !.token = action[r].dispatch_count])
  <2> DEFINE f == [frame[r][k] EXCEPT !.identity = NoProvider, !.recovered = FALSE,
                                      !.token = action[r].dispatch_count]
  <2>1. /\ frame'[r][k] = f
        /\ pc'[r][k] = IF action[r].status = "dispatching" THEN "recover" ELSE "begin"
    BY Zenon, <1>8 DEF GotoWith, AttemptsOK
  <2>2. f.hosted = frame[r][k].hosted /\ f.token = action[r].dispatch_count
    BY AtHand DEF Frame
  <2> HIDE DEF f
  <2>3. ~f.hosted
    BY Zenon, <1>2, <2>2
  <2>4. action[r].status \in {"none", "prepared", "dispatching"}
    BY Zenon, <1>8, RowTells DEF prepare_external_action
  <2>5. /\ action'[r].status =
             IF action[r].status = "none" THEN "prepared" ELSE action[r].status
        /\ action'[r].dispatch_count = action[r].dispatch_count
    BY Zenon, <1>8, ActionWrites DEF ActionsSafe, ActionsInv, LedgerInv
  <2>6. CASE action[r].status = "dispatching"
    <3>1. pc'[r][k] = "recover"
      BY Zenon, <2>1, <2>6
    <3>2. f.token \in 1 .. action'[r].dispatch_count
      BY Zenon, <2>2, <2>5, <2>6, RowTells DEF InFlight
    <3> QED
      BY Zenon, <1>4, <2>1, <2>3, <3>1, <3>2
      DEF Learned, Recalls, OwnerKnows, Tokened, Own, Proven, Hosted, Early, Working
  <2>7. CASE action[r].status # "dispatching"
    <3>1. pc'[r][k] = "begin" /\ action'[r].status = "prepared"
      BY Zenon, <2>1, <2>4, <2>5, <2>7
    <3> QED
      BY Zenon, <1>4, <2>1, <2>3, <3>1
      DEF Learned, Recalls, OwnerKnows, Tokened, Own, Proven, Hosted, Early, Working
  <2> QED
    BY Zenon, <2>6, <2>7
<1> QED
  BY Zenon, <1>5, <1>6, <1>7, <1>8 DEF Prepare, ReadOnly, ledgerVars, actionRows

\* A dispatch, the first or a repeated one, draws a token of its own.
LEMMA DispatchTeaches ==
  ASSUME ActionsSafe, NEW r \in Run, NEW k \in Attempt, Redispatch(r),
         With(r, k, "send", action'[r].dispatch_count), ~frame[r][k].hosted,
         workflow[r].status = "running"
  PROVE  Learned(r, k)
<1>1. /\ action'[r].status = "dispatching" /\ workflow' = workflow
      /\ action'[r].dispatch_count = action[r].dispatch_count + 1
  BY Zenon, ActionWrites DEF ActionsSafe, ActionsInv, LedgerInv, Redispatch
<1>2. action[r].dispatch_count \in Nat /\ frame[r][k] \in Frame /\ AttemptsOK
  BY Zenon, AtHand
<1>3. /\ pc'[r][k] = "send" /\ frame'[r][k].hosted = frame[r][k].hosted
      /\ frame'[r][k].token = action'[r].dispatch_count
  BY <1>2 DEF With, GotoWith, AttemptsOK, Frame
<1>4. action'[r].dispatch_count \in 1 .. action'[r].dispatch_count
  BY <1>1, <1>2
<1>5. ~frame'[r][k].hosted
  BY Zenon, <1>3
<1>6. frame'[r][k].token \in 1 .. action'[r].dispatch_count
  BY Zenon, <1>3, <1>4
<1> QED
  BY Zenon, <1>1, <1>3, <1>5, <1>6
  DEF Learned, Recalls, OwnerKnows, Tokened, Own, Proven, Hosted, Early, Working, InFlight

\* Beginning, recovering and repeating a dispatch, and restoring its outcome.
LEMMA DispatchingTeaches ==
  ASSUME ActionsSafe, NEW r \in Run, NEW k \in Attempt, faults' = faults,
         \/ Begin(r, k) \/ _recover_external_dispatch(r, k)
         \/ Retry(r, k) \/ Restore(r, k)
  PROVE  Learned(r, k)
<1> USE AtHand
<1>1. pc[r][k] \in {"begin", "recover", "retry", "retry_ambiguous", "restore"}
  BY Zenon DEF Begin, _recover_external_dispatch, Retry, Restore
<1>2. ~frame[r][k].hosted
  BY Zenon, <1>1 DEF Recalls, Hosted
<1>3. Current(r, k) => workflow[r].status = "running"
  BY Zenon, <1>1 DEF OwnerKnows, Working
<1>4. CASE ~Current(r, k) /\ Raise(r, k, "other")
  BY Zenon, <1>4, RaiseTeaches
<1>5. ASSUME NEW l, Goto(r, k, l) PROVE pc'[r][k] = l /\ frame'[r][k] = frame[r][k]
  BY Zenon, <1>5 DEF Goto, GotoWith, AttemptsOK
<1>6. ReadOnly => action' = action /\ workflow' = workflow
  BY Zenon DEF ReadOnly, ledgerVars, actionRows
<1>7. CASE Begin(r, k)
  <2>1. Current(r, k) => Clear(action[r])
    BY Zenon, <1>7 DEF Begin, OwnerKnows, Clear
  <2>2. \/ Current(r, k) /\ Redispatch(r) /\ With(r, k, "send", action'[r].dispatch_count)
        \/ Current(r, k) /\ Raise(r, k, "run_cancel_requested") /\ ReadOnly
        \/ ~Current(r, k) /\ Raise(r, k, "other")
    BY Zenon, <1>7 DEF Begin, begin_external_action_dispatch, Current
  <2> QED
    BY Zenon, <1>2, <1>3, <1>4, <1>6, <2>1, <2>2, DispatchTeaches, RaiseTeaches
<1>8. CASE _recover_external_dispatch(r, k)
  <2>1. /\ pc[r][k] = "recover" /\ frame'[r][k] = frame[r][k]
        /\ action' = action /\ workflow' = workflow
        /\ pc'[r][k] = IF Exhausted(r, k) THEN "unknown_leased" ELSE "retry"
    BY Zenon, <1>5, <1>6, <1>8 DEF _recover_external_dispatch
  <2>2. frame'[r][k].token \in 1 .. action'[r].dispatch_count
    BY Zenon, <2>1 DEF Recalls, Tokened
  <2>3. CASE Exhausted(r, k)
    BY Zenon, <2>1, <2>2, <2>3, UnknownTeaches
  <2>4. CASE ~Exhausted(r, k)
    <3>1. frame[r][k].token < max_dispatches
      BY <2>4, ActionsAssumption DEF Exhausted
    <3>2. pc'[r][k] = "retry"
      BY Zenon, <2>1, <2>4
    <3> QED
      BY Zenon, <1>2, <1>3, <2>1, <2>2, <3>1, <3>2
      DEF Learned, Recalls, OwnerKnows, Tokened, Own, Proven, Hosted, Early, Working
  <2> QED
    BY Zenon, <2>3, <2>4
<1>9. CASE Retry(r, k)
  <2>1. \/ Current(r, k) /\ Redispatch(r) /\ With(r, k, "send", action'[r].dispatch_count)
        \/ /\ Current(r, k) /\ action[r].status \in ActionTerminal /\ ReadOnly
           /\ pc[r][k] = "retry" => Goto(r, k, "restore")
        \/ ~Current(r, k) /\ Raise(r, k, "other")
    BY Zenon, <1>9 DEF Retry, retry_external_action_dispatch, Current
  <2>2. Current(r, k) /\ action[r].status \in ActionTerminal => pc[r][k] # "retry_ambiguous"
    BY Zenon DEF OwnerKnows, Own, InFlight, ActionTerminal
  <2>3. CASE Current(r, k) /\ action[r].status \in ActionTerminal /\ ReadOnly /\ Goto(r, k, "restore")
    <3>1. pc'[r][k] = "restore" /\ frame'[r][k] = frame[r][k]
      BY Zenon, <1>5, <2>3
    <3> QED
      BY Zenon, <1>2, <1>3, <1>6, <2>3, <3>1
      DEF Learned, Recalls, OwnerKnows, Tokened, Own, Proven, Hosted, Early, Working
  <2>4. pc[r][k] \in {"retry", "retry_ambiguous"}
    BY Zenon, <1>9 DEF Retry
  <2> QED
    BY Zenon, <1>2, <1>3, <1>4, <2>1, <2>2, <2>3, <2>4, DispatchTeaches
<1>10. CASE Restore(r, k)
  <2>1. action[r].status \in ActionTerminal /\ action' = action /\ workflow' = workflow
    BY Zenon, <1>6, <1>10 DEF Restore, Recalls
  <2>2. CASE action[r].status = "succeeded"
    <3>1. pc'[r][k] = "evidence" /\ frame'[r][k] = frame[r][k]
      BY Zenon, <1>5, <1>10, <2>2 DEF Restore
    <3> QED
      BY Zenon, <1>2, <1>3, <2>1, <2>2, <3>1
      DEF Learned, Recalls, OwnerKnows, Tokened, Own, Proven, Hosted, Early, Working
  <2>3. CASE action[r].status # "succeeded"
    <3>1. PICK c \in SafetyCode : Closing(r, k, "fail_safely", c)
      BY Zenon, <1>10, <2>1, <2>3 DEF Restore, ActionTerminal, SafetyCode
    <3> QED
      BY Zenon, <2>1, <3>1, FailSafelyTeaches
  <2> QED
    BY Zenon, <2>2, <2>3
<1> QED
  BY Zenon, <1>7, <1>8, <1>9, <1>10

\* The provider's answer, or its silence, and what is recorded of it.
LEMMA AnswerTeaches ==
  ASSUME ActionsSafe, NEW r \in Run, NEW k \in Attempt, faults' = faults,
         Answered(r, k) \/ Ambiguous(r, k) \/ Record(r, k)
  PROVE  Learned(r, k)
<1> USE AtHand
<1>1. pc[r][k] \in {"await", "succeeded", "failed"}
  BY Zenon DEF Answered, Ambiguous, Record
<1>2. ~frame[r][k].hosted /\ frame[r][k].token \in 1 .. action[r].dispatch_count
  BY Zenon, <1>1 DEF Recalls, Hosted, Tokened, Own
<1>3. Current(r, k) /\ pc[r][k] # "failed" => workflow[r].status = "running"
  BY Zenon, <1>1 DEF OwnerKnows, Working
<1>4. Current(r, k) => InFlight(action[r]) /\ frame[r][k].token = action[r].dispatch_count
  BY Zenon, <1>1 DEF OwnerKnows, Own
<1>5. ASSUME NEW l, Goto(r, k, l) PROVE pc'[r][k] = l /\ frame'[r][k] = frame[r][k]
  BY Zenon, <1>5 DEF Goto, GotoWith, AttemptsOK
<1>6. ReadOnly => action' = action /\ workflow' = workflow
  BY Zenon DEF ReadOnly, ledgerVars, actionRows
<1>7. CASE Answered(r, k)
  <2>1. frame[r][k].token \in Dispatch
    BY <1>2, LedgerAssumption DEF ActionsSafe, EffectsOK, Budgeted, Dispatch
  <2>2. /\ answer[r][frame[r][k].token] = "ok" => applied[r] # {}
        /\ answer[r][frame[r][k].token] = "refused" => refused[r] # {}
    BY Zenon, <2>1 DEF ActionsSafe, EffectsOK, Answers
  <2>3. /\ pc[r][k] = "await" /\ action' = action /\ workflow' = workflow
        /\ frame'[r][k] = frame[r][k]
        /\ \/ pc'[r][k] = "succeeded" /\ applied[r] # {}
           \/ pc'[r][k] = "failed" /\ refused[r] # {}
    BY Zenon, <1>5, <1>6, <1>7, <2>2 DEF Answered
  <2> QED
    BY Zenon, <1>2, <1>3, <1>4, <2>3
    DEF Learned, Recalls, OwnerKnows, Tokened, Own, Proven, Hosted, Early, Working
<1>8. CASE Ambiguous(r, k)
  <2>1. /\ pc[r][k] = "await" /\ action' = action /\ workflow' = workflow
        /\ frame'[r][k] = frame[r][k]
        /\ pc'[r][k] = IF Exhausted(r, k) THEN "unknown" ELSE "retry_ambiguous"
    BY Zenon, <1>5, <1>6, <1>8 DEF Ambiguous
  <2>2. ~Exhausted(r, k) => frame[r][k].token < max_dispatches
    BY ActionsAssumption DEF Exhausted
  <2>3. \/ pc'[r][k] = "unknown"
        \/ pc'[r][k] = "retry_ambiguous" /\ frame[r][k].token < max_dispatches
    BY Zenon, <2>1, <2>2
  <2> QED
    BY Zenon, <1>2, <1>3, <1>4, <2>1, <2>3
    DEF Learned, Recalls, OwnerKnows, Tokened, Own, Proven, Hosted, Early, Working
<1>9. CASE Record(r, k)
  <2>1. pc[r][k] \in {"succeeded", "failed"}
    BY Zenon, <1>9 DEF Record
  <2>2. CASE _finalize_external_action(r, frame[r][k].token, pc[r][k])
             /\ IF pc[r][k] = "succeeded" THEN Goto(r, k, "evidence")
                ELSE Closing(r, k, "fail_safely", "failed")
    <3>1. action'[r].status = pc[r][k] /\ workflow' = workflow
      <4>1. /\ workflow' = workflow
            /\ \/ action' = [action EXCEPT ![r].status = pc[r][k]]
               \/ action' = action /\ action[r].status = pc[r][k]
        BY Zenon, <2>2
        DEF _finalize_external_action, Settle, ExactDuplicate, ledgerVars, actionRows
      <4> QED
        BY <4>1 DEF ActionsSafe, ActionsInv, LedgerInv, LedgerTypeOK
    <3>2. CASE pc[r][k] = "succeeded"
      <4>1. pc'[r][k] = "evidence" /\ frame'[r][k] = frame[r][k]
        BY Zenon, <1>5, <2>2, <3>2
      <4> QED
        BY Zenon, <1>2, <1>3, <3>1, <3>2, <4>1
        DEF Learned, Recalls, OwnerKnows, Tokened, Own, Proven, Hosted, Early, Working
    <3>3. CASE pc[r][k] = "failed"
      <4>1. "failed" \in SafetyCode /\ "failed" \in ActionTerminal
        BY Zenon DEF SafetyCode, ActionTerminal
      <4>2. Closing(r, k, "fail_safely", "failed")
        BY Zenon, <2>2, <3>3
      <4> QED
        BY Zenon, <3>1, <3>3, <4>1, <4>2, FailSafelyTeaches
    <3> QED
      BY Zenon, <2>1, <3>2, <3>3
  <2>3. CASE ~HoldsDispatch(r, frame[r][k].token) /\ Goto(r, k, "unknown") /\ ReadOnly
    <3>1. ~Current(r, k)
      BY Zenon, <1>4, <2>3 DEF HoldsDispatch, InFlight
    <3>2. pc'[r][k] = "unknown" /\ frame'[r][k] = frame[r][k]
      BY Zenon, <1>5, <2>3
    <3> QED
      BY Zenon, <1>2, <1>6, <2>1, <2>3, <3>1, <3>2
      DEF Learned, Recalls, Tokened, Own, Proven, Hosted
  <2> QED
    BY Zenon, <1>9, <2>2, <2>3 DEF Record
<1> QED
  BY Zenon, <1>7, <1>8, <1>9

\* Settling as unknown, mirroring the evidence, and finishing the workflow.
LEMMA SettlingTeaches ==
  ASSUME ActionsSafe, NEW r \in Run, NEW k \in Attempt, faults' = faults,
         _raise_external_outcome_unknown(r, k) \/ Evidence(r, k) \/ Finalize(r, k)
  PROVE  Learned(r, k)
<1> USE AtHand
<1>1. ReadOnly => action' = action /\ workflow' = workflow
  BY Zenon DEF ReadOnly, ledgerVars, actionRows
<1>2. ASSUME NEW l, Goto(r, k, l) PROVE pc'[r][k] = l /\ frame'[r][k] = frame[r][k]
  BY Zenon, <1>2 DEF Goto, GotoWith, AttemptsOK
<1>3. CASE _raise_external_outcome_unknown(r, k)
  <2>1. \/ _finalize_external_action(r, frame[r][k].token, "outcome_unknown")
           /\ Closing(r, k, "fail_safely", "outcome_unknown")
        \/ ~Current(r, k) /\ Raise(r, k, "other")
        \/ Raise(r, k, "reconciliation_pending")
    BY Zenon, <1>3 DEF _raise_external_outcome_unknown, finalize_reconciliation_unknown
  <2>2. _finalize_external_action(r, frame[r][k].token, "outcome_unknown") =>
          action'[r].status = "outcome_unknown"
    BY Zenon, ActionWrites
    DEF ActionsSafe, ActionsInv, LedgerInv, _finalize_external_action, ExactDuplicate,
        ledgerVars, actionRows
  <2>3. "outcome_unknown" \in SafetyCode /\ "outcome_unknown" \in ActionTerminal
    BY Zenon DEF SafetyCode, ActionTerminal
  <2> QED
    BY Zenon, <2>1, <2>2, <2>3, FailSafelyTeaches, RaiseTeaches
<1>p. ASSUME pc[r][k] \in Proven
      PROVE  /\ ~frame[r][k].hosted /\ action[r].status = "succeeded"
             /\ Current(r, k) => workflow[r].status = "running"
  <2>1. Recalls(pc[r][k], frame[r][k], action[r], workflow[r].status)
    BY Zenon
  <2>2. pc[r][k] \notin Hosted /\ pc[r][k] # "idle" /\ pc[r][k] \in Working
    BY Zenon, <1>p DEF Proven, Hosted, Working
  <2>3. Current(r, k) =>
          OwnerKnows(k, pc[r][k], frame[r][k], action[r], workflow[r].status, faults)
    BY Zenon, <2>2
  <2>4. ~frame[r][k].hosted /\ action[r].status = "succeeded"
    BY Zenon, <1>p, <2>1, <2>2 DEF Recalls
  <2>5. Current(r, k) => workflow[r].status = "running"
    BY Zenon, <2>2, <2>3 DEF OwnerKnows
  <2> QED
    BY Zenon, <2>4, <2>5
<1>q. LedgerTypeOK
  BY Zenon DEF ActionsSafe, ActionsInv, LedgerInv
<1>4. CASE Evidence(r, k)
  <2>1. /\ ~frame[r][k].hosted /\ action[r].status = "succeeded"
        /\ Current(r, k) => workflow[r].status = "running"
    BY Zenon, <1>4, <1>p DEF Evidence, Proven
  <2>2. CASE Current(r, k)
    <3>1. /\ pc'[r][k] = "finalize" /\ frame'[r][k] = frame[r][k]
          /\ action' = action /\ workflow' = workflow
      BY Zenon, <1>1, <1>2, <1>4, <2>2 DEF Evidence
    <3> QED
      BY Zenon, <2>1, <3>1
      DEF Learned, Recalls, OwnerKnows, Tokened, Own, Proven, Hosted, Early, Working
  <2>3. CASE ~Current(r, k)
    BY Zenon, <1>4, <2>3, RaiseTeaches DEF Evidence
  <2> QED
    BY Zenon, <2>2, <2>3
<1>5. CASE Finalize(r, k)
  <2>1. /\ ~frame[r][k].hosted
        /\ Current(r, k) => workflow[r].status = "running"
    BY Zenon, <1>5, <1>p DEF Finalize, Proven
  <2>2. CASE _finalize_execution(r, k, "ready", "none") /\ Goto(r, k, "result")
    <3>1. pc'[r][k] = "result" /\ frame'[r][k] = frame[r][k]
      BY Zenon, <1>2, <2>2
    <3>w. \A s, code : _finalize_execution(r, k, s, code) =>
            /\ Current(r, k)
            /\ workflow'[r].status =
                 IF workflow[r].status = "running" THEN s ELSE workflow[r].status
      BY Zenon, <1>q, WorkflowWrites
    <3>2. /\ Current(r, k)
          /\ workflow'[r].status =
               IF workflow[r].status = "running" THEN "ready" ELSE workflow[r].status
      BY Zenon, <2>2, <3>w
    <3>3. workflow'[r].status = "ready"
      BY Zenon, <2>1, <3>2
    <3> QED
      BY Zenon, <2>1, <3>1, <3>3
      DEF Learned, Recalls, OwnerKnows, Tokened, Own, Proven, Hosted, Early, Working
  <2> QED
    BY Zenon, <1>5, <2>2, RaiseTeaches DEF Finalize, Fenced
<1> QED
  BY Zenon, <1>3, <1>4, <1>5

\* _fail raises what it was given: only the handlers of the runtime may see an
\* ordinary failure while a dispatch is in flight.
LEMMA FailureTeaches ==
  ASSUME ActionsSafe, NEW r \in Run, NEW k \in Attempt, faults' = faults, Fail(r, k)
  PROVE  Learned(r, k)
<1> USE AtHand
<1>1. pc[r][k] \in {"fail", "fail_safely"} /\ action' = action
  BY Zenon DEF Fail, ReadOnly, ledgerVars, actionRows
<1>2. Raise(r, k, frame[r][k].exc) \/ (~Current(r, k) /\ Raise(r, k, "other"))
  BY Zenon DEF Fail
<1>3. PICK c : c = frame[r][k].exc
  BY Zenon
<1>4. Raise(r, k, c) \/ (~Current(r, k) /\ Raise(r, k, "other"))
  BY Zenon, <1>2, <1>3 DEF Raise, GotoWith
<1>5. Current(r, k) =>
        \/ c \in SafetyCode /\ ~InFlight(action'[r])
        \/ Clear(action'[r])
        \/ c = "rejected" /\ frame[r][k].reconcile
        \/ faults' # 0 /\ ~frame[r][k].hosted
  <2>1. CASE pc[r][k] = "fail_safely"
    BY Zenon, <1>1, <1>3, <2>1 DEF Recalls, InFlight, ActionTerminal
  <2>2. CASE pc[r][k] = "fail" /\ frame[r][k].hosted
    BY Zenon, <1>1, <1>3, <2>2 DEF Recalls, OwnerKnows, SafetyCode
  <2>3. CASE pc[r][k] = "fail" /\ ~frame[r][k].hosted
    BY Zenon, <1>1, <1>3, <2>3 DEF Recalls, OwnerKnows
  <2> QED
    BY Zenon, <1>1, <2>1, <2>2, <2>3
<1> QED
  BY Zenon, <1>4, <1>5, RaiseTeaches

\* The handlers of the runtime: no exception leaves a dispatch in flight.
LEMMA HostTeaches ==
  ASSUME ActionsSafe, NEW r \in Run, NEW k \in Attempt, faults' = faults, Host(r, k)
  PROVE  Learned(r, k)
<1> USE AtHand
<1> DEFINE f == [frame[r][k] EXCEPT !.hosted = TRUE]
           g == [f EXCEPT !.token = action[r].dispatch_count]
           h == [f EXCEPT !.exc = "evidence_incomplete"]
<1>1. pc[r][k] = "host" /\ action' = action
  BY Zenon DEF Host, ReadOnly, ledgerVars, actionRows
<1>2. /\ f.hosted /\ f.exc = frame[r][k].exc /\ f.reconcile = frame[r][k].reconcile
      /\ g.token = action[r].dispatch_count
      /\ h.hosted /\ h.exc = "evidence_incomplete"
  BY DEF Frame
<1>3. \/ GotoWith(r, k, "manager", f) /\ f.exc = "reconciliation_pending"
      \/ GotoWith(r, k, "unknown_leased", g) /\ action[r].status = "dispatching"
      \/ GotoWith(r, k, "fail", h) /\ action[r].status # "dispatching"
      \/ GotoWith(r, k, "manager", f) /\ action[r].status # "dispatching"
  <2>1. CASE f.exc = "reconciliation_pending"
    BY Zenon, <2>1 DEF Host
  <2>2. CASE f.exc # "reconciliation_pending" /\ action[r].status = "dispatching"
    BY Zenon, <2>2 DEF Host
  <2>3. CASE f.exc = "other" /\ action[r].status # "dispatching"
    BY Zenon, <2>3 DEF Host
  <2>4. CASE f.exc # "reconciliation_pending" /\ f.exc # "other" /\ action[r].status # "dispatching"
    BY Zenon, <2>4 DEF Host
  <2> QED
    BY Zenon, <2>1, <2>2, <2>3, <2>4
<1>4. \/ pc'[r][k] = "manager" /\ frame'[r][k] = f /\ f.exc = "reconciliation_pending"
      \/ pc'[r][k] = "unknown_leased" /\ frame'[r][k] = g /\ action[r].status = "dispatching"
      \/ pc'[r][k] = "fail" /\ frame'[r][k] = h /\ action[r].status # "dispatching"
      \/ pc'[r][k] = "manager" /\ frame'[r][k] = f /\ action[r].status # "dispatching"
  <2>1. AttemptsOK
    BY Zenon
  <2>2. ASSUME NEW l, NEW e, GotoWith(r, k, l, e) PROVE pc'[r][k] = l /\ frame'[r][k] = e
    BY Zenon, <2>1, <2>2 DEF GotoWith, AttemptsOK
  <2> QED
    BY Zenon, <1>3, <2>2 DEF GotoWith
<1> HIDE DEF f, g, h
<1>5. CASE pc'[r][k] = "unknown_leased" /\ frame'[r][k] = g /\ action[r].status = "dispatching"
  BY Zenon, <1>1, <1>2, <1>5, RowTells, UnknownTeaches DEF InFlight
<1>6. CASE pc'[r][k] = "fail" /\ frame'[r][k] = h /\ action[r].status # "dispatching"
  BY Zenon, <1>1, <1>2, <1>6
  DEF Learned, Recalls, OwnerKnows, Tokened, Own, Proven, Hosted, Early, Working, InFlight
<1>7. CASE /\ pc'[r][k] = "manager" /\ frame'[r][k] = f
           /\ f.exc = "reconciliation_pending" \/ action[r].status # "dispatching"
  <2>1. Netted(f, action[r])
    BY Zenon, <1>7 DEF Netted, InFlight
  <2>2. Current(r, k) /\ faults = 0 => Warned(frame[r][k], action[r])
    BY Zenon, <1>1 DEF OwnerKnows
  <2>3. Warned(frame[r][k], action[r]) => Warned(f, action[r])
    BY Zenon, <1>2 DEF Warned
  <2> QED
    BY Zenon, <1>1, <1>2, <1>7, <2>1, <2>2, <2>3
    DEF Learned, Recalls, OwnerKnows, Tokened, Own, Proven, Hosted, Early, Working
<1> QED
  BY Zenon, <1>4, <1>5, <1>6, <1>7

\* The Manager's end of an attempt: a cancellation finds nothing in flight.
LEMMA EndTeaches ==
  ASSUME ActionsSafe, NEW r \in Run, NEW k \in Attempt, faults' = faults,
         Result(r, k) \/ Cancel(r, k) \/ Manager(r, k)
  PROVE  Learned(r, k)
<1> USE AtHand
<1>1. action' = action /\ workflow' = workflow
  BY Zenon DEF Result, Cancel, Manager, ledgerVars, actionRows
<1>2. ASSUME NEW l, Goto(r, k, l) PROVE pc'[r][k] = l /\ frame'[r][k] = frame[r][k]
  BY Zenon, <1>2 DEF Goto, GotoWith, AttemptsOK
<1>3. CASE Finish(r, k)
  BY Zenon, <1>3, FinishTeaches
<1>4. CASE pc[r][k] = "result" /\ Goto(r, k, "cancel_result")
  <2>1. /\ ~frame[r][k].hosted /\ workflow[r].status = "ready"
        /\ pc'[r][k] = "cancel_result" /\ frame'[r][k] = frame[r][k]
    BY Zenon, <1>2, <1>4 DEF Recalls, Hosted
  <2> QED
    BY Zenon, <1>1, <2>1
    DEF Learned, Recalls, OwnerKnows, Tokened, Own, Proven, Hosted, Early, Working
<1>5. CASE /\ pc[r][k] = "manager" /\ Goto(r, k, "cancel")
           /\ frame[r][k].exc \notin SafetyCode
           /\ frame[r][k].exc # "reconciliation_pending"
           /\ ~(frame[r][k].reconcile /\ frame[r][k].exc \notin ResolutionCode)
  <2>1. pc'[r][k] = "cancel" /\ frame'[r][k] = frame[r][k]
    BY Zenon, <1>2, <1>5
  <2>2. "rejected" \notin ResolutionCode
    BY Zenon DEF ResolutionCode, SafetyCode
  <2>3. Current(r, k) /\ faults = 0 => Clear(action[r])
    BY Zenon, <1>5, <2>2 DEF OwnerKnows, Warned
  <2>4. Current(r, k) /\ faults <= 1 => ~InFlight(action[r])
    BY Zenon, <1>5 DEF OwnerKnows, Netted
  <2> QED
    BY Zenon, <1>1, <2>1, <2>3, <2>4
    DEF Learned, Recalls, OwnerKnows, Tokened, Own, Proven, Hosted, Early, Working
<1> QED
  BY Zenon, <1>3, <1>4, <1>5 DEF Result, Cancel, Manager, LeaseLost

\* Every undisturbed step of an attempt leaves it with what its new place says.
LEMMA LocalTeaches ==
  ASSUME ActionsSafe, NEW r \in Run, NEW k \in Attempt, faults' = faults, Local(r, k)
  PROVE  Learned(r, k)
BY Zenon, BoundaryTeaches, OpenTeaches, EntryTeaches, StepTeaches, PrepareTeaches,
   DispatchingTeaches, AnswerTeaches, SettlingTeaches, FailureTeaches, HostTeaches, EndTeaches
DEF Local

\* A request is sent for the dispatch that the attempt owns.
LEMMA SendTeaches ==
  ASSUME ActionsSafe, NEW r \in Run, NEW k \in Attempt, faults' = faults, Send(r, k)
  PROVE  Learned(r, k)
<1> USE AtHand
<1>1. pc[r][k] = "send" /\ action' = action /\ workflow' = workflow
  BY Zenon DEF Send, ReadOnly, ledgerVars, actionRows
<1>2. ~frame[r][k].hosted /\ frame[r][k].token \in 1 .. action[r].dispatch_count
  BY Zenon, <1>1 DEF Recalls, Hosted, Tokened, Own
<1>3. Current(r, k) =>
        /\ InFlight(action[r]) /\ frame[r][k].token = action[r].dispatch_count
        /\ workflow[r].status = "running"
  BY Zenon, <1>1 DEF OwnerKnows, Own, Working
<1>4. ASSUME NEW l, Goto(r, k, l) PROVE pc'[r][k] = l /\ frame'[r][k] = frame[r][k]
  BY Zenon, <1>4 DEF Goto, GotoWith, AttemptsOK
<1>5. CASE ~Current(r, k) /\ Raise(r, k, "other")
  BY Zenon, <1>5, RaiseTeaches
<1>6. CASE Goto(r, k, "unknown_leased")
  BY Zenon, <1>1, <1>2, <1>4, <1>6, UnknownTeaches
<1>7. CASE Goto(r, k, "await")
  <2>1. pc'[r][k] = "await" /\ frame'[r][k] = frame[r][k]
    BY Zenon, <1>4, <1>7
  <2> QED
    BY Zenon, <1>1, <1>2, <1>3, <2>1
    DEF Learned, Recalls, OwnerKnows, Tokened, Own, Proven, Hosted, Early, Working
<1> QED
  BY Zenon, <1>5, <1>6, <1>7 DEF Send

\* A store exception ends in a handler that leaves the Run to the next attempt or
\* finds nothing in flight.  Only a second one can slip through.
LEMMA FaultTeaches ==
  ASSUME ActionsSafe, NEW r \in Run, NEW k \in Attempt, StoreFault(r, k)
  PROVE  Learned(r, k)
<1> USE AtHand
<1>1. action' = action /\ workflow' = workflow /\ faults' = faults + 1 /\ Faulted(r, k)
  BY Zenon DEF StoreFault, ledgerVars, actionRows
<1>2. faults' # 0 /\ (faults' <= 1 => faults = 0)
  BY <1>1 DEF ActionsSafe
<1>3. /\ pc[r][k] \in Label \ {"idle", "done", "recover", "await"}
      /\ ~(pc[r][k] = "host" /\ frame[r][k].exc = "reconciliation_pending")
  BY Zenon DEF StoreFault, Busy, AttemptsOK
<1>4. ASSUME NEW l, Goto(r, k, l) PROVE pc'[r][k] = l /\ frame'[r][k] = frame[r][k]
  BY Zenon, <1>4 DEF Goto, GotoWith, AttemptsOK
<1>5. pc[r][k] \notin Hosted => ~frame[r][k].hosted
  BY Zenon DEF Recalls
<1>6. CASE pc[r][k] \in {"mark", "resolve", "step", "claim", "begin", "retry", "send",
                         "retry_ambiguous", "restore", "finalize"}
  <2>1. Raise(r, k, "other") /\ pc[r][k] \notin Hosted
    BY Zenon, <1>1, <1>6 DEF Faulted, Hosted
  <2> QED
    BY Zenon, <1>2, <1>5, <2>1, RaiseTeaches
<1>7. CASE pc[r][k] = "fail"
  <2>1. Raise(r, k, "other")
    BY Zenon, <1>1, <1>7 DEF Faulted
  <2>2. Current(r, k) /\ frame[r][k].hosted => ~InFlight(action'[r])
    BY Zenon, <1>1, <1>7 DEF OwnerKnows
  <2> QED
    BY Zenon, <1>2, <2>1, <2>2, RaiseTeaches
<1>8. CASE pc[r][k] = "open"
  <2>1. Raise(r, k, "other") \/ Escape(r, k)
    BY Zenon, <1>1, <1>8 DEF Faulted
  <2>2. Current(r, k) => frame[r][k].reconcile \/ ~InFlight(action'[r])
    BY Zenon, <1>1, <1>8, RowTells DEF OwnerKnows, Early, Dispatched
  <2>3. ~frame[r][k].hosted
    BY Zenon, <1>5, <1>8 DEF Hosted
  <2> QED
    BY Zenon, <1>2, <2>1, <2>2, <2>3, RaiseTeaches, EscapeTeaches
<1>9. CASE pc[r][k] = "prepare"
  <2>1. Raise(r, k, "reconciliation_pending") \/ Closing(r, k, "fail", "rejected")
    BY Zenon, <1>1, <1>9 DEF Faulted, PrepareFailed
  <2>2. ~frame[r][k].hosted
    BY Zenon, <1>5, <1>9 DEF Hosted
  <2> QED
    BY Zenon, <1>2, <2>1, <2>2, RaiseTeaches, FailTeaches
<1>10. CASE pc[r][k] \in {"succeeded", "failed"}
  <2>1. pc'[r][k] = "unknown" /\ frame'[r][k] = frame[r][k]
    BY Zenon, <1>1, <1>4, <1>10 DEF Faulted
  <2>2. ~frame[r][k].hosted /\ frame[r][k].token \in 1 .. action[r].dispatch_count
    BY Zenon, <1>10 DEF Recalls, Hosted, Tokened, Own
  <2>3. Current(r, k) => InFlight(action[r]) /\ frame[r][k].token = action[r].dispatch_count
    BY Zenon, <1>10 DEF OwnerKnows, Own
  <2> QED
    BY Zenon, <1>1, <1>10, <2>1, <2>2, <2>3
    DEF Learned, Recalls, OwnerKnows, Tokened, Own, Proven, Hosted, Early, Working
<1>11. CASE pc[r][k] \in {"unknown", "unknown_leased"}
  <2>1. Raise(r, k, "reconciliation_pending")
    BY Zenon, <1>1, <1>11 DEF Faulted
  <2> QED
    BY Zenon, <2>1, RaiseTeaches
<1>12. CASE pc[r][k] = "evidence"
  <2>1. pc'[r][k] = "evidence_again" /\ frame'[r][k] = frame[r][k]
    BY Zenon, <1>1, <1>4, <1>12 DEF Faulted
  <2>2. /\ ~frame[r][k].hosted /\ action[r].status = "succeeded"
        /\ Current(r, k) => workflow[r].status = "running"
    BY Zenon, <1>12 DEF Recalls, Hosted, Proven, OwnerKnows, Working
  <2> QED
    BY Zenon, <1>1, <2>1, <2>2
    DEF Learned, Recalls, OwnerKnows, Tokened, Own, Proven, Hosted, Early, Working
<1>13. CASE pc[r][k] = "evidence_again"
  <2>1. Raise(r, k, "evidence_incomplete") /\ "evidence_incomplete" \in SafetyCode
    BY Zenon, <1>1, <1>13 DEF Faulted, SafetyCode
  <2>2. ~InFlight(action'[r])
    BY Zenon, <1>1, <1>13 DEF Recalls, Proven, InFlight
  <2> QED
    BY Zenon, <2>1, <2>2, RaiseTeaches
<1>14. CASE pc[r][k] = "fail_safely"
  <2>1. PICK c : c = frame[r][k].exc
    BY Zenon
  <2>2. Raise(r, k, c)
    BY Zenon, <1>1, <1>14, <2>1 DEF Faulted, Raise, GotoWith
  <2>3. c \in SafetyCode /\ ~InFlight(action'[r])
    BY Zenon, <1>1, <1>14, <2>1 DEF Recalls, InFlight, ActionTerminal
  <2> QED
    BY Zenon, <2>2, <2>3, RaiseTeaches
<1>15. CASE pc[r][k] = "host"
  <2>1. Escape(r, k)
    BY Zenon, <1>1, <1>15 DEF Faulted
  <2>2. Current(r, k) /\ faults = 0 => frame[r][k].reconcile \/ ~InFlight(action'[r])
    BY Zenon, <1>1, <1>3, <1>15 DEF OwnerKnows, Warned, Clear, InFlight
  <2> QED
    BY Zenon, <1>2, <2>1, <2>2, EscapeTeaches
<1>16. CASE pc[r][k] \in {"result", "cancel_result"}
  <2>1. Escape(r, k)
    BY Zenon, <1>1, <1>16 DEF Faulted
  <2>2. workflow[r].status = "ready"
    BY Zenon, <1>16 DEF Recalls
  <2>3. ~InFlight(action'[r])
    BY Zenon, <1>1, <2>2 DEF ActionsSafe, EndsOK, InFlight
  <2> QED
    BY Zenon, <1>2, <2>1, <2>3, EscapeTeaches
<1>17. CASE pc[r][k] \in {"boundary", "cancel", "manager"}
  <2>1. Finish(r, k)
    BY Zenon, <1>1, <1>17 DEF Faulted
  <2> QED
    BY Zenon, <2>1, FinishTeaches
<1> QED
  BY Zenon, <1>3, <1>6, <1>7, <1>8, <1>9, <1>10, <1>11, <1>12, <1>13, <1>14, <1>15, <1>16, <1>17
  DEF Label

-----------------------------------------------------------------------------
(* What a step does to the rows. *)

Prepares(r) ==
  /\ action[r].status = "none" /\ action'[r].status = "prepared"
  /\ action'[r].dispatch_count = action[r].dispatch_count

Dispatches(r) ==
  /\ action[r].status \in {"prepared", "dispatching"} /\ action'[r].status = "dispatching"
  /\ action'[r].dispatch_count = action[r].dispatch_count + 1
  /\ action'[r].provider = action[r].provider
  /\ action[r].dispatch_count < max_dispatches /\ action[r].dispatch_count < MaxDispatches

Settles(r) ==
  /\ InFlight(action[r]) /\ action'[r].status \in ActionTerminal
  /\ action'[r].dispatch_count = action[r].dispatch_count
  /\ action'[r].provider = action[r].provider
  /\ action'[r].status = "succeeded" => applied[r] # {}
  /\ action'[r].status = "failed" => refused[r] # {}

\* Attempt k of Run r writes the rows of its own Run only, and without the lease
\* it can only settle a dispatch of its own.
Writes(r, k) ==
  /\ \A q \in Run \ {r} : action'[q] = action[q] /\ workflow'[q] = workflow[q]
  /\ retry_mode' = retry_mode
  /\ \/ action'[r] = action[r]
     \/ Current(r, k) /\ (Prepares(r) \/ Dispatches(r))
     \/ /\ Settles(r)
        /\ \/ Current(r, k)
           \/ pc[r][k] \in Own /\ frame[r][k].token = action[r].dispatch_count
  /\ workflow'[r].status = workflow[r].status \/ Current(r, k)
  /\ workflow[r].status = "ready" => workflow'[r].status = "ready"
  /\ workflow'[r].status = "ready" =>
       workflow[r].status = "ready" \/ action'[r].status = "succeeded"

\* A step that leaves the ledger alone writes nothing.
LEMMA NothingWritten ==
  ASSUME UNCHANGED ledgerVars, NEW r \in Run, NEW k
  PROVE  Writes(r, k)
BY Zenon DEF Writes, ledgerVars, actionRows

\* Writes of the workflow row.
LEMMA WorkflowWritten ==
  ASSUME ActionsSafe, NEW r \in Run, NEW k \in Attempt, UNCHANGED actionRows,
         \/ create_or_get_execution(r, k, ActionInput)
         \/ mark_running(r, k)
         \/ \E code : _finalize_execution(r, k, "failed", code)
         \/ _finalize_execution(r, k, "ready", "none") /\ action[r].status = "succeeded"
  PROVE  Writes(r, k)
<1>1. LedgerTypeOK /\ action' = action /\ retry_mode' = retry_mode
  BY Zenon DEF ActionsSafe, ActionsInv, LedgerInv, actionRows
<1>2. Current(r, k) /\ \A q \in Run \ {r} : workflow'[q] = workflow[q]
  BY Zenon, <1>1, WorkflowWrites
<1>3. /\ workflow[r].status = "ready" => workflow'[r].status = "ready"
      /\ workflow'[r].status = "ready" =>
           workflow[r].status = "ready" \/ action[r].status = "succeeded"
  <2>1. CASE create_or_get_execution(r, k, ActionInput)
    <3>1. workflow'[r].status =
            IF workflow[r].status = "none" THEN "pending" ELSE workflow[r].status
      BY Zenon, <1>1, <2>1, WorkflowWrites
    <3> QED
      BY Zenon, <3>1
  <2>2. CASE mark_running(r, k)
    <3>1. workflow'[r].status = "running" /\ workflow[r].status = "pending"
      BY Zenon, <1>1, <2>2, WorkflowWrites DEF mark_running
    <3> QED
      BY Zenon, <3>1
  <2>3. ASSUME NEW code, _finalize_execution(r, k, "failed", code)
        PROVE  /\ workflow[r].status = "ready" => workflow'[r].status = "ready"
               /\ workflow'[r].status = "ready" => workflow[r].status = "ready"
    <3>1. workflow'[r].status =
            IF workflow[r].status = "running" THEN "failed" ELSE workflow[r].status
      BY Zenon, <1>1, <2>3, WorkflowWrites
    <3> QED
      BY Zenon, <3>1
  <2>4. CASE _finalize_execution(r, k, "ready", "none") /\ action[r].status = "succeeded"
    <3>1. workflow'[r].status =
            IF workflow[r].status = "running" THEN "ready" ELSE workflow[r].status
      BY Zenon, <1>1, <2>4, WorkflowWrites
    <3> QED
      BY Zenon, <2>4, <3>1
  <2> QED
    BY Zenon, <2>1, <2>2, <2>3, <2>4
<1> QED
  BY Zenon, <1>1, <1>2, <1>3 DEF Writes

\* Writes of the action row that keep the workflow.
LEMMA ActionWritten ==
  ASSUME ActionsSafe, NEW r \in Run, NEW k \in Attempt, workflow' = workflow,
         retry_mode' = retry_mode, \A q \in Run \ {r} : action'[q] = action[q],
         \/ action'[r] = action[r]
         \/ Current(r, k) /\ (Prepares(r) \/ Dispatches(r))
         \/ /\ Settles(r)
            /\ \/ Current(r, k)
               \/ pc[r][k] \in Own /\ frame[r][k].token = action[r].dispatch_count
  PROVE  Writes(r, k)
BY Zenon DEF Writes

\* Every undisturbed step of an attempt writes that way.
LEMMA LocalWrites ==
  ASSUME ActionsSafe, NEW r \in Run, NEW k \in Attempt, Local(r, k)
  PROVE  Writes(r, k)
<1> USE AtHand
<1>t. LedgerTypeOK
  BY Zenon DEF ActionsSafe, ActionsInv, LedgerInv
<1>1. ReadOnly => Writes(r, k)
  BY Zenon, NothingWritten DEF ReadOnly
<1>2. CASE \/ Boundary(r, k) \/ Resolve(r, k) \/ Host(r, k) \/ Step(r, k)
           \/ _recover_external_dispatch(r, k) \/ Restore(r, k) \/ Answered(r, k)
           \/ Ambiguous(r, k) \/ Evidence(r, k)
  BY Zenon, <1>1, <1>2 DEF Boundary, Resolve, Host, Step, _recover_external_dispatch, Restore,
     Answered, Ambiguous, Evidence
<1>3. CASE Open(r, k) \/ Mark(r, k)
  BY Zenon, <1>1, <1>3, WorkflowWritten DEF Open, Mark, Fenced
<1>4. CASE Finalize(r, k)
  <2>1. action[r].status = "succeeded"
    BY Zenon, <1>4 DEF Finalize, Recalls, Proven
  <2> QED
    BY Zenon, <1>1, <1>4, <2>1, WorkflowWritten DEF Finalize, Fenced
<1>5. CASE Fail(r, k)
  <2>1. \/ ReadOnly
        \/ \E code : _finalize_execution(r, k, "failed", code) /\ UNCHANGED actionRows
    BY Zenon, <1>5 DEF Fail
  <2> QED
    BY Zenon, <1>1, <2>1, WorkflowWritten
<1>6. CASE ClaimStep(r, k)
  <2>1. CASE claim_step(r, k)
    BY Zenon, <2>1, ActionWritten DEF claim_step
  <2> QED
    BY Zenon, <1>1, <1>6, <2>1 DEF ClaimStep, Fenced
<1>7. CASE Prepare(r, k)
  <2>1. PICK p : p = frame[r][k].identity
    BY Zenon
  <2>2. ReadOnly \/ prepare_external_action(r, k, p)
    BY Zenon, <1>7, <2>1 DEF Prepare, prepare_external_action
  <2>3. ASSUME prepare_external_action(r, k, p) PROVE Writes(r, k)
    <3>1. /\ action'[r].status =
               IF action[r].status = "none" THEN "prepared" ELSE action[r].status
          /\ action'[r].dispatch_count = action[r].dispatch_count
          /\ action[r].status # "none" => action' = action
          /\ \A q \in Run \ {r} : action'[q] = action[q]
      BY Zenon, <1>t, <2>3, ActionWrites
    <3>2. Current(r, k) /\ workflow' = workflow /\ retry_mode' = retry_mode
      BY Zenon, <2>3 DEF prepare_external_action, Current
    <3>3. action'[r] = action[r] \/ Prepares(r)
      BY Zenon, <3>1 DEF Prepares
    <3> QED
      BY Zenon, <3>1, <3>2, <3>3, ActionWritten
  <2> QED
    BY Zenon, <1>1, <2>2, <2>3
<1>8. ASSUME Redispatch(r), Current(r, k), action[r].status \in {"prepared", "dispatching"},
             action[r].dispatch_count < max_dispatches, action[r].dispatch_count < MaxDispatches
      PROVE  Writes(r, k)
  <2>1. /\ action'[r].status = "dispatching"
        /\ action'[r].dispatch_count = action[r].dispatch_count + 1
        /\ action'[r].provider = action[r].provider
        /\ \A q \in Run \ {r} : action'[q] = action[q]
    BY Zenon, <1>t, <1>8, ActionWrites
  <2>2. workflow' = workflow /\ retry_mode' = retry_mode /\ Dispatches(r)
    BY Zenon, <1>8, <2>1 DEF Redispatch, Dispatches
  <2> QED
    BY Zenon, <1>8, <2>1, <2>2, ActionWritten
<1>9. CASE Begin(r, k)
  <2>1. ASSUME begin_external_action_dispatch(r, k) PROVE Writes(r, k)
    <3>1. Redispatch(r) /\ Current(r, k) /\ action[r].status = "prepared"
      BY Zenon, <2>1 DEF begin_external_action_dispatch, Current
    <3>2. ~Dispatched(r)
      BY Zenon, <3>1 DEF ActionsSafe, ActionsInv, LedgerInv, StepAgreesWithAction
    <3>3. action[r].dispatch_count < max_dispatches /\ action[r].dispatch_count < MaxDispatches
      BY <3>2, ActionsAssumption, LedgerAssumption DEF Dispatched
    <3> QED
      BY Zenon, <1>8, <3>1, <3>3
  <2> QED
    BY Zenon, <1>1, <1>9, <2>1 DEF Begin
<1>10. CASE Retry(r, k)
  <2>1. PICK d : d = frame[r][k].token
    BY Zenon
  <2>2. ReadOnly \/ retry_external_action_dispatch(r, k, d)
    BY Zenon, <1>10, <2>1 DEF Retry, retry_external_action_dispatch
  <2>3. ASSUME retry_external_action_dispatch(r, k, d) PROVE Writes(r, k)
    <3>1. /\ Redispatch(r) /\ Current(r, k) /\ action[r].status = "dispatching"
          /\ action[r].dispatch_count = d /\ d < MaxDispatches
      BY Zenon, <2>3 DEF retry_external_action_dispatch, Current
    <3>2. d < max_dispatches
      BY Zenon, <1>10, <2>1 DEF Retry, Recalls
    <3> QED
      BY Zenon, <1>8, <3>1, <3>2
  <2> QED
    BY Zenon, <1>1, <2>2, <2>3
<1>11. ASSUME NEW d, NEW s \in ActionTerminal, _finalize_external_action(r, d, s),
              s = "succeeded" => applied[r] # {}, s = "failed" => refused[r] # {},
              Current(r, k) \/ (pc[r][k] \in Own /\ frame[r][k].token = d)
       PROVE  Writes(r, k)
  <2>1. CASE Settle(r, d, s)
    <3>1. /\ action'[r].status = s
          /\ action'[r].dispatch_count = action[r].dispatch_count
          /\ action'[r].provider = action[r].provider
          /\ \A q \in Run \ {r} : action'[q] = action[q]
      BY Zenon, <1>t, <2>1, ActionWrites
    <3>2. /\ workflow' = workflow /\ retry_mode' = retry_mode
          /\ InFlight(action[r]) /\ action[r].dispatch_count = d
      BY Zenon, <2>1 DEF Settle, HoldsDispatch, InFlight
    <3>3. Settles(r)
      BY Zenon, <1>11, <3>1, <3>2 DEF Settles
    <3> QED
      BY Zenon, <1>11, <3>1, <3>2, <3>3, ActionWritten
  <2> QED
    BY Zenon, <1>11, <2>1, NothingWritten DEF _finalize_external_action
<1>12. CASE Record(r, k)
  <2>1. PICK d, s : d = frame[r][k].token /\ s = pc[r][k]
    BY Zenon
  <2>2. ReadOnly \/ _finalize_external_action(r, d, s)
    BY Zenon, <1>12, <2>1 DEF Record, _finalize_external_action, Settle, ExactDuplicate
  <2>3. s \in ActionTerminal /\ pc[r][k] \in Own
    BY Zenon, <1>12, <2>1 DEF Record, ActionTerminal, Own
  <2>4. (s = "succeeded" => applied[r] # {}) /\ (s = "failed" => refused[r] # {})
    BY Zenon, <2>1 DEF ActionsSafe, EffectsOK, Outcomes
  <2> QED
    BY Zenon, <1>1, <1>11, <2>1, <2>2, <2>3, <2>4
<1>13. CASE _raise_external_outcome_unknown(r, k)
  <2>1. PICK d : d = frame[r][k].token
    BY Zenon
  <2>2. \/ ReadOnly
        \/ /\ _finalize_external_action(r, d, "outcome_unknown")
           /\ Current(r, k) \/ pc[r][k] = "unknown"
    BY Zenon, <1>13, <2>1
    DEF _raise_external_outcome_unknown, finalize_reconciliation_unknown, Current,
        _finalize_external_action, Settle, HoldsDispatch, ExactDuplicate
  <2>3. "outcome_unknown" \in ActionTerminal /\ "unknown" \in Own
    BY Zenon DEF ActionTerminal, Own
  <2> QED
    BY Zenon, <1>1, <1>11, <2>1, <2>2, <2>3
<1>14. CASE Result(r, k) \/ Cancel(r, k) \/ Manager(r, k)
  BY Zenon, <1>14, NothingWritten DEF Result, Cancel, Manager
<1> QED
  BY Zenon, <1>2, <1>3, <1>4, <1>5, <1>6, <1>7, <1>9, <1>10, <1>12, <1>13, <1>14 DEF Local

-----------------------------------------------------------------------------
(* How knowledge, dispatches, effects and ends go on. *)

\* The clock of this system stands still.
LEMMA ClockStands ==
  ASSUME [ActionsNext]_actionVars
  PROVE  now' = now
<1> USE DEF vars
<1>1. CASE UNCHANGED actionVars
  BY Zenon, <1>1 DEF actionVars
<1>2. ASSUME NEW r \in Run, Client(r) PROVE now' = now
  BY Zenon, <1>2 DEF Client, create_run_with_event, _insert_run, request_cancel_atomically,
     finalize_next_queued_cancellation, _terminalize
<1>3. ASSUME NEW r \in Run, ClaimNext(r) PROVE now' = now
  BY Zenon, <1>3 DEF ClaimNext, Claim, claim_next_run, Lease
<1>4. ASSUME NEW r \in Run, Drift(r) \/ Deliver(r) PROVE now' = now
  BY Zenon, <1>4 DEF Drift, Deliver
<1>5. ASSUME NEW r \in Run, NEW k \in Attempt, Crash(r, k) \/ StoreFault(r, k) \/ Lapse(r, k)
      PROVE  now' = now
  BY Zenon, <1>5 DEF Crash, StoreFault, Lapse, expire_run_lease
<1>6. ASSUME NEW r \in Run, NEW k \in Attempt, Work(r, k) PROVE now' = now
  <2> USE DEF ReadOnly
  <2>1. CASE Send(r, k)
    BY Zenon, <2>1 DEF Send
  <2>2. CASE \/ Boundary(r, k) \/ Resolve(r, k) \/ Host(r, k) \/ Step(r, k)
             \/ _recover_external_dispatch(r, k) \/ Restore(r, k) \/ Answered(r, k)
             \/ Ambiguous(r, k) \/ Evidence(r, k)
    BY Zenon, <2>2 DEF Boundary, Resolve, Host, Step, _recover_external_dispatch, Restore,
       Answered, Ambiguous, Evidence
  <2>3. CASE Open(r, k) \/ Mark(r, k) \/ Finalize(r, k) \/ Fail(r, k)
    BY Zenon, <2>3 DEF Open, Mark, Finalize, Fail, Fenced, create_or_get_execution, mark_running,
       _finalize_execution
  <2>4. CASE ClaimStep(r, k) \/ Prepare(r, k) \/ Begin(r, k) \/ Retry(r, k)
    BY Zenon, <2>4 DEF ClaimStep, Fenced, claim_step, Prepare, prepare_external_action, Begin,
       begin_external_action_dispatch, Retry, retry_external_action_dispatch, Redispatch
  <2>5. CASE Record(r, k) \/ _raise_external_outcome_unknown(r, k)
    BY Zenon, <2>5 DEF Record, _raise_external_outcome_unknown, finalize_reconciliation_unknown,
       _finalize_external_action, Settle
  <2>6. CASE Result(r, k) \/ Cancel(r, k) \/ Manager(r, k)
    BY Zenon, <2>6 DEF Result, Cancel, Manager, LeaseLost, commit_completed_run, SaveCheckpoint,
       RejectStaleResult, _fail_checkpoint_conflict, commit_cancelled_run, commit_failed_run,
       commit_reconciliation_pending, _terminalize
  <2> QED
    BY Zenon, <1>6, <2>1, <2>2, <2>3, <2>4, <2>5, <2>6 DEF Work, Local
<1> QED
  BY Zenon, <1>1, <1>2, <1>3, <1>4, <1>5, <1>6 DEF ActionsNext

\* Every step is a step of the Run store and keeps the types.
LEMMA StoreSteps ==
  ASSUME ActionsSafe, [ActionsNext]_actionVars
  PROVE  TypeOK /\ RowsOK /\ [Next]_vars /\ ActionsInv'
BY Zenon, StepsAreLedgerSteps, LedgerStepKeeps, ActionsStep DEF ActionsSafe, ActionsInv

\* A claimed attempt never gets its lease back.
LEMMA CurrentStays ==
  ASSUME ActionsSafe, [ActionsNext]_actionVars, NEW q \in Run, NEW j \in Attempt,
         pc[q][j] # "idle", Current(q, j)'
  PROVE  Current(q, j)
<1>1. TypeOK /\ [Next]_vars /\ now' = now
  BY Zenon, StoreSteps, ClockStands
<1>2. j \in Nat /\ j <= attempt[q]
  <2>1. j <= attempt[q]
    BY Zenon DEF ActionsSafe, ActionsInv, AttemptsOK
  <2> QED
    BY <2>1 DEF Attempt
<1>3. attempt[q] \in Nat /\ now \in Int /\ lease_expires_at[q] \in Int
  BY <1>1, RunStoreAssumption DEF TypeOK
<1>4. /\ status'[q] = "running" /\ lease_token'[q] = j
      /\ lease_expires_at'[q] > now
  BY Zenon, <1>1 DEF Current, assert_current_run_lease, CurrentLease
<1>5. Untouched(q) \/ Leased(q) \/ Kept(q) \/ Ended(q) \/ Noted(q)
  BY Zenon, <1>1, RowShape
<1>6. CASE Untouched(q) \/ Noted(q)
  BY Zenon, <1>4, <1>6 DEF Untouched, Noted, Current, assert_current_run_lease, CurrentLease
<1>7. CASE Leased(q)
  BY <1>2, <1>3, <1>4, <1>7 DEF Leased
<1>8. CASE Kept(q)
  <2>1. lease_token[q] = j /\ status[q] = "running"
    BY Zenon, <1>4, <1>8 DEF Kept
  <2>2. lease_expires_at[q] > now
    BY <1>3, <1>4, <1>8 DEF Kept, LiveLease
  <2> QED
    BY Zenon, <2>1, <2>2 DEF Current, assert_current_run_lease, CurrentLease
<1>9. CASE Ended(q)
  BY Zenon, <1>4, <1>9 DEF Ended, Terminal
<1> QED
  BY Zenon, <1>5, <1>6, <1>7, <1>8, <1>9

\* An attempt whose rows are left alone knows what it knew.
LEMMA KnowsUnwritten ==
  ASSUME ActionsSafe, [ActionsNext]_actionVars, faults' \in Nat, faults <= faults',
         NEW q \in Run, NEW j \in Attempt,
         pc'[q][j] = pc[q][j], frame'[q][j] = frame[q][j],
         action'[q] = action[q], workflow'[q] = workflow[q]
  PROVE  Knows(q, j)'
<1>1. PICK l, f, a, w : l = pc[q][j] /\ f = frame[q][j] /\ a = action[q] /\ w = workflow[q].status
  BY Zenon
<1>2. Recalls(l, f, a, w) /\ (l # "idle" /\ Current(q, j) => OwnerKnows(j, l, f, a, w, faults))
  BY Zenon, <1>1, AtHand
<1>3. l # "idle" /\ Current(q, j)' => Current(q, j)
  BY Zenon, <1>1, CurrentStays
<1>4. ASSUME OwnerKnows(j, l, f, a, w, faults) PROVE OwnerKnows(j, l, f, a, w, faults')
  <2>1. PICK n \in Nat, m \in Nat : n = faults /\ m = faults'
    BY Zenon DEF ActionsSafe
  <2> QED
    BY Zenon, <1>4, <2>1, OwnerKnowsStill
<1>5. pc'[q][j] = l /\ frame'[q][j] = f /\ action'[q] = a /\ workflow'[q].status = w
  BY Zenon, <1>1
<1> QED
  BY Zenon, <1>2, <1>3, <1>4, <1>5 DEF Knows

\* Whatever another attempt writes, an attempt recalls what it recalled and, if it
\* holds the lease, knows what it knew.
LEMMA KnowsStill ==
  ASSUME ActionsSafe, [ActionsNext]_actionVars, faults' \in Nat, faults <= faults',
         NEW q \in Run, NEW j \in Attempt, NEW r \in Run, NEW k \in Attempt,
         ~(q = r /\ j = k), Writes(r, k),
         pc'[q][j] = pc[q][j], frame'[q][j] = frame[q][j]
  PROVE  Knows(q, j)'
<1>1. CASE q # r
  BY Zenon, <1>1, KnowsUnwritten DEF Writes
<1>2. CASE q = r
  <2>1. PICK l, f, a, b, v, w :
          /\ l = pc[q][j] /\ f = frame[q][j] /\ a = action[q] /\ b = action'[q]
          /\ v = workflow[q].status /\ w = workflow'[q].status
    BY Zenon
  <2>2. Recalls(l, f, a, v) /\ (l # "idle" /\ Current(q, j) => OwnerKnows(j, l, f, a, v, faults))
    BY Zenon, <2>1, AtHand
  <2>3. a.dispatch_count \in Nat /\ b.dispatch_count \in Nat
    BY Zenon, <2>1, StoreSteps DEF ActionsSafe, ActionsInv, LedgerInv, LedgerTypeOK
  <2>4. /\ b.dispatch_count = a.dispatch_count \/ b.dispatch_count = a.dispatch_count + 1
        /\ a.status \in ActionTerminal => b.status = a.status
        /\ v = "ready" => w = "ready"
    BY Zenon, <1>2, <2>1 DEF Writes, Prepares, Dispatches, Settles, InFlight, ActionTerminal
  <2>5. a.dispatch_count <= b.dispatch_count
    BY <2>3, <2>4
  <2>6. Recalls(l, f, b, w)
    BY Zenon, <2>2, <2>3, <2>4, <2>5, RecallsStay
  <2>7. ASSUME l # "idle", Current(q, j)' PROVE OwnerKnows(j, l, f, b, w, faults')
    <3>1. Current(q, j)
      BY Zenon, <2>1, <2>7, CurrentStays
    <3>2. ~Current(r, k)
      BY Zenon, <1>2, <3>1 DEF Current, assert_current_run_lease, CurrentLease
    <3>3. /\ w = v
          /\ \/ b = a
             \/ /\ InFlight(a) /\ b.status \in ActionTerminal
                /\ b.dispatch_count = a.dispatch_count
                /\ pc[r][k] \in Own /\ frame[r][k].token = a.dispatch_count
      BY Zenon, <1>2, <2>1, <3>2 DEF Writes, Settles
    <3>4. OwnerKnows(j, l, f, a, v, faults)
      BY Zenon, <2>2, <2>7, <3>1
    <3>5. l \in Own => f.token = a.dispatch_count
      BY Zenon, <3>4 DEF OwnerKnows
    <3>6. l \in Own => b.status = a.status
      BY Zenon, <1>2, <2>1, <3>3, <3>5 DEF ActionsSafe, TokensApart
    <3>7. PICK n \in Nat, m \in Nat : n = faults /\ m = faults'
      BY Zenon DEF ActionsSafe
    <3>8. /\ b.dispatch_count = a.dispatch_count
          /\ b.status = a.status \/ (InFlight(a) /\ b.status \in ActionTerminal)
      BY Zenon, <3>3
    <3> QED
      BY Zenon, <3>3, <3>4, <3>6, <3>7, <3>8, OwnerKnowsStill
  <2>8. pc'[q][j] = l /\ frame'[q][j] = f /\ action'[q] = b /\ workflow'[q].status = w
    BY Zenon, <2>1
  <2> QED
    BY Zenon, <2>6, <2>7, <2>8 DEF Knows
<1> QED
  BY Zenon, <1>1, <1>2

\* A step of an attempt: what it learned, what it wrote, who stood by.
Steps(r, k) ==
  /\ pc[r][k] # "idle" /\ Learned(r, k) /\ Writes(r, k)
  /\ \A q \in Run, j \in Attempt :
       ~(q = r /\ j = k) => pc'[q][j] = pc[q][j] /\ frame'[q][j] = frame[q][j]
  /\ faults' \in Nat /\ faults <= faults'

\* Every step of an attempt is such a step, disturbed or not.
LEMMA AttemptSteps ==
  ASSUME ActionsSafe, NEW r \in Run, NEW k \in Attempt,
         Work(r, k) \/ Crash(r, k) \/ StoreFault(r, k)
  PROVE  Steps(r, k)
<1>1. pc[r][k] # "idle" /\ Moved(r, k)
  BY Zenon, LocalMoves, OtherMoves DEF ActionsSafe, Work
<1>2. \A q \in Run, j \in Attempt :
        ~(q = r /\ j = k) => pc'[q][j] = pc[q][j] /\ frame'[q][j] = frame[q][j]
  <2>1. PICK l \in Label, f \in Frame : GotoWith(r, k, l, f)
    BY Zenon, <1>1 DEF Moved
  <2>2. AttemptsOK
    BY Zenon DEF ActionsSafe, ActionsInv
  <2> SUFFICES ASSUME NEW q \in Run, NEW j \in Attempt, ~(q = r /\ j = k)
               PROVE  pc'[q][j] = pc[q][j] /\ frame'[q][j] = frame[q][j]
    BY Zenon
  <2> QED
    BY Zenon, <2>1, <2>2 DEF GotoWith, AttemptsOK
<1>3. CASE Work(r, k)
  <2>1. faults' = faults
    BY Zenon, <1>3 DEF Work, worldVars
  <2>2. faults' \in Nat /\ faults <= faults'
    BY <2>1 DEF ActionsSafe
  <2>3. CASE Local(r, k)
    BY Zenon, <1>1, <1>2, <2>1, <2>2, <2>3, LocalTeaches, LocalWrites DEF Steps
  <2>4. CASE Send(r, k)
    <3>1. Writes(r, k)
      BY Zenon, <2>4, NothingWritten DEF Send, ReadOnly
    <3> QED
      BY Zenon, <1>1, <1>2, <2>1, <2>2, <2>4, <3>1, SendTeaches DEF Steps
  <2> QED
    BY Zenon, <1>3, <2>3, <2>4 DEF Work
<1>4. CASE Crash(r, k)
  <2>1. Writes(r, k) /\ faults' = faults /\ Finish(r, k)
    BY Zenon, <1>4, NothingWritten DEF Crash, worldVars
  <2>2. faults' \in Nat /\ faults <= faults'
    BY <2>1 DEF ActionsSafe
  <2> QED
    BY Zenon, <1>1, <1>2, <2>1, <2>2, FinishTeaches DEF Steps, ActionsSafe, ActionsInv
<1>5. CASE StoreFault(r, k)
  <2>1. Writes(r, k) /\ faults' = faults + 1
    BY Zenon, <1>5, NothingWritten DEF StoreFault
  <2>2. faults' \in Nat /\ faults <= faults'
    BY <2>1 DEF ActionsSafe
  <2> QED
    BY Zenon, <1>1, <1>2, <1>5, <2>1, <2>2, FaultTeaches DEF Steps
<1> QED
  BY Zenon, <1>3, <1>4, <1>5

\* A claim starts an attempt that knows whether it recovers one.
LEMMA ClaimSteps ==
  ASSUME ActionsSafe, NEW r \in Run, ClaimNext(r)
  PROVE  \E k \in Attempt :
           /\ pc'[r][k] = "boundary" /\ Knows(r, k)'
           /\ \A q \in Run, j \in Attempt :
                ~(q = r /\ j = k) => pc'[q][j] = pc[q][j] /\ frame'[q][j] = frame[q][j]
<1> DEFINE f == [NoFrame EXCEPT !.cancel = cancel_requested[r],
                                !.reconcile = error_code'[r] = PENDING]
<1>1. attempt'[r] = attempt[r] + 1 /\ attempt[r] < MaxAttempts /\ UNCHANGED ledgerVars
  BY DEF ClaimNext, Claim, claim_next_run, Lease, ActionsSafe, ActionsInv, TypeOK
<1>2. attempt[r] \in Nat
  BY Zenon DEF ActionsSafe, ActionsInv, TypeOK
<1>3. attempt'[r] \in Attempt
  BY <1>1, <1>2, RunStoreAssumption DEF Attempt
<1>4. PICK k \in Attempt : k = attempt'[r]
  BY Zenon, <1>3
<1>5. pc' = [pc EXCEPT ![r][k] = "boundary"] /\ frame' = [frame EXCEPT ![r][k] = f]
  BY Zenon, <1>4 DEF ClaimNext, Claim, GotoWith
<1>6. ~f.hosted
  BY Zenon DEF NoFrame
<1> HIDE DEF f
<1>7. /\ pc'[r][k] = "boundary" /\ frame'[r][k] = f
      /\ \A q \in Run, j \in Attempt :
           ~(q = r /\ j = k) => pc'[q][j] = pc[q][j] /\ frame'[q][j] = frame[q][j]
  BY Zenon, <1>5 DEF ActionsSafe, ActionsInv, AttemptsOK
<1>8. action'[r].dispatch_count > 0 => k > 1
  <2>1. action' = action
    BY Zenon, <1>1 DEF ledgerVars, actionRows
  <2>2. attempt[r] = 0 => ~Dispatched(r)
    BY Zenon DEF ActionsSafe, EndsOK, ActionsInv, LedgerInv, StepAgreesWithAction
  <2>3. Dispatched(r) => k > 1
    BY <1>1, <1>2, <1>4, <2>2
  <2> QED
    BY Zenon, <2>1, <2>3 DEF Dispatched
<1>9. Knows(r, k)'
  BY Zenon, <1>6, <1>7, <1>8
  DEF Knows, Recalls, OwnerKnows, Tokened, Own, Proven, Hosted, Early, Working
<1> QED
  BY Zenon, <1>7, <1>9

\* No other step moves an attempt or writes the ledger.
LEMMA OtherSteps ==
  ASSUME [ActionsNext]_actionVars
  PROVE  \/ \E r \in Run, k \in Attempt : Work(r, k) \/ Crash(r, k) \/ StoreFault(r, k)
         \/ \E r \in Run : ClaimNext(r)
         \/ UNCHANGED <<ledgerVars, attemptVars, faults>>
BY Zenon DEF ActionsNext, Client, Drift, Deliver, Lapse, actionVars, worldVars

\* Every attempt goes on knowing what its place says.
LEMMA KnowledgeStep ==
  ASSUME ActionsSafe, [ActionsNext]_actionVars
  PROVE  Knowledge'
<1> SUFFICES ASSUME NEW q \in Run, NEW j \in Attempt PROVE Knows(q, j)'
  BY Zenon DEF Knowledge
<1>1. ASSUME UNCHANGED <<ledgerVars, faults>>, pc'[q][j] = pc[q][j], frame'[q][j] = frame[q][j]
      PROVE  Knows(q, j)'
  <2>1. faults' \in Nat /\ faults <= faults'
    BY <1>1 DEF ActionsSafe
  <2> QED
    BY Zenon, <1>1, <2>1, KnowsUnwritten DEF ledgerVars, actionRows
<1>2. CASE UNCHANGED <<ledgerVars, attemptVars, faults>>
  BY Zenon, <1>1, <1>2 DEF attemptVars
<1>3. ASSUME NEW r \in Run, ClaimNext(r) PROVE Knows(q, j)'
  <2>1. UNCHANGED <<ledgerVars, faults>>
    BY Zenon, <1>3 DEF ClaimNext, Claim, worldVars
  <2> QED
    BY Zenon, <1>1, <1>3, <2>1, ClaimSteps
<1>4. ASSUME NEW r \in Run, NEW k \in Attempt, Work(r, k) \/ Crash(r, k) \/ StoreFault(r, k)
      PROVE  Knows(q, j)'
  <2>1. Steps(r, k)
    BY Zenon, <1>4, AttemptSteps
  <2>2. CASE q = r /\ j = k
    <3>1. Current(q, j)' => Current(q, j)
      BY Zenon, <2>1, <2>2, CurrentStays DEF Steps
    <3> QED
      BY Zenon, <2>1, <2>2, <3>1 DEF Steps, Learned, Knows
  <2>3. CASE ~(q = r /\ j = k)
    BY Zenon, <2>1, <2>3, KnowsStill DEF Steps
  <2> QED
    BY Zenon, <2>2, <2>3
<1> QED
  BY Zenon, <1>2, <1>3, <1>4, OtherSteps

\* A new dispatch belongs to the attempt that drew its token.
LEMMA TokensStep ==
  ASSUME ActionsSafe, [ActionsNext]_actionVars
  PROVE  TokensApart'
<1>1. ASSUME NEW q \in Run, NEW i \in Attempt, NEW j \in Attempt,
             pc[q][i] \in Own, pc[q][j] \in Own, frame[q][i].token = frame[q][j].token
      PROVE  i = j
  BY Zenon, <1>1 DEF ActionsSafe, TokensApart
<1>2. CASE UNCHANGED <<ledgerVars, attemptVars, faults>>
  BY Zenon, <1>1, <1>2 DEF attemptVars, TokensApart
<1>3. ASSUME NEW r \in Run, ClaimNext(r) PROVE TokensApart'
  <2>1. PICK k \in Attempt :
          /\ pc'[r][k] = "boundary"
          /\ \A q \in Run, j \in Attempt :
               ~(q = r /\ j = k) => pc'[q][j] = pc[q][j] /\ frame'[q][j] = frame[q][j]
    BY Zenon, <1>3, ClaimSteps
  <2>2. pc'[r][k] \notin Own
    BY Zenon, <2>1 DEF Own
  <2>3. ASSUME NEW q \in Run, NEW i \in Attempt, NEW j \in Attempt,
               pc'[q][i] \in Own, pc'[q][j] \in Own, frame'[q][i].token = frame'[q][j].token
        PROVE  i = j
    <3>1. ~(q = r /\ i = k) /\ ~(q = r /\ j = k)
      BY Zenon, <2>2, <2>3
    <3> QED
      BY Zenon, <1>1, <2>1, <2>3, <3>1
  <2> QED
    BY Zenon, <2>3 DEF TokensApart
<1>4. ASSUME NEW r \in Run, NEW k \in Attempt, Work(r, k) \/ Crash(r, k) \/ StoreFault(r, k)
      PROVE  TokensApart'
  <2>1. Steps(r, k)
    BY Zenon, <1>4, AttemptSteps
  <2>2. ASSUME NEW j \in Attempt, j # k, pc'[r][k] \in Own, pc'[r][j] \in Own
        PROVE  frame'[r][k].token # frame'[r][j].token
    <3>1. pc[r][j] \in Own /\ frame'[r][j].token = frame[r][j].token
      BY Zenon, <2>1, <2>2 DEF Steps
    <3>2. \/ pc[r][k] \in Own /\ frame'[r][k].token = frame[r][k].token
          \/ frame'[r][k].token = action[r].dispatch_count + 1
      BY Zenon, <2>1, <2>2 DEF Steps, Learned
    <3>3. frame[r][j].token \in 1 .. action[r].dispatch_count /\ action[r].dispatch_count \in Nat
      BY Zenon, <3>1, AtHand DEF Recalls, Tokened
    <3>4. frame[r][j].token # action[r].dispatch_count + 1
      BY <3>3
    <3> QED
      BY Zenon, <1>1, <2>2, <3>1, <3>2, <3>4
  <2>3. ASSUME NEW q \in Run, NEW i \in Attempt, NEW j \in Attempt,
               pc'[q][i] \in Own, pc'[q][j] \in Own, frame'[q][i].token = frame'[q][j].token
        PROVE  i = j
    <3>1. CASE q = r /\ (i = k \/ j = k)
      BY Zenon, <2>2, <2>3, <3>1
    <3>2. CASE ~(q = r /\ (i = k \/ j = k))
      BY Zenon, <1>1, <2>1, <2>3, <3>2 DEF Steps
    <3> QED
      BY Zenon, <3>1, <3>2
  <2> QED
    BY Zenon, <2>3 DEF TokensApart
<1> QED
  BY Zenon, <1>2, <1>3, <1>4, OtherSteps

\* A request that arrives names a dispatch and the provider of its action, so its
\* key is the one key of the write.
LEMMA KeyIsOne ==
  ASSUME ActionsSafe, NEW r \in Run, NEW m \in sent[r]
  PROVE  Key(r, m) = OneKey(r) /\ m.token \in Dispatch /\ Dispatched(r)
<1>1. m \in [token : 1 .. action[r].dispatch_count, to : {action[r].provider}]
  BY Zenon DEF ActionsSafe, EffectsOK, Requests
<1>2. m = [token |-> m.token, to |-> m.to] /\ m.to = action[r].provider
      /\ m.token \in 1 .. action[r].dispatch_count
  BY <1>1
<1>3. /\ action[r].dispatch_count \in Nat /\ action[r].dispatch_count <= MaxDispatches
      /\ retry_mode[r] = "unsafe" => action[r].dispatch_count <= 1
  BY Zenon DEF ActionsSafe, EffectsOK, Budgeted, ActionsInv, LedgerInv, LedgerTypeOK,
     UnsafeDispatchedOnce
<1>4. m.token \in Dispatch /\ Dispatched(r) /\ (retry_mode[r] = "unsafe" => m.token = 1)
  BY <1>2, <1>3, LedgerAssumption DEF Dispatch, Dispatched
<1> QED
  BY Zenon, <1>2, <1>4 DEF Key, OneKey

\* The facts about one Run carry over when its rows and effects do.
LEMMA EffectsKept ==
  ASSUME ActionsSafe, NEW q \in Run, action'[q] = action[q], retry_mode'[q] = retry_mode[q],
         sent'[q] = sent[q], answer'[q] = answer[q], applied'[q] = applied[q],
         refused'[q] = refused[q]
  PROVE  Requests(q)' /\ Answers(q)' /\ Budgeted(q)'
         /\ (action'[q].status = "succeeded" => applied'[q] # {})
         /\ (action'[q].status = "failed" => refused'[q] # {})
<1>1. Requests(q) /\ Answers(q) /\ Outcomes(q) /\ Budgeted(q)
  BY Zenon DEF ActionsSafe, EffectsOK
<1>2. OneKey(q)' = OneKey(q) /\ (Dispatched(q)' <=> Dispatched(q))
  BY Zenon DEF OneKey, Dispatched
<1>3. Requests(q)'
  BY Zenon, <1>1, <1>2 DEF Requests
<1> QED
  BY Zenon, <1>1, <1>3 DEF Answers, Outcomes, Budgeted

\* What a write of the ledger means for requests and effects.
LEMMA EffectsWritten ==
  ASSUME ActionsSafe, NEW r \in Run, NEW k \in Attempt, Writes(r, k),
         UNCHANGED <<answer, applied, refused>>, sent'[r] = sent[r]
  PROVE  Requests(r)' /\ Answers(r)' /\ Budgeted(r)'
         /\ (action'[r].status = "succeeded" => applied'[r] # {})
         /\ (action'[r].status = "failed" => refused'[r] # {})
<1>1. Requests(r) /\ Answers(r) /\ Outcomes(r) /\ Budgeted(r) /\ action[r].dispatch_count \in Nat
  BY Zenon, AtHand DEF ActionsSafe, EffectsOK
<1>2. CASE action'[r] = action[r]
  BY Zenon, <1>2, EffectsKept DEF Writes
<1>3. Answers(r)'
  BY Zenon, <1>1 DEF Answers
<1>4. CASE Prepares(r)
  <2>1. ~Dispatched(r)
    BY Zenon, <1>4 DEF Prepares, ActionsSafe, ActionsInv, LedgerInv, StepAgreesWithAction
  <2>2. action[r].dispatch_count = 0
    BY <1>1, <2>1 DEF Dispatched
  <2>3. sent[r] = {}
    BY <1>1, <2>2 DEF Requests
  <2>4. applied[r] = {} /\ refused[r] = {}
    BY Zenon, <1>1, <2>1 DEF Requests
  <2>5. Requests(r)'
    BY Zenon, <2>3, <2>4 DEF Requests
  <2> QED
    BY Zenon, <1>1, <1>3, <1>4, <2>5 DEF Prepares, Budgeted
<1>5. ASSUME action'[r].provider = action[r].provider,
             \/ action'[r].dispatch_count = action[r].dispatch_count
             \/ action'[r].dispatch_count = action[r].dispatch_count + 1
      PROVE  Requests(r)'
  <2>1. OneKey(r)' = OneKey(r)
    BY Zenon, <1>5 DEF OneKey, Writes
  <2>2. /\ Dispatched(r) => Dispatched(r)'
        /\ 1 .. action[r].dispatch_count \subseteq 1 .. action'[r].dispatch_count
    BY <1>1, <1>5 DEF Dispatched
  <2>3. sent'[r] \subseteq [token : 1 .. action'[r].dispatch_count, to : {action'[r].provider}]
    <3>1. ASSUME NEW A, NEW B, NEW S, NEW T, A \subseteq B, T \subseteq [token : A, to : S]
          PROVE  T \subseteq [token : B, to : S]
      BY <3>1
    <3>2. sent'[r] \subseteq [token : 1 .. action[r].dispatch_count, to : {action'[r].provider}]
      BY Zenon, <1>1, <1>5 DEF Requests
    <3> QED
      BY Zenon, <2>2, <3>1, <3>2
  <2> QED
    BY Zenon, <1>1, <2>1, <2>2, <2>3 DEF Requests
<1>6. CASE Dispatches(r)
  <2>1. Budgeted(r)'
    BY <1>1, <1>6, ActionsAssumption, LedgerAssumption DEF Dispatches, Budgeted
  <2> QED
    BY Zenon, <1>3, <1>5, <1>6, <2>1 DEF Dispatches
<1>7. CASE Settles(r)
  BY Zenon, <1>1, <1>3, <1>5, <1>7 DEF Settles, Budgeted
<1> QED
  BY Zenon, <1>2, <1>4, <1>6, <1>7 DEF Writes

\* An attempt that is about to record an answer has one.
LEMMA AnswersKnown ==
  ASSUME ActionsSafe, [ActionsNext]_actionVars, NEW q \in Run, NEW j \in Attempt
  PROVE  /\ pc'[q][j] = "succeeded" => applied[q] # {}
         /\ pc'[q][j] = "failed" => refused[q] # {}
<1>1. /\ pc[q][j] = "succeeded" => applied[q] # {}
      /\ pc[q][j] = "failed" => refused[q] # {}
  BY Zenon DEF ActionsSafe, EffectsOK, Outcomes
<1>2. CASE UNCHANGED <<ledgerVars, attemptVars, faults>>
  BY Zenon, <1>1, <1>2 DEF attemptVars
<1>3. ASSUME NEW r \in Run, ClaimNext(r) PROVE pc'[q][j] \in {"boundary", pc[q][j]}
  BY Zenon, <1>3, ClaimSteps
<1>4. ASSUME NEW r \in Run, NEW k \in Attempt, Work(r, k) \/ Crash(r, k) \/ StoreFault(r, k)
      PROVE  /\ pc'[q][j] = "succeeded" => applied[q] # {}
             /\ pc'[q][j] = "failed" => refused[q] # {}
  <2>1. Steps(r, k)
    BY Zenon, <1>4, AttemptSteps
  <2> QED
    BY Zenon, <1>1, <2>1 DEF Steps, Learned
<1>5. "boundary" # "succeeded" /\ "boundary" # "failed"
  BY Zenon
<1> QED
  BY Zenon, <1>1, <1>2, <1>3, <1>4, <1>5, OtherSteps

\* The facts about requests and effects from the facts about each Run.
LEMMA EffectsTogether ==
  ASSUME ActionsSafe, [ActionsNext]_actionVars,
         sent' \in [Run -> SUBSET [token : Nat, to : Provider \cup {NoProvider}]],
         answer' \in [Run -> [Dispatch -> {"none", "ok", "refused"}]],
         DOMAIN applied' = Run, DOMAIN refused' = Run,
         \A q \in Run : applied[q] \subseteq applied'[q] /\ refused[q] \subseteq refused'[q],
         \A q \in Run :
           Requests(q)' /\ Answers(q)' /\ Budgeted(q)'
           /\ (action'[q].status = "succeeded" => applied'[q] # {})
           /\ (action'[q].status = "failed" => refused'[q] # {})
  PROVE  EffectsOK'
<1>1. ASSUME NEW q \in Run, NEW j \in Attempt
      PROVE  /\ pc'[q][j] = "succeeded" => applied'[q] # {}
             /\ pc'[q][j] = "failed" => refused'[q] # {}
  BY Zenon, AnswersKnown
<1>2. \A q \in Run : Outcomes(q)'
  BY Zenon, <1>1 DEF Outcomes
<1> QED
  BY Zenon, <1>2 DEF EffectsOK

\* A request that arrives has at most the one effect, and the answer tells it.
LEMMA DeliverSteps ==
  ASSUME ActionsSafe, [ActionsNext]_actionVars, NEW r \in Run, Deliver(r)
  PROVE  EffectsOK'
<1>1. PICK m \in sent[r] :
        /\ sent' = [sent EXCEPT ![r] = @ \ {m}]
        /\ Apply(r, m) \/ Refuse(r, m)
        /\ action' = action /\ retry_mode' = retry_mode
  BY Zenon DEF Deliver, ledgerVars, actionRows
<1>2. Key(r, m) = OneKey(r) /\ m.token \in Dispatch /\ Dispatched(r)
  BY Zenon, KeyIsOne
<1>t. /\ sent \in [Run -> SUBSET [token : Nat, to : Provider \cup {NoProvider}]]
      /\ answer \in [Run -> [Dispatch -> {"none", "ok", "refused"}]]
  BY Zenon DEF ActionsSafe, EffectsOK
<1>3. DOMAIN applied = Run /\ DOMAIN refused = Run
  BY Zenon DEF ActionsSafe, EffectsOK
<1>4. PICK d, key : d \in Dispatch /\ d = m.token /\ key = OneKey(r)
  BY Zenon, <1>2
<1>5. PICK ok \in {"ok", "refused"} :
        /\ answer' = [answer EXCEPT ![r][d] = ok]
        /\ ok = "ok" => /\ applied' = [applied EXCEPT ![r] = @ \cup {key}] /\ refused' = refused
                        /\ ~(RefusalBindsKey /\ key \in refused[r])
        /\ ok = "refused" => /\ refused' = [refused EXCEPT ![r] = @ \cup {key}] /\ applied' = applied
                             /\ ~(RefusalBindsKey /\ key \in applied[r])
  <2>1. CASE Apply(r, m)
    <3>1. /\ answer' = [answer EXCEPT ![r][d] = "ok"]
          /\ applied' = [applied EXCEPT ![r] = @ \cup {key}] /\ refused' = refused
          /\ ~(RefusalBindsKey /\ key \in refused[r])
      BY Zenon, <1>2, <1>4, <2>1 DEF Apply
    <3> QED
      BY Zenon, <3>1
  <2>2. CASE Refuse(r, m)
    <3>1. /\ answer' = [answer EXCEPT ![r][d] = "refused"]
          /\ refused' = [refused EXCEPT ![r] = @ \cup {key}] /\ applied' = applied
          /\ ~(RefusalBindsKey /\ key \in applied[r])
      BY Zenon, <1>2, <1>4, <2>2 DEF Refuse
    <3> QED
      BY Zenon, <3>1
  <2> QED
    BY Zenon, <1>1, <2>1, <2>2
<1>6. /\ answer' \in [Run -> [Dispatch -> {"none", "ok", "refused"}]]
      /\ sent' \in [Run -> SUBSET [token : Nat, to : Provider \cup {NoProvider}]]
      /\ DOMAIN applied' = Run /\ DOMAIN refused' = Run
  BY Zenon, <1>1, <1>3, <1>4, <1>5, <1>t
<1>7. \A q \in Run \ {r} : /\ sent'[q] = sent[q] /\ answer'[q] = answer[q]
                           /\ applied'[q] = applied[q] /\ refused'[q] = refused[q]
  BY Zenon, <1>1, <1>3, <1>4, <1>5, <1>t
<1>8. /\ sent'[r] \subseteq sent[r]
      /\ \A e \in Dispatch : answer'[r][e] \in {answer[r][e], ok}
      /\ ok = "ok" => applied'[r] = applied[r] \cup {key} /\ refused'[r] = refused[r]
      /\ ok = "refused" => refused'[r] = refused[r] \cup {key} /\ applied'[r] = applied[r]
  BY Zenon, <1>1, <1>3, <1>4, <1>5, <1>t
<1>9. Requests(r) /\ Answers(r) /\ Outcomes(r) /\ Budgeted(r)
  BY Zenon DEF ActionsSafe, EffectsOK
<1>10. OneKey(r)' = key /\ Dispatched(r)'
  BY Zenon, <1>1, <1>2, <1>4 DEF OneKey, Dispatched
<1>11. Requests(r)'
  <2>1. sent'[r] \subseteq [token : 1 .. action'[r].dispatch_count, to : {action'[r].provider}]
    BY Zenon, <1>1, <1>8, <1>9 DEF Requests
  <2>2. applied[r] \subseteq {key} /\ refused[r] \subseteq {key}
    BY Zenon, <1>4, <1>9 DEF Requests
  <2>3. RefusalBindsKey => applied[r] = {} \/ refused[r] = {}
    BY Zenon, <1>9 DEF Requests
  <2>4. applied'[r] \subseteq {key} /\ refused'[r] \subseteq {key}
    BY Zenon, <1>5, <1>8, <2>2
  <2>5. RefusalBindsKey => applied'[r] = {} \/ refused'[r] = {}
    <3>1. (key \notin applied[r] => applied[r] = {}) /\ (key \notin refused[r] => refused[r] = {})
      BY Zenon, <2>2
    <3>2. ok = "ok" /\ RefusalBindsKey => refused'[r] = {}
      BY Zenon, <1>5, <1>8, <3>1
    <3>3. ok = "refused" /\ RefusalBindsKey => applied'[r] = {}
      BY Zenon, <1>5, <1>8, <3>1
    <3> QED
      BY Zenon, <3>2, <3>3
  <2> QED
    BY Zenon, <1>10, <2>1, <2>4, <2>5 DEF Requests
<1>12. Answers(r)'
  BY Zenon, <1>5, <1>8, <1>9 DEF Answers
<1>13. /\ Budgeted(r)'
       /\ action'[r].status = "succeeded" => applied'[r] # {}
       /\ action'[r].status = "failed" => refused'[r] # {}
  BY Zenon, <1>1, <1>5, <1>8, <1>9 DEF Budgeted, Outcomes
<1>14. \A q \in Run : applied[q] \subseteq applied'[q] /\ refused[q] \subseteq refused'[q]
  BY Zenon, <1>5, <1>7, <1>8
<1>15. \A q \in Run \ {r} :
         Requests(q)' /\ Answers(q)' /\ Budgeted(q)'
         /\ (action'[q].status = "succeeded" => applied'[q] # {})
         /\ (action'[q].status = "failed" => refused'[q] # {})
  BY Zenon, <1>1, <1>7, EffectsKept
<1> QED
  BY Zenon, <1>6, <1>11, <1>12, <1>13, <1>14, <1>15, EffectsTogether

\* A request goes to the provider the action names, for a dispatch that was drawn.
LEMMA SendSteps ==
  ASSUME ActionsSafe, [ActionsNext]_actionVars, NEW r \in Run, NEW k \in Attempt, Send(r, k)
  PROVE  EffectsOK'
<1> DEFINE Kept1(q) == Requests(q)' /\ Answers(q)' /\ Budgeted(q)'
         /\ (action'[q].status = "succeeded" => applied'[q] # {})
         /\ (action'[q].status = "failed" => refused'[q] # {})
<1>1. /\ action' = action /\ retry_mode' = retry_mode
      /\ answer' = answer /\ applied' = applied /\ refused' = refused
  BY Zenon DEF Send, ReadOnly, ledgerVars, actionRows
<1>t. /\ sent \in [Run -> SUBSET [token : Nat, to : Provider \cup {NoProvider}]]
      /\ answer' \in [Run -> [Dispatch -> {"none", "ok", "refused"}]]
      /\ DOMAIN applied' = Run /\ DOMAIN refused' = Run
      /\ \A q \in Run : applied[q] \subseteq applied'[q] /\ refused[q] \subseteq refused'[q]
  BY Zenon, <1>1 DEF ActionsSafe, EffectsOK
<1>2. \A q \in Run : sent'[q] = sent[q] => Kept1(q)
  BY Zenon, <1>1, EffectsKept
<1>3. CASE UNCHANGED sent
  <2>1. \A q \in Run : Kept1(q)
    BY Zenon, <1>2, <1>3
  <2> QED
    BY Zenon, <1>t, <1>3, <2>1, EffectsTogether
<1>4. CASE Call(r, k, registered[r]) /\ registered[r] = action[r].provider
  <2>1. PICK d, p : d = frame[r][k].token /\ p = registered[r]
    BY Zenon
  <2>2. sent' = [sent EXCEPT ![r] = @ \cup {[token |-> d, to |-> p]}]
    BY Zenon, <1>4, <2>1 DEF Call
  <2>3. p = action[r].provider /\ p \in Provider \cup {NoProvider}
    BY Zenon, <1>4, <2>1 DEF ActionsSafe, ActionsInv, AttemptsOK
  <2>4. d \in 1 .. action[r].dispatch_count /\ d \in Nat
    BY Zenon, <2>1, AtHand DEF Send, Recalls, Tokened, Own
  <2>a. PICK m : m = [token |-> d, to |-> p]
    BY Zenon
  <2>b. /\ m \in [token : Nat, to : Provider \cup {NoProvider}]
        /\ m \in [token : 1 .. action[r].dispatch_count, to : {action[r].provider}]
    BY <2>3, <2>4, <2>a
  <2>c. sent' = [sent EXCEPT ![r] = @ \cup {m}]
    BY Zenon, <2>2, <2>a
  <2>5. /\ sent' \in [Run -> SUBSET [token : Nat, to : Provider \cup {NoProvider}]]
        /\ \A q \in Run \ {r} : sent'[q] = sent[q]
        /\ sent'[r] = sent[r] \cup {m}
    <3>1. ASSUME NEW S, sent \in [Run -> SUBSET S], m \in S PROVE sent' \in [Run -> SUBSET S]
      BY Zenon, <2>c, <3>1
    <3>2. sent' \in [Run -> SUBSET [token : Nat, to : Provider \cup {NoProvider}]]
      BY Zenon, <1>t, <2>b, <3>1
    <3> QED
      BY Zenon, <1>t, <2>c, <3>2
  <2>6. Requests(r) /\ Answers(r) /\ Outcomes(r) /\ Budgeted(r)
    BY Zenon DEF ActionsSafe, EffectsOK
  <2>7. OneKey(r)' = OneKey(r) /\ (Dispatched(r)' <=> Dispatched(r))
    BY Zenon, <1>1 DEF OneKey, Dispatched
  <2>8. sent'[r] \subseteq [token : 1 .. action'[r].dispatch_count, to : {action'[r].provider}]
    <3>1. ASSUME NEW S, sent[r] \subseteq S, m \in S PROVE sent'[r] \subseteq S
      BY Zenon, <2>5, <3>1
    <3> QED
      BY Zenon, <1>1, <2>6, <2>b, <3>1 DEF Requests
  <2>9. Requests(r)'
    BY Zenon, <1>1, <2>6, <2>7, <2>8 DEF Requests
  <2>10. Kept1(r)
    BY Zenon, <1>1, <2>6, <2>9 DEF Answers, Budgeted, Outcomes
  <2>11. \A q \in Run : Kept1(q)
    BY Zenon, <1>2, <2>5, <2>10
  <2> QED
    BY Zenon, <1>t, <2>5, <2>11, EffectsTogether
<1> QED
  BY Zenon, <1>3, <1>4 DEF Send

\* Every step keeps requests and effects within the dispatches of the ledger.
LEMMA EffectsStep ==
  ASSUME ActionsSafe, [ActionsNext]_actionVars
  PROVE  EffectsOK'
<1> DEFINE Kept1(q) == Requests(q)' /\ Answers(q)' /\ Budgeted(q)'
         /\ (action'[q].status = "succeeded" => applied'[q] # {})
         /\ (action'[q].status = "failed" => refused'[q] # {})
<1>1. ASSUME UNCHANGED providerVars, \A q \in Run : Kept1(q) PROVE EffectsOK'
  BY Zenon, <1>1, EffectsTogether DEF providerVars, ActionsSafe, EffectsOK
<1>2. ASSUME UNCHANGED <<ledgerVars, providerVars>> PROVE EffectsOK'
  <2>1. \A q \in Run : Kept1(q)
    BY Zenon, <1>2, EffectsKept DEF ledgerVars, actionRows, providerVars
  <2> QED
    BY Zenon, <1>1, <1>2, <2>1
<1>3. ASSUME NEW r \in Run, Deliver(r) PROVE EffectsOK'
  BY Zenon, <1>3, DeliverSteps
<1>4. ASSUME NEW r \in Run, Client(r) \/ ClaimNext(r) \/ Drift(r) PROVE EffectsOK'
  BY Zenon, <1>2, <1>4 DEF Client, ClaimNext, Claim, Drift, worldVars
<1>5. ASSUME NEW r \in Run, NEW k \in Attempt, Lapse(r, k) PROVE EffectsOK'
  BY Zenon, <1>2, <1>5 DEF Lapse, worldVars
<1>6. ASSUME NEW r \in Run, NEW k \in Attempt, Work(r, k) \/ Crash(r, k) \/ StoreFault(r, k)
      PROVE  EffectsOK'
  <2>1. CASE Send(r, k)
    BY Zenon, <2>1, SendSteps
  <2>2. CASE UNCHANGED providerVars
    <3>1. Writes(r, k)
      BY Zenon, <1>6, AttemptSteps DEF Steps
    <3>2. Kept1(r)
      BY Zenon, <2>2, <3>1, EffectsWritten DEF providerVars
    <3>3. \A q \in Run \ {r} : Kept1(q)
      BY Zenon, <2>2, <3>1, EffectsKept DEF providerVars, Writes
    <3> QED
      BY Zenon, <1>1, <2>2, <3>2, <3>3
  <2> QED
    BY Zenon, <1>6, <2>1, <2>2 DEF Work, Crash, StoreFault, worldVars
<1>7. CASE UNCHANGED actionVars
  BY Zenon, <1>2, <1>7 DEF actionVars, worldVars
<1> QED
  BY Zenon, <1>3, <1>4, <1>5, <1>6, <1>7 DEF ActionsNext

\* A write that commits the end of a Run leaves the ledger as the end says.
Concludes(q) ==
  /\ status'[q] = "completed" => workflow[q].status = "ready"
  /\ faults <= 1 => ~InFlight(action[q])
  /\ faults = 0 =>
       Clear(action[q]) \/ (status'[q] = "failed" /\ error_code'[q] = SAFETY)

\* The ends of an attempt that holds the lease.
LEMMA CommitConcludes ==
  ASSUME ActionsSafe, NEW r \in Run, NEW k \in Attempt,
         Result(r, k) \/ Cancel(r, k) \/ Manager(r, k), NEW q \in Run, status'[q] # status[q]
  PROVE  Concludes(q)
<1> USE AtHand
<1>t. status \in [Run -> Status] /\ error_code \in [Run -> ErrorCode]
  BY Zenon DEF ActionsSafe, ActionsInv, TypeOK
<1>1. workflow[r].status = "ready" => Clear(action[r]) /\ ~InFlight(action[r])
  BY Zenon DEF ActionsSafe, EndsOK, Clear, InFlight
<1>2. status'[q] = status[q] \/ q = r
  BY Zenon, <1>t DEF Result, Cancel, Manager, LeaseLost, commit_completed_run, SaveCheckpoint,
     RejectStaleResult, _fail_checkpoint_conflict, commit_cancelled_run, commit_failed_run,
     commit_reconciliation_pending, _terminalize, vars
<1>3. q = r
  BY Zenon, <1>2
<1>4. CASE Result(r, k)
  BY Zenon, <1>1, <1>3, <1>4 DEF Result, Recalls, Concludes
<1>5. pc[r][k] # "idle" /\ Nonterminal(r) /\ CurrentLease(r, k) => Current(r, k)
  <2>1. pc[r][k] # "idle" => k <= attempt[r]
    BY Zenon DEF AttemptsOK
  <2>2. status[r] = "queued" => attempt[r] = 0
    BY Zenon DEF ActionsSafe, EndsOK
  <2>3. k > 0 /\ k \in Int
    BY SMTT(30) DEF Attempt
  <2>4. pc[r][k] # "idle" => status[r] # "queued"
    BY <2>1, <2>2, <2>3
  <2> QED
    BY Zenon, <2>4 DEF Nonterminal, Current, assert_current_run_lease
<1>6. CASE Cancel(r, k)
  <2>1. /\ commit_cancelled_run(r, k)
        /\ pc[r][k] \in {"cancel", "cancel_result"}
    BY Zenon, <1>3, <1>6 DEF Cancel, LeaseLost, vars
  <2>2. status'[r] = "cancelled" /\ Current(r, k)
    BY Zenon, <1>t, <1>5, <2>1 DEF commit_cancelled_run, _terminalize
  <2>3. /\ faults <= 1 => ~InFlight(action[r])
        /\ faults = 0 => Clear(action[r])
    BY Zenon, <1>1, <2>1, <2>2 DEF Recalls, OwnerKnows
  <2> QED
    BY Zenon, <1>3, <2>2, <2>3 DEF Concludes
<1>7. CASE Manager(r, k)
  <2>1. /\ pc[r][k] = "manager"
        /\ frame[r][k].exc # "reconciliation_pending"
        /\ ~(frame[r][k].reconcile /\ frame[r][k].exc \notin ResolutionCode)
        /\ \/ frame[r][k].exc \in SafetyCode /\ commit_failed_run(r, k, SAFETY, TRUE)
           \/ frame[r][k].exc \notin SafetyCode /\ commit_failed_run(r, k, EXECUTION, FALSE)
    BY Zenon, <1>3, <1>7 DEF Manager, LeaseLost, commit_reconciliation_pending, vars
  <2>2. /\ status'[r] = "failed" /\ Current(r, k)
        /\ frame[r][k].exc \in SafetyCode => error_code'[r] = SAFETY
    BY Zenon, <1>t, <2>1 DEF commit_failed_run, _terminalize, Current, assert_current_run_lease
  <2>3. "rejected" \notin ResolutionCode
    BY Zenon DEF ResolutionCode, SafetyCode
  <2>4. faults <= 1 => ~InFlight(action[r])
    BY Zenon, <2>1, <2>2 DEF OwnerKnows, Netted
  <2>5. faults = 0 => Clear(action[r]) \/ frame[r][k].exc \in SafetyCode
    BY Zenon, <2>1, <2>2, <2>3 DEF OwnerKnows, Warned
  <2> QED
    BY Zenon, <1>3, <2>2, <2>4, <2>5 DEF Concludes
<1> QED
  BY Zenon, <1>4, <1>6, <1>7

\* A Run ends by a commit of an attempt that holds its lease, or before it started.
LEMMA EndConcludes ==
  ASSUME ActionsSafe, [ActionsNext]_actionVars, NEW q \in Run,
         status[q] \notin Terminal, status'[q] \in Terminal
  PROVE  Concludes(q) /\ action' = action /\ workflow' = workflow
<1> USE DEF vars
<1>t. status \in [Run -> Status]
  BY Zenon DEF ActionsSafe, ActionsInv, TypeOK
<1>c. status'[q] # status[q]
  BY Zenon
<1>1. CASE UNCHANGED vars
  BY Zenon, <1>1, <1>c
<1>2. ASSUME NEW r \in Run, Client(r) PROVE Concludes(q) /\ UNCHANGED ledgerVars
  <2>1. CASE create_run_with_event(r) \/ request_cancel_atomically(r)
    BY Zenon, <1>t, <1>c, <2>1
    DEF create_run_with_event, _insert_run, request_cancel_atomically, Terminal
  <2>2. CASE finalize_next_queued_cancellation(r)
    <3>1. q = r /\ status'[q] = "cancelled" /\ status[q] = "queued"
      BY Zenon, <1>t, <1>c, <2>2
      DEF finalize_next_queued_cancellation, QueuedCancellation, _terminalize
    <3>2. action[q].status = "none"
      BY Zenon, <3>1 DEF ActionsSafe, EndsOK
    <3> QED
      BY Zenon, <1>2, <3>1, <3>2 DEF Concludes, Client, Clear, InFlight
  <2> QED
    BY Zenon, <1>2, <2>1, <2>2 DEF Client
<1>3. ASSUME NEW r \in Run, ClaimNext(r) PROVE FALSE
  BY Zenon, <1>t, <1>c, <1>3 DEF ClaimNext, Claim, claim_next_run, Lease, Terminal
<1>4. ASSUME NEW r \in Run, Drift(r) \/ Deliver(r) PROVE FALSE
  BY Zenon, <1>4, <1>c DEF Drift, Deliver
<1>5. ASSUME NEW r \in Run, NEW k \in Attempt, Crash(r, k) \/ StoreFault(r, k) \/ Lapse(r, k)
      PROVE  FALSE
  BY Zenon, <1>5, <1>c DEF Crash, StoreFault, Lapse, expire_run_lease
<1>6. ASSUME NEW r \in Run, NEW k \in Attempt, Work(r, k)
      PROVE  Concludes(q) /\ UNCHANGED ledgerVars
  <2> USE DEF ReadOnly
  <2>1. CASE Send(r, k)
    BY Zenon, <1>c, <2>1 DEF Send
  <2>2. CASE \/ Boundary(r, k) \/ Resolve(r, k) \/ Host(r, k) \/ Step(r, k)
             \/ _recover_external_dispatch(r, k) \/ Restore(r, k) \/ Answered(r, k)
             \/ Ambiguous(r, k) \/ Evidence(r, k)
    BY Zenon, <1>c, <2>2 DEF Boundary, Resolve, Host, Step, _recover_external_dispatch, Restore,
       Answered, Ambiguous, Evidence
  <2>3. CASE Open(r, k) \/ Mark(r, k) \/ Finalize(r, k) \/ Fail(r, k)
    BY Zenon, <1>c, <2>3 DEF Open, Mark, Finalize, Fail, Fenced, create_or_get_execution,
       mark_running, _finalize_execution
  <2>4. CASE ClaimStep(r, k) \/ Prepare(r, k) \/ Begin(r, k) \/ Retry(r, k)
    BY Zenon, <1>c, <2>4 DEF ClaimStep, Fenced, claim_step, Prepare, prepare_external_action, Begin,
       begin_external_action_dispatch, Retry, retry_external_action_dispatch, Redispatch
  <2>5. CASE Record(r, k) \/ _raise_external_outcome_unknown(r, k)
    BY Zenon, <1>c, <2>5 DEF Record, _raise_external_outcome_unknown,
       finalize_reconciliation_unknown, _finalize_external_action, Settle
  <2>6. CASE Result(r, k) \/ Cancel(r, k) \/ Manager(r, k)
    <3>1. UNCHANGED ledgerVars
      BY Zenon, <2>6 DEF Result, Cancel, Manager
    <3> QED
      BY Zenon, <1>c, <2>6, <3>1, CommitConcludes
  <2> QED
    BY Zenon, <1>6, <2>1, <2>2, <2>3, <2>4, <2>5, <2>6 DEF Work, Local
<1>7. Concludes(q) /\ UNCHANGED ledgerVars
  BY Zenon, <1>1, <1>2, <1>3, <1>4, <1>5, <1>6 DEF ActionsNext, actionVars
<1> QED
  BY Zenon, <1>7 DEF ledgerVars, actionRows

\* What happens to the row of a Run in one step, as far as its end is concerned.
LEMMA RunRowSteps ==
  ASSUME ActionsSafe, [ActionsNext]_actionVars, NEW q \in Run
  PROVE  /\ status'[q] \in {"absent", "queued"} =>
              status[q] \in {"absent", "queued"} /\ attempt'[q] = attempt[q]
         /\ attempt'[q] = 0 => attempt[q] = 0
         /\ status[q] \in Terminal => status'[q] = status[q] /\ error_code'[q] = error_code[q]
<1>1. TypeOK /\ [Next]_vars
  BY Zenon, StoreSteps
<1>2. attempt[q] \in Nat /\ attempt'[q] \in Nat /\ attempt[q] <= attempt'[q]
  BY Zenon, StoreSteps, TokensGrow DEF ActionsInv, TypeOK
<1>3. attempt'[q] = 0 => attempt[q] = 0
  BY <1>2
<1>4. Untouched(q) \/ Leased(q) \/ Kept(q) \/ Ended(q) \/ Noted(q)
  BY Zenon, <1>1, RowShape
<1>5. Leased(q) => status[q] \in {"queued", "running"}
  BY Zenon DEF Leased, Candidate, FreshCandidate, ExpiredCandidate
<1>6. CASE Untouched(q)
  BY Zenon, <1>3, <1>6 DEF Untouched
<1>7. CASE Leased(q)
  BY Zenon, <1>3, <1>5, <1>7 DEF Leased, Terminal
<1>8. CASE Kept(q)
  BY Zenon, <1>3, <1>8 DEF Kept, Terminal
<1>9. CASE Ended(q)
  BY Zenon, <1>3, <1>9 DEF Ended, Terminal, Nonterminal
<1>10. CASE Noted(q)
  BY Zenon, <1>3, <1>10 DEF Noted, Terminal, Nonterminal
<1> QED
  BY Zenon, <1>4, <1>6, <1>7, <1>8, <1>9, <1>10

\* What happens to the ledger's rows of a Run in one step: once the Run has ended,
\* at most a dispatch in flight is settled.
LEMMA LedgerRowSteps ==
  ASSUME ActionsSafe, [ActionsNext]_actionVars, NEW q \in Run
  PROVE  /\ faults' \in Nat /\ faults <= faults'
         /\ \/ action'[q] = action[q]
            \/ /\ attempt[q] # 0 /\ action[q].status # "succeeded"
               /\ status[q] \in Terminal => InFlight(action[q])
         /\ workflow[q].status = "ready" => workflow'[q].status = "ready"
         /\ workflow'[q].status = "ready" =>
              workflow[q].status = "ready" \/ action'[q].status = "succeeded"
<1>1. ASSUME UNCHANGED <<ledgerVars, faults>>
      PROVE  /\ faults' \in Nat /\ faults <= faults'
             /\ action' = action /\ workflow' = workflow
  <2>1. faults' = faults /\ action' = action /\ workflow' = workflow
    BY Zenon, <1>1 DEF ledgerVars, actionRows
  <2>2. faults \in Nat
    BY Zenon DEF ActionsSafe
  <2> QED
    BY <2>1, <2>2
<1>2. ASSUME NEW r \in Run, ClaimNext(r) PROVE UNCHANGED <<ledgerVars, faults>>
  BY Zenon, <1>2 DEF ClaimNext, Claim, worldVars
<1>3. ASSUME NEW r \in Run, NEW k \in Attempt, Steps(r, k), action'[q] # action[q]
      PROVE  /\ attempt[q] # 0 /\ action[q].status # "succeeded"
             /\ status[q] \in Terminal => InFlight(action[q])
  <2>1. q = r /\ Writes(r, k) /\ pc[q][k] # "idle"
    BY Zenon, <1>3 DEF Steps, Writes
  <2>2. k \in Nat \ {0} /\ k <= attempt[q] /\ attempt[q] \in Nat
    <3>1. k <= attempt[q] /\ attempt[q] \in Nat
      BY Zenon, <2>1 DEF ActionsSafe, ActionsInv, AttemptsOK, TypeOK
    <3>2. k \in Nat \ {0}
      BY DEF Attempt
    <3> QED
      BY Zenon, <3>1, <3>2
  <2>3. attempt[q] # 0
    BY <2>2
  <2>4. \/ Current(q, k) /\ action[q].status \in {"none", "prepared", "dispatching"}
        \/ InFlight(action[q])
    BY Zenon, <1>3, <2>1 DEF Writes, Prepares, Dispatches, Settles
  <2>5. Current(q, k) => status[q] \notin Terminal
    BY Zenon DEF Current, assert_current_run_lease, Terminal
  <2> QED
    BY Zenon, <2>3, <2>4, <2>5 DEF InFlight
<1>4. ASSUME NEW r \in Run, NEW k \in Attempt, Steps(r, k)
      PROVE  /\ faults' \in Nat /\ faults <= faults'
             /\ workflow[q].status = "ready" => workflow'[q].status = "ready"
             /\ workflow'[q].status = "ready" =>
                  workflow[q].status = "ready" \/ action'[q].status = "succeeded"
  BY Zenon, <1>4 DEF Steps, Writes
<1> QED
  BY Zenon, <1>1, <1>2, <1>3, <1>4, OtherSteps, AttemptSteps

\* Runs begin and end as they should.
LEMMA EndsStep ==
  ASSUME ActionsSafe, [ActionsNext]_actionVars
  PROVE  EndsOK'
<1> SUFFICES ASSUME NEW q \in Run
             PROVE  /\ status'[q] \in {"absent", "queued"} => attempt'[q] = 0
                    /\ attempt'[q] = 0 => action'[q].status = "none"
                    /\ workflow'[q].status = "ready" => action'[q].status = "succeeded"
                    /\ status'[q] = "completed" => workflow'[q].status = "ready"
                    /\ status'[q] \in Terminal /\ faults' <= 1 => ~InFlight(action'[q])
                    /\ status'[q] \in Terminal /\ faults' = 0 =>
                         \/ Clear(action'[q])
                         \/ status'[q] = "failed" /\ error_code'[q] = SAFETY
  BY Zenon DEF EndsOK
<1>1. /\ status[q] \in {"absent", "queued"} => attempt[q] = 0
      /\ attempt[q] = 0 => action[q].status = "none"
      /\ workflow[q].status = "ready" => action[q].status = "succeeded"
      /\ status[q] = "completed" => workflow[q].status = "ready"
      /\ status[q] \in Terminal /\ faults <= 1 => ~InFlight(action[q])
      /\ status[q] \in Terminal /\ faults = 0 =>
           Clear(action[q]) \/ (status[q] = "failed" /\ error_code[q] = SAFETY)
  BY Zenon DEF ActionsSafe, EndsOK
<1>2. faults \in Nat /\ faults' \in Nat /\ faults <= faults'
  BY Zenon, LedgerRowSteps DEF ActionsSafe
<1>3. (faults' <= 1 => faults <= 1) /\ (faults' = 0 => faults = 0)
  BY <1>2
<1>4. status'[q] \in {"absent", "queued"} => attempt'[q] = 0
  BY Zenon, <1>1, RunRowSteps
<1>5. attempt'[q] = 0 => action'[q].status = "none"
  BY Zenon, <1>1, RunRowSteps, LedgerRowSteps
<1>6. workflow'[q].status = "ready" => action'[q].status = "succeeded"
  BY Zenon, <1>1, LedgerRowSteps
<1>7. CASE status'[q] \in Terminal /\ status[q] \notin Terminal
  BY Zenon, <1>3, <1>4, <1>5, <1>6, <1>7, EndConcludes DEF Concludes
<1>8. CASE status[q] \in Terminal
  <2>1. status'[q] = status[q] /\ error_code'[q] = error_code[q]
    BY Zenon, <1>8, RunRowSteps
  <2>2. InFlight(action[q]) \/ action'[q] = action[q]
    BY Zenon, <1>8, LedgerRowSteps
  <2>3. faults' <= 1 => action'[q] = action[q]
    BY Zenon, <1>1, <1>3, <1>8, <2>2
  <2>4. faults' = 0 => action'[q] = action[q]
    BY <1>2, <2>3
  <2>5. status'[q] = "completed" => workflow'[q].status = "ready"
    BY Zenon, <1>1, <2>1, LedgerRowSteps
  <2> QED
    BY Zenon, <1>1, <1>3, <1>4, <1>5, <1>6, <1>8, <2>1, <2>3, <2>4, <2>5
<1>9. "completed" \in Terminal
  BY Zenon DEF Terminal
<1> QED
  BY Zenon, <1>4, <1>5, <1>6, <1>7, <1>8, <1>9

-----------------------------------------------------------------------------
(* The invariant, and the properties it carries. *)

\* No attempt has started, nothing was sent and nothing recorded.
LEMMA SafeStart == ActionsInit => ActionsSafe
<1> SUFFICES ASSUME ActionsInit PROVE ActionsSafe
  OBVIOUS
<1>1. /\ \A r \in Run : action[r] = [status |-> "none", dispatch_count |-> 0,
                                     provider |-> NoProvider]
      /\ \A r \in Run : workflow[r] = NoExecution
      /\ \A r \in Run : status[r] = "absent" /\ attempt[r] = 0
  BY Zenon DEF ActionsInit, LedgerInit, Init
<1>r. \A r \in Run : /\ action[r].status = "none" /\ action[r].dispatch_count = 0
                     /\ workflow[r].status # "ready"
  BY <1>1 DEF NoExecution
<1>2. /\ \A r \in Run, k \in Attempt : pc[r][k] = "idle" /\ frame[r][k] = NoFrame
      /\ \A r \in Run : sent[r] = {} /\ applied[r] = {} /\ refused[r] = {}
      /\ \A r \in Run, d \in Dispatch : answer[r][d] = "none"
  BY Zenon DEF ActionsInit
<1>3. ActionsInv /\ faults \in Nat
  <2>1. faults = 0
    BY Zenon DEF ActionsInit
  <2> QED
    BY <2>1, ActionsStart
<1>4. ~NoFrame.hosted
  BY Zenon DEF NoFrame
<1>5. Knowledge
  <2>1. "idle" \notin Tokened \cup Proven
    BY Zenon DEF Tokened, Own, Proven
  <2> SUFFICES ASSUME NEW r \in Run, NEW k \in Attempt PROVE Knows(r, k)
    BY Zenon DEF Knowledge
  <2>2. pc[r][k] = "idle" /\ frame[r][k] = NoFrame
    BY Zenon, <1>2
  <2>3. pc[r][k] \notin Tokened /\ pc[r][k] \notin Proven /\ ~frame[r][k].hosted
    BY Zenon, <1>4, <2>1, <2>2
  <2>4. Recalls(pc[r][k], frame[r][k], action[r], workflow[r].status)
    BY Zenon, <2>2, <2>3 DEF Recalls
  <2> QED
    BY Zenon, <2>2, <2>4 DEF Knows
<1>6. TokensApart
  BY Zenon, <1>2 DEF TokensApart, Own
<1>7. /\ sent \in [Run -> SUBSET [token : Nat, to : Provider \cup {NoProvider}]]
      /\ answer \in [Run -> [Dispatch -> {"none", "ok", "refused"}]]
      /\ DOMAIN applied = Run /\ DOMAIN refused = Run
  BY Zenon DEF ActionsInit
<1>8. ASSUME NEW r \in Run PROVE Requests(r) /\ Answers(r) /\ Outcomes(r) /\ Budgeted(r)
  <2>1. action[r].status = "none" /\ action[r].dispatch_count = 0
    BY Zenon, <1>r
  <2>2. 0 <= max_dispatches /\ 0 <= MaxDispatches
    BY ActionsAssumption, LedgerAssumption
  <2> QED
    BY Zenon, <1>2, <2>1, <2>2 DEF Requests, Answers, Outcomes, Budgeted
<1>9. EffectsOK
  BY Zenon, <1>7, <1>8 DEF EffectsOK
<1>10. EndsOK
  BY Zenon, <1>1, <1>r DEF EndsOK, Terminal
<1> QED
  BY Zenon, <1>3, <1>5, <1>6, <1>9, <1>10 DEF ActionsSafe

\* Every step keeps the invariant.
LEMMA SafeStep ==
  ASSUME ActionsSafe, [ActionsNext]_actionVars
  PROVE  ActionsSafe'
<1>1. faults' \in Nat
  <2>1. CASE Run = {}
    BY Zenon, <2>1 DEF ActionsSafe, ActionsNext, actionVars, worldVars
  <2>2. ASSUME NEW q \in Run PROVE faults' \in Nat
    BY Zenon, LedgerRowSteps
  <2> QED
    BY Zenon, <2>1, <2>2
<1> QED
  BY Zenon, <1>1, StoreSteps, KnowledgeStep, TokensStep, EffectsStep, EndsStep DEF ActionsSafe

\* What attempts of ExternalActionCoordinator and DurableActionRuntime know at
\* each place of their code stays true of the ledger and of the provider,
\* whatever the other attempts, crashes, exceptions of the store and late
\* deliveries do.
THEOREM SafetyInvariance == ActionsSpec => []ActionsSafe
BY SafeStart, SafeStep, PTL DEF ActionsSpec

\* The external write of a Run takes effect at most once: every request carries
\* the one key of its Run, although the coordinator dispatches it again after
\* ambiguous answers, in recovering attempts and under a changed registration.
THEOREM EffectHappensOnce == ActionsSpec => []AtMostOneEffect
<1>1. ActionsSafe => AtMostOneEffect
  <2> SUFFICES ASSUME ActionsSafe, NEW r \in Run
               PROVE  \A k, l \in applied[r] : k = l
    BY Zenon DEF AtMostOneEffect
  <2>1. PICK x : x = OneKey(r)
    BY Zenon
  <2>2. applied[r] \subseteq {x}
    BY Zenon, <2>1 DEF ActionsSafe, EffectsOK, Requests
  <2> QED
    BY Zenon, <2>2
<1> QED
  BY <1>1, SafetyInvariance, PTL

\* The ledger and the provider agree: every request belongs to a dispatch that is
\* recorded, and its key was either applied or refused.
LEMMA LedgerIsGrounded == RefusalBindsKey /\ ActionsSafe => LedgerTellsTruth
<1> SUFFICES ASSUME RefusalBindsKey, ActionsSafe, NEW r \in Run
             PROVE  /\ action[r].status = "succeeded" => applied[r] # {}
                    /\ action[r].status = "failed" => applied[r] = {}
                    /\ ~Dispatched(r) => sent[r] = {} /\ applied[r] = {}
                    /\ action[r].dispatch_count <= max_dispatches
  BY Zenon DEF LedgerTellsTruth
<1>1. Requests(r) /\ Outcomes(r) /\ Budgeted(r) /\ action[r].dispatch_count \in Nat
  BY Zenon DEF ActionsSafe, EffectsOK, ActionsInv, LedgerInv, LedgerTypeOK
<1>2. ~Dispatched(r) => sent[r] = {}
  <2>1. ~Dispatched(r) => 1 .. action[r].dispatch_count = {}
    BY <1>1 DEF Dispatched
  <2>2. ASSUME NEW m \in sent[r] PROVE m.token \in 1 .. action[r].dispatch_count
    BY <1>1, <2>2 DEF Requests
  <2> QED
    BY Zenon, <2>1, <2>2
<1> QED
  BY Zenon, <1>1, <1>2 DEF Requests, Outcomes, Budgeted

\* What finalize_external_action_success and _failure record is what happened,
\* under the provider contract that the model states as RefusalBindsKey: a key
\* that was refused is not applied by a late duplicate.  Nothing leaves before
\* its dispatch is recorded, and no more often than the budget allows.
THEOREM LedgerIsTrue == RefusalBindsKey => (ActionsSpec => []LedgerTellsTruth)
<1> SUFFICES ASSUME RefusalBindsKey PROVE ActionsSpec => []LedgerTellsTruth
  OBVIOUS
<1>1. ActionsSafe => LedgerTellsTruth
  BY LedgerIsGrounded
<1> QED
  BY <1>1, SafetyInvariance, PTL

\* No Run ends while its write is in flight, with at most one exception of the
\* store: _raise_external_outcome_unknown, the boundary of the Manager and the
\* handlers of DurableActionRuntime.execute leave the Run to be reconciled.
THEOREM TerminalRunHasNoDispatch == ActionsSpec => []NoDispatchBehindTerminalRun
<1>1. ActionsSafe => NoDispatchBehindTerminalRun
  BY Zenon DEF ActionsSafe, EndsOK, InFlight, NoDispatchBehindTerminalRun
<1> QED
  BY <1>1, SafetyInvariance, PTL

\* A completed Run has a recorded success; without exceptions of the store a
\* cancelled Run wrote nothing or a recorded success, and a failed or unknown
\* write is a safety failure of the Run (_execute_owned_run, _mark_cancelled).
THEOREM RunTellsItsOutcome == ActionsSpec => []RunTellsOutcome
<1>1. ActionsSafe => RunTellsOutcome
  <2> SUFFICES ASSUME ActionsSafe PROVE RunTellsOutcome
    OBVIOUS
  <2>1. ASSUME NEW r \in Run, status[r] = "completed"
        PROVE  action[r].status = "succeeded" /\ workflow[r].status = "ready"
    BY Zenon, <2>1 DEF ActionsSafe, EndsOK
  <2>2. ASSUME NEW r \in Run, faults = 0, status[r] \in Terminal
        PROVE  Clear(action[r]) \/ (status[r] = "failed" /\ error_code[r] = SAFETY)
    BY Zenon, <2>2 DEF ActionsSafe, EndsOK
  <2>3. "cancelled" \in Terminal
    BY Zenon DEF Terminal
  <2> QED
    BY Zenon, <2>1, <2>2, <2>3 DEF RunTellsOutcome, UnknownIsPreserved, Clear
<1> QED
  BY <1>1, SafetyInvariance, PTL
=============================================================================
