--------------------------- MODULE GatewayProofs ---------------------------
(***************************************************************************)
(* What the public Action API tells its callers, for every set of callers, *)
(* keys, bodies, attempts and providers: a terminal status is true of the  *)
(* provider, however stale the Run record it was computed from, and it     *)
(* does not change afterwards.                                             *)
(*                                                                         *)
(* The API only reads the system below it, so the invariant of             *)
(* ExternalActionsProofs carries over; what it says of an attempt is       *)
(* extended by what the Run record tells later: an attempt that ends with  *)
(* the code external_action_outcome_unknown has recorded that outcome.     *)
(***************************************************************************)
EXTENDS ActionGateway, ExternalActionsProofs

-----------------------------------------------------------------------------
(* More of what an attempt knows. *)

\* Only a recovering attempt reconciles; an outcome is reported as unknown once
\* it is recorded; the attempt that claimed the step finds no action; and the
\* workflow of a dispatch in flight is not closed as failed as long as the
\* provider stays registered.
Sees(r, k) ==
  /\ frame[r][k].reconcile => k > 1 \/ pc[r][k] = "boundary"
  /\ frame[r][k].exc = "outcome_unknown" => action[r].status = "outcome_unknown"
  /\ Current(r, k) /\ pc[r][k] = "prepare" /\ ~frame[r][k].recovered => action[r].status = "none"
  /\ Current(r, k) /\ pc[r][k] = "fail" /\ drifts = 0 => ~InFlight(action[r])

\* The same of the attempt that takes a step, after it.
Saw(r, k) ==
  /\ frame'[r][k].reconcile => k > 1 \/ pc'[r][k] = "boundary"
  /\ frame'[r][k].exc = "outcome_unknown" => action'[r].status = "outcome_unknown"
  /\ Current(r, k) /\ pc'[r][k] = "prepare" /\ ~frame'[r][k].recovered =>
       action'[r].status = "none"
  /\ Current(r, k) /\ pc'[r][k] = "fail" /\ drifts = 0 => ~InFlight(action'[r])

\* What the attempt must see to go on at a label with a frame.
LEMMA Sighted ==
  ASSUME AttemptsOK, NEW r \in Run, NEW k \in Attempt, NEW l, NEW f, GotoWith(r, k, l, f),
         f.reconcile => k > 1,
         f.exc = "outcome_unknown" => action'[r].status = "outcome_unknown",
         l = "prepare" => f.recovered \/ ~Current(r, k) \/ action'[r].status = "none",
         l = "fail" => ~Current(r, k) \/ drifts # 0 \/ ~InFlight(action'[r])
  PROVE  Saw(r, k)
<1>1. pc'[r][k] = l /\ frame'[r][k] = f
  BY Zenon DEF GotoWith, AttemptsOK
<1>2. frame'[r][k].reconcile => k > 1
  <2>1. frame'[r][k].reconcile = f.reconcile
    BY Zenon, <1>1
  <2> QED
    BY Zenon, <2>1
<1>3. frame'[r][k].exc = "outcome_unknown" => action'[r].status = "outcome_unknown"
  BY Zenon, <1>1
<1>4. Current(r, k) /\ pc'[r][k] = "prepare" /\ ~frame'[r][k].recovered =>
        action'[r].status = "none"
  <2>1. frame'[r][k].recovered = f.recovered
    BY Zenon, <1>1
  <2> QED
    BY Zenon, <1>1, <2>1
<1>5. Current(r, k) /\ pc'[r][k] = "fail" /\ drifts = 0 => ~InFlight(action'[r])
  BY Zenon, <1>1
<1> QED
  BY Zenon, <1>2, <1>3, <1>4, <1>5 DEF Saw

\* How attempts go on past the boundary.
LEMMA GoesOn ==
  ASSUME ActionsSafe, NEW r \in Run, NEW k \in Attempt, Sees(r, k), pc[r][k] # "boundary",
         action[r].status = "outcome_unknown" => action'[r].status = "outcome_unknown"
  PROVE  /\ \A l : Goto(r, k, l) /\ l \notin {"prepare", "fail"} => Saw(r, k)
         /\ \A l, d : With(r, k, l, d) /\ l \notin {"prepare", "fail"} => Saw(r, k)
         /\ \A c : Raise(r, k, c)
                   /\ (c = "outcome_unknown" => action'[r].status = "outcome_unknown")
                   => Saw(r, k)
         /\ \A l, c : Closing(r, k, l, c) /\ l \in {"fail", "fail_safely"}
                      /\ (l = "fail" => ~Current(r, k) \/ drifts # 0 \/ ~InFlight(action'[r]))
                      /\ (c = "outcome_unknown" => action'[r].status = "outcome_unknown")
                      => Saw(r, k)
         /\ Finish(r, k) => Saw(r, k)
         /\ Escape(r, k) => Saw(r, k)
<1>1. /\ AttemptsOK /\ frame[r][k] \in Frame
  BY Zenon, AtHand
<1>2. /\ frame[r][k].reconcile => k > 1
      /\ frame[r][k].exc = "outcome_unknown" => action'[r].status = "outcome_unknown"
  BY Zenon DEF Sees
<1>3. ASSUME NEW l, Goto(r, k, l), l \notin {"prepare", "fail"} PROVE Saw(r, k)
  BY Zenon, <1>1, <1>2, <1>3, Sighted DEF Goto
<1>4. ASSUME NEW l, NEW d, With(r, k, l, d), l \notin {"prepare", "fail"} PROVE Saw(r, k)
  <2>1. PICK f : f = [frame[r][k] EXCEPT !.token = d]
    BY Zenon
  <2>2. f.reconcile = frame[r][k].reconcile /\ f.exc = frame[r][k].exc
    BY Zenon, <1>1, <2>1 DEF Frame
  <2>3. GotoWith(r, k, l, f)
    BY Zenon, <1>4, <2>1 DEF With
  <2>4. f.reconcile => k > 1
    BY Zenon, <1>2, <2>2
  <2>5. f.exc = "outcome_unknown" => action'[r].status = "outcome_unknown"
    BY Zenon, <1>2, <2>2
  <2> QED
    BY Zenon, <1>1, <1>4, <2>3, <2>4, <2>5, Sighted
<1>5. ASSUME NEW l, NEW c, l # "prepare", GotoWith(r, k, l, Thrown(frame[r][k], c)),
             l = "fail" => ~Current(r, k) \/ drifts # 0 \/ ~InFlight(action'[r]),
             c = "outcome_unknown" => action'[r].status = "outcome_unknown"
      PROVE  Saw(r, k)
  <2>1. PICK f : f = Thrown(frame[r][k], c)
    BY Zenon
  <2>2. PICK g : g = frame[r][k]
    BY Zenon
  <2>3. f.exc = c /\ f.reconcile = g.reconcile
    BY Zenon, <2>1, <2>2, ThrownFields
  <2>4. GotoWith(r, k, l, f)
    BY Zenon, <1>5, <2>1
  <2>5. f.reconcile => k > 1
    BY Zenon, <1>2, <2>2, <2>3
  <2>6. f.exc = "outcome_unknown" => action'[r].status = "outcome_unknown"
    BY Zenon, <1>5, <2>3
  <2> QED
    BY Zenon, <1>1, <1>5, <2>4, <2>5, <2>6, Sighted
<1>6. ASSUME NEW c, Raise(r, k, c),
             c = "outcome_unknown" => action'[r].status = "outcome_unknown"
      PROVE  Saw(r, k)
  <2>1. PICK l \in {"manager", "host"} : GotoWith(r, k, l, Thrown(frame[r][k], c))
    BY Zenon, <1>6 DEF Raise
  <2> QED
    BY Zenon, <1>5, <1>6, <2>1
<1>7. ASSUME NEW l \in {"fail", "fail_safely"}, NEW c, Closing(r, k, l, c),
             l = "fail" => ~Current(r, k) \/ drifts # 0 \/ ~InFlight(action'[r]),
             c = "outcome_unknown" => action'[r].status = "outcome_unknown"
      PROVE  Saw(r, k)
  BY Zenon, <1>5, <1>7 DEF Closing
<1>8. ASSUME Finish(r, k) PROVE Saw(r, k)
  <2>1. ~NoFrame.reconcile /\ NoFrame.exc # "outcome_unknown"
    BY Zenon DEF NoFrame
  <2> QED
    BY Zenon, <1>1, <1>8, <2>1, Sighted DEF Finish
<1>9. ASSUME Escape(r, k) PROVE Saw(r, k)
  <2>1. PICK f : f = [Thrown(frame[r][k], "other") EXCEPT !.hosted = TRUE]
    BY Zenon
  <2>2. f.exc = "other" /\ f.reconcile = frame[r][k].reconcile
    BY Zenon, <2>1 DEF Thrown, NoFrame
  <2>3. GotoWith(r, k, "manager", f)
    BY Zenon, <1>9, <2>1 DEF Escape
  <2>4. f.reconcile => k > 1
    BY Zenon, <1>2, <2>2
  <2> QED
    BY Zenon, <1>1, <2>2, <2>3, <2>4, Sighted
<1> QED
  BY Zenon, <1>3, <1>4, <1>6, <1>7, <1>8, <1>9

\* A recorded unknown outcome stays.
LEMMA UnknownStays ==
  ASSUME NEW r \in Run, NEW k, Writes(r, k), NEW q \in Run, action[q].status = "outcome_unknown"
  PROVE  action'[q] = action[q]
BY Zenon DEF Writes, Prepares, Dispatches, Settles, InFlight

\* The entry of the workflow.
LEMMA EntrySees ==
  ASSUME ActionsSafe, NEW r \in Run, NEW k \in Attempt, Writes(r, k), Sees(r, k),
         Boundary(r, k) \/ Open(r, k) \/ Mark(r, k) \/ Resolve(r, k)
  PROVE  Saw(r, k)
<1> USE AtHand
<1>1. action[r].status = "outcome_unknown" => action'[r].status = "outcome_unknown"
  BY Zenon, UnknownStays
<1>2. CASE Boundary(r, k)
  <2>1. PICK f, l : /\ l \in {"cancel", "open"} /\ GotoWith(r, k, l, f)
                    /\ f = [NoFrame EXCEPT !.reconcile =
                              k > 1 /\ (frame[r][k].reconcile \/ Dispatched(r))]
    BY Zenon, <1>2 DEF Boundary
  <2>2. f.exc = "none" /\ (f.reconcile => k > 1)
    BY Zenon, <2>1 DEF NoFrame
  <2> QED
    BY Zenon, <2>1, <2>2, Sighted
<1>3. ASSUME Dispatched(r), Reconcile(r, k), pc[r][k] # "boundary" PROVE Saw(r, k)
  <2>1. PICK d, s : d = action[r].dispatch_count /\ s = action[r].status
    BY Zenon
  <2>2. s \in {"dispatching"} \cup ActionTerminal
    BY Zenon, <1>3, <2>1 DEF ActionsSafe, ActionsInv, LedgerInv, StepAgreesWithAction, ActionStatus
  <2>3. \/ With(r, k, "unknown_leased", d)
        \/ Closing(r, k, "fail_safely", "evidence_incomplete")
        \/ s \in {"failed", "outcome_unknown"} /\ Closing(r, k, "fail_safely", s)
    BY Zenon, <1>3, <2>1, <2>2 DEF Reconcile, ActionTerminal
  <2>4. s = "outcome_unknown" => action'[r].status = "outcome_unknown"
    BY Zenon, <1>1, <2>1
  <2> QED
    BY Zenon, <1>1, <1>3, <2>3, <2>4, GoesOn
<1>4. CASE Open(r, k)
  <2>1. pc[r][k] # "boundary"
    BY Zenon, <1>4 DEF Open
  <2>2. CASE Raise(r, k, "other")
    BY Zenon, <1>1, <2>1, <2>2, GoesOn
  <2>3. CASE Goto(r, k, "mark") \/ Goto(r, k, "resolve") \/ Goto(r, k, "result")
    BY Zenon, <1>1, <2>1, <2>3, GoesOn
  <2>4. CASE Raise(r, k, "evidence_incomplete") \/ Raise(r, k, "rejected")
    BY Zenon, <1>1, <2>1, <2>4, GoesOn
  <2>5. workflow[r].status \in {"none", "pending", "running", "ready", "failed"}
    BY Zenon DEF ActionsSafe, ActionsInv, RowsOK, LedgerInv, LedgerTypeOK, WorkflowStatus
  <2>6. \/ Raise(r, k, "other") \/ Raise(r, k, "evidence_incomplete") \/ Raise(r, k, "rejected")
        \/ Goto(r, k, "mark") \/ Goto(r, k, "resolve") \/ Goto(r, k, "result")
        \/ Dispatched(r) /\ Reconcile(r, k)
    BY Zenon, <1>4, <2>5 DEF Open
  <2> QED
    BY Zenon, <1>3, <2>1, <2>2, <2>3, <2>4, <2>6
<1>5. CASE Mark(r, k)
  <2>1. pc[r][k] # "boundary" /\ (Goto(r, k, "resolve") \/ Raise(r, k, "other"))
    BY Zenon, <1>5 DEF Mark, Fenced
  <2> QED
    BY Zenon, <1>1, <2>1, GoesOn
<1>6. CASE Resolve(r, k)
  <2>1. pc[r][k] # "boundary" /\ ReadOnly
    BY Zenon, <1>6 DEF Resolve
  <2>2. \/ Goto(r, k, "step")
        \/ Dispatched(r) /\ Reconcile(r, k)
        \/ ~Dispatched(r) /\ Closing(r, k, "fail", "rejected")
    BY Zenon, <1>6 DEF Resolve
  <2>3. ~Dispatched(r) => ~InFlight(action'[r])
    BY Zenon, <2>1
    DEF ActionsSafe, ActionsInv, LedgerInv, StepAgreesWithAction, InFlight, ReadOnly, ledgerVars,
        actionRows
  <2> QED
    BY Zenon, <1>1, <1>3, <2>1, <2>2, <2>3, GoesOn
<1> QED
  BY Zenon, <1>2, <1>4, <1>5, <1>6

\* The tool step and the preparation of the action.
LEMMA StepSees ==
  ASSUME ActionsSafe, NEW r \in Run, NEW k \in Attempt, Writes(r, k), Sees(r, k),
         drifts = 0 => registered[r] # NoProvider,
         Step(r, k) \/ ClaimStep(r, k) \/ Prepare(r, k)
  PROVE  Saw(r, k)
<1> USE AtHand
<1>1. action[r].status = "outcome_unknown" => action'[r].status = "outcome_unknown"
  BY Zenon, UnknownStays
<1>2. pc[r][k] # "boundary" /\ (frame[r][k].reconcile => k > 1)
  BY Zenon DEF Step, ClaimStep, Prepare, Sees
<1>3. frame[r][k].exc = "outcome_unknown" => action'[r].status = "outcome_unknown"
  BY Zenon, <1>1 DEF Sees
<1>4. CASE Step(r, k)
  <2> DEFINE f == [frame[r][k] EXCEPT !.identity = registered[r]]
  <2> DEFINE g == [f EXCEPT !.recovered = TRUE]
  <2>1. /\ f.reconcile = frame[r][k].reconcile /\ f.exc = frame[r][k].exc
        /\ g.reconcile = frame[r][k].reconcile /\ g.exc = frame[r][k].exc /\ g.recovered
    BY Zenon DEF Frame
  <2>2. \/ Goto(r, k, "restore") \/ GotoWith(r, k, "claim", f) \/ GotoWith(r, k, "prepare", g)
        \/ (registered[r] = NoProvider \/ k = 1) /\ Closing(r, k, "fail", "rejected")
    BY Zenon, <1>4 DEF Step
  <2> HIDE DEF f, g
  <2>3. /\ f.reconcile => k > 1
        /\ g.reconcile => k > 1
    BY Zenon, <1>2, <2>1
  <2>4. /\ f.exc = "outcome_unknown" => action'[r].status = "outcome_unknown"
        /\ g.exc = "outcome_unknown" => action'[r].status = "outcome_unknown"
    BY Zenon, <1>3, <2>1
  <2>5. CASE GotoWith(r, k, "claim", f)
    BY Zenon, <2>3, <2>4, <2>5, Sighted
  <2>6. CASE GotoWith(r, k, "prepare", g)
    BY Zenon, <2>1, <2>3, <2>4, <2>6, Sighted
  <2>7. k = 1 => ~frame[r][k].reconcile
    <3>1. k = 1 => ~(k > 1)
      OBVIOUS
    <3> QED
      BY Zenon, <1>2, <3>1
  <2>8. CASE (registered[r] = NoProvider \/ k = 1) /\ Closing(r, k, "fail", "rejected")
    <3>1. k = 1 /\ Current(r, k) => ~Dispatched(r)
      <4>1. pc[r][k] \in Early /\ pc[r][k] # "idle"
        BY Zenon, <1>4 DEF Step, Early
      <4> QED
        BY Zenon, <2>7, <4>1 DEF OwnerKnows, Dispatched
    <3>2. ~Dispatched(r) => ~InFlight(action'[r])
      BY Zenon, <1>4
      DEF Step, ActionsSafe, ActionsInv, LedgerInv, StepAgreesWithAction, InFlight, ReadOnly,
          ledgerVars, actionRows
    <3>3. ~Current(r, k) \/ drifts # 0 \/ ~InFlight(action'[r])
      BY Zenon, <2>8, <3>1, <3>2
    <3> QED
      BY Zenon, <1>1, <1>2, <2>8, <3>3, GoesOn
  <2> QED
    BY Zenon, <1>1, <1>2, <2>2, <2>5, <2>6, <2>8, GoesOn
<1>5. CASE ClaimStep(r, k)
  <2>1. \/ step[r] = "none" /\ action' = action /\ GotoWith(r, k, "prepare", frame[r][k])
        \/ Raise(r, k, "other")
    BY Zenon, <1>5 DEF ClaimStep, Fenced, claim_step, Goto
  <2>2. step[r] = "none" => action[r].status = "none"
    BY Zenon DEF ActionsSafe, ActionsInv, LedgerInv, StepAgreesWithAction, ActionStatus, StepOf
  <2>3. CASE step[r] = "none" /\ action' = action /\ GotoWith(r, k, "prepare", frame[r][k])
    BY Zenon, <1>2, <1>3, <2>2, <2>3, Sighted
  <2> QED
    BY Zenon, <1>1, <1>2, <2>1, <2>3, GoesOn
<1>6. CASE Prepare(r, k)
  <2> DEFINE f == [frame[r][k] EXCEPT !.identity = NoProvider, !.recovered = FALSE,
                                      !.token = action[r].dispatch_count]
  <2>1. PICK d : d = action[r].dispatch_count
    BY Zenon
  <2>2. f.reconcile = frame[r][k].reconcile /\ f.exc = frame[r][k].exc
    BY Zenon DEF Frame
  <2>3. \/ GotoWith(r, k, "recover", f) \/ GotoWith(r, k, "begin", f)
        \/ With(r, k, "unknown_leased", d) \/ Raise(r, k, "reconciliation_pending")
        \/ /\ ~Current(r, k) \/ (ReadOnly /\ ~InFlight(action[r]))
           /\ Closing(r, k, "fail", "rejected")
    BY Zenon, <1>6, <2>1 DEF Prepare, PrepareFailed, InFlight
  <2> HIDE DEF f
  <2>4. f.reconcile => k > 1
    BY Zenon, <1>2, <2>2
  <2>5. f.exc = "outcome_unknown" => action'[r].status = "outcome_unknown"
    BY Zenon, <1>3, <2>2
  <2>6. CASE GotoWith(r, k, "recover", f) \/ GotoWith(r, k, "begin", f)
    BY Zenon, <2>4, <2>5, <2>6, Sighted
  <2>7. ReadOnly /\ ~InFlight(action[r]) => ~InFlight(action'[r])
    BY Zenon DEF ReadOnly, ledgerVars, actionRows
  <2> QED
    BY Zenon, <1>1, <1>2, <2>3, <2>6, <2>7, GoesOn
<1> QED
  BY Zenon, <1>4, <1>5, <1>6

\* The dispatch, its repetition and what it leads to.
LEMMA DispatchSees ==
  ASSUME ActionsSafe, NEW r \in Run, NEW k \in Attempt, Writes(r, k), Sees(r, k),
         \/ Begin(r, k) \/ Retry(r, k) \/ _recover_external_dispatch(r, k) \/ Send(r, k)
         \/ Answered(r, k) \/ Ambiguous(r, k) \/ Evidence(r, k) \/ Finalize(r, k)
  PROVE  Saw(r, k)
<1>1. action[r].status = "outcome_unknown" => action'[r].status = "outcome_unknown"
  BY Zenon, UnknownStays
<1>2. pc[r][k] # "boundary"
  BY Zenon DEF Begin, Retry, _recover_external_dispatch, Send, Answered, Ambiguous, Evidence,
     Finalize
<1>3. CASE Begin(r, k) \/ Retry(r, k)
  <2>1. PICK d : d = action'[r].dispatch_count
    BY Zenon
  <2>2. \/ With(r, k, "send", d) \/ Raise(r, k, "run_cancel_requested") \/ Raise(r, k, "other")
        \/ Goto(r, k, "restore")
        \/ /\ action[r].status \in ActionTerminal /\ ReadOnly
           /\ Closing(r, k, "fail", "rejected")
    BY Zenon, <1>3, <2>1 DEF Begin, Retry
  <2>3. action[r].status \in ActionTerminal /\ ReadOnly => ~InFlight(action'[r])
    BY Zenon DEF ReadOnly, ledgerVars, actionRows, InFlight, ActionTerminal
  <2> QED
    BY Zenon, <1>1, <1>2, <2>2, <2>3, GoesOn
<1>4. CASE _recover_external_dispatch(r, k) \/ Answered(r, k) \/ Ambiguous(r, k)
  <2>1. PICK l \in {"unknown_leased", "retry", "succeeded", "failed", "unknown",
                    "retry_ambiguous"} : Goto(r, k, l)
    BY Zenon, <1>4 DEF _recover_external_dispatch, Answered, Ambiguous
  <2> QED
    BY Zenon, <1>1, <1>2, <2>1, GoesOn
<1>5. CASE Send(r, k)
  <2>1. Raise(r, k, "other") \/ Goto(r, k, "unknown_leased") \/ Goto(r, k, "await")
    BY Zenon, <1>5 DEF Send
  <2> QED
    BY Zenon, <1>1, <1>2, <2>1, GoesOn
<1>6. CASE Evidence(r, k) \/ Finalize(r, k)
  <2>1. \/ Goto(r, k, "finalize") \/ Raise(r, k, "evidence_incomplete")
        \/ Goto(r, k, "result") \/ Raise(r, k, "other")
    BY Zenon, <1>6 DEF Evidence, Finalize, Fenced
  <2> QED
    BY Zenon, <1>1, <1>2, <2>1, GoesOn
<1> QED
  BY Zenon, <1>3, <1>4, <1>5, <1>6

\* What is settled, restored or reported.
LEMMA ReportSees ==
  ASSUME ActionsSafe, NEW r \in Run, NEW k \in Attempt, Writes(r, k), Sees(r, k),
         \/ Restore(r, k) \/ Record(r, k) \/ _raise_external_outcome_unknown(r, k)
         \/ Fail(r, k) \/ Host(r, k)
  PROVE  Saw(r, k)
<1> USE AtHand
<1>1. action[r].status = "outcome_unknown" => action'[r].status = "outcome_unknown"
  BY Zenon, UnknownStays
<1>2. pc[r][k] # "boundary"
  BY Zenon DEF Restore, Record, _raise_external_outcome_unknown, Fail, Host
<1>3. CASE Restore(r, k)
  <2>1. PICK s : s = action[r].status
    BY Zenon
  <2>2. Goto(r, k, "evidence") \/ Closing(r, k, "fail_safely", s)
    BY Zenon, <1>3, <2>1 DEF Restore
  <2>3. s = "outcome_unknown" => action'[r].status = "outcome_unknown"
    BY Zenon, <1>1, <2>1
  <2> QED
    BY Zenon, <1>1, <1>2, <2>2, <2>3, GoesOn
<1>4. CASE Record(r, k)
  <2>1. \/ Goto(r, k, "evidence") \/ Goto(r, k, "unknown")
        \/ Closing(r, k, "fail_safely", "failed")
    BY Zenon, <1>4 DEF Record
  <2> QED
    BY Zenon, <1>1, <1>2, <2>1, GoesOn
<1>5. CASE _raise_external_outcome_unknown(r, k)
  <2>1. \/ /\ _finalize_external_action(r, frame[r][k].token, "outcome_unknown")
           /\ Closing(r, k, "fail_safely", "outcome_unknown")
        \/ Raise(r, k, "other") \/ Raise(r, k, "reconciliation_pending")
    BY Zenon, <1>5 DEF _raise_external_outcome_unknown, finalize_reconciliation_unknown
  <2>2. _finalize_external_action(r, frame[r][k].token, "outcome_unknown") =>
          action'[r].status = "outcome_unknown"
    BY Zenon, ActionWrites
    DEF ActionsSafe, ActionsInv, LedgerInv, _finalize_external_action, ExactDuplicate,
        ledgerVars, actionRows
  <2> QED
    BY Zenon, <1>1, <1>2, <2>1, <2>2, GoesOn
<1>6. CASE Fail(r, k)
  <2>1. PICK c : c = frame[r][k].exc
    BY Zenon
  <2>2. Raise(r, k, c) \/ Raise(r, k, "other")
    BY Zenon, <1>6, <2>1 DEF Fail
  <2>3. c = "outcome_unknown" => action'[r].status = "outcome_unknown"
    BY Zenon, <1>1, <2>1 DEF Sees
  <2> QED
    BY Zenon, <1>1, <1>2, <2>2, <2>3, GoesOn
<1>7. CASE Host(r, k)
  <2> DEFINE f == [frame[r][k] EXCEPT !.hosted = TRUE]
  <2> DEFINE g == [f EXCEPT !.token = action[r].dispatch_count]
  <2> DEFINE h == [f EXCEPT !.exc = "evidence_incomplete"]
  <2>1. /\ f.reconcile = frame[r][k].reconcile /\ f.exc = frame[r][k].exc
        /\ g.reconcile = frame[r][k].reconcile /\ g.exc = frame[r][k].exc
        /\ h.reconcile = frame[r][k].reconcile /\ h.exc = "evidence_incomplete"
    BY Zenon DEF Frame
  <2>2. \/ GotoWith(r, k, "manager", f) \/ GotoWith(r, k, "unknown_leased", g)
        \/ ~InFlight(action[r]) /\ GotoWith(r, k, "fail", h)
    BY Zenon, <1>7 DEF Host, InFlight
  <2> HIDE DEF f, g, h
  <2>3. /\ f.reconcile => k > 1
        /\ g.reconcile => k > 1
        /\ h.reconcile => k > 1
    BY Zenon, <1>2, <2>1 DEF Sees
  <2>4. /\ f.exc = "outcome_unknown" => action'[r].status = "outcome_unknown"
        /\ g.exc = "outcome_unknown" => action'[r].status = "outcome_unknown"
    BY Zenon, <1>1, <2>1 DEF Sees
  <2>5. ~InFlight(action[r]) => ~InFlight(action'[r])
    BY Zenon, <1>7 DEF Host, ReadOnly, ledgerVars, actionRows
  <2>6. CASE GotoWith(r, k, "manager", f) \/ GotoWith(r, k, "unknown_leased", g)
    BY Zenon, <2>3, <2>4, <2>6, Sighted
  <2>7. CASE ~InFlight(action[r]) /\ GotoWith(r, k, "fail", h)
    BY Zenon, <2>1, <2>3, <2>5, <2>7, Sighted
  <2> QED
    BY Zenon, <2>2, <2>6, <2>7
<1> QED
  BY Zenon, <1>3, <1>4, <1>5, <1>6, <1>7

\* The end of an attempt.
LEMMA FinishSees ==
  ASSUME AttemptsOK, NEW r \in Run, NEW k \in Attempt, Finish(r, k)
  PROVE  Saw(r, k)
<1>1. ~NoFrame.reconcile /\ NoFrame.exc # "outcome_unknown"
  BY Zenon DEF NoFrame
<1> QED
  BY Zenon, <1>1, Sighted DEF Finish

\* An attempt that ends its Run, or leaves it to its successor, reports nothing.
LEMMA EndSees ==
  ASSUME ActionsSafe, NEW r \in Run, NEW k \in Attempt, Writes(r, k), Sees(r, k),
         Result(r, k) \/ Cancel(r, k) \/ Manager(r, k) \/ Crash(r, k)
  PROVE  Saw(r, k)
<1>1. action[r].status = "outcome_unknown" => action'[r].status = "outcome_unknown"
  BY Zenon, UnknownStays
<1>2. AttemptsOK
  BY Zenon, AtHand
<1>3. CASE Finish(r, k)
  BY Zenon, <1>2, <1>3, FinishSees
<1>4. CASE pc[r][k] # "boundary" /\ (Goto(r, k, "cancel_result") \/ Goto(r, k, "cancel"))
  BY Zenon, <1>1, <1>4, GoesOn
<1> QED
  BY Zenon, <1>3, <1>4 DEF Result, Cancel, Manager, Crash, LeaseLost

\* Exceptions of the store.
LEMMA FaultSees ==
  ASSUME ActionsSafe, NEW r \in Run, NEW k \in Attempt, Sees(r, k), StoreFault(r, k)
  PROVE  Saw(r, k)
<1> USE AtHand
<1>1. action' = action /\ Faulted(r, k)
  BY Zenon DEF StoreFault, ledgerVars, actionRows
<1>2. action[r].status = "outcome_unknown" => action'[r].status = "outcome_unknown"
  BY Zenon, <1>1
<1>3. CASE Finish(r, k)
  BY Zenon, <1>3, FinishSees
<1>4. PICK c : c = frame[r][k].exc
  BY Zenon
<1>5. \/ Finish(r, k)
      \/ /\ pc[r][k] # "boundary"
         /\ \/ Raise(r, k, "other") \/ Escape(r, k) \/ Goto(r, k, "unknown")
            \/ Raise(r, k, "reconciliation_pending") \/ Goto(r, k, "evidence_again")
            \/ Raise(r, k, "evidence_incomplete") \/ Raise(r, k, c)
            \/ /\ pc[r][k] = "prepare" /\ ~frame[r][k].recovered
               /\ Closing(r, k, "fail", "rejected")
  <2>1. pc[r][k] \in Label \ {"idle", "done", "recover", "await"}
    <3>1. pc[r][k] \in Label
      BY Zenon DEF AttemptsOK
    <3> QED
      BY Zenon, <3>1 DEF StoreFault, Busy
  <2>2. CASE pc[r][k] \in {"boundary", "cancel", "manager"}
    BY Zenon, <1>1, <2>2 DEF Faulted
  <2>3. CASE pc[r][k] \in {"host", "result", "cancel_result", "open", "prepare"}
    BY Zenon, <1>1, <2>3 DEF Faulted, PrepareFailed
  <2>4. CASE pc[r][k] \in {"succeeded", "failed", "unknown", "unknown_leased", "evidence",
                           "evidence_again", "fail_safely"}
    BY Zenon, <1>1, <1>4, <2>4 DEF Faulted
  <2>5. CASE pc[r][k] \in {"mark", "resolve", "step", "claim", "begin", "retry", "send",
                           "retry_ambiguous", "restore", "finalize", "fail"}
    BY Zenon, <1>1, <2>5 DEF Faulted
  <2> QED
    BY Zenon, <2>1, <2>2, <2>3, <2>4, <2>5 DEF Label
<1>6. c = "outcome_unknown" => action'[r].status = "outcome_unknown"
  BY Zenon, <1>2, <1>4 DEF Sees
<1>7. pc[r][k] = "prepare" /\ ~frame[r][k].recovered => ~Current(r, k) \/ ~InFlight(action'[r])
  BY Zenon, <1>1 DEF Sees, InFlight
<1> QED
  BY Zenon, <1>2, <1>3, <1>5, <1>6, <1>7, GoesOn

\* Every step of an attempt leaves it seeing.
LEMMA AttemptSees ==
  ASSUME ActionsSafe, NEW r \in Run, NEW k \in Attempt, Sees(r, k),
         drifts = 0 => registered[r] # NoProvider,
         Work(r, k) \/ Crash(r, k) \/ StoreFault(r, k)
  PROVE  Saw(r, k)
<1>1. Writes(r, k)
  BY Zenon, AttemptSteps DEF Steps
<1> QED
  BY Zenon, <1>1, EntrySees, StepSees, DispatchSees, ReportSees, EndSees, FaultSees
  DEF Work, Local

\* Whatever another attempt writes, an attempt goes on seeing what it saw.
LEMMA SeesStill ==
  ASSUME ActionsSafe, [ActionsNext]_actionVars, NEW q \in Run, NEW j \in Attempt, Sees(q, j),
         pc'[q][j] = pc[q][j], frame'[q][j] = frame[q][j], drifts' = 0 => drifts = 0,
         \/ action'[q] = action[q]
         \/ \E k \in Attempt : k # j /\ Writes(q, k)
  PROVE  Sees(q, j)'
<1>1. action[q].status = "outcome_unknown" => action'[q].status = "outcome_unknown"
  BY Zenon, UnknownStays
<1>2. ASSUME pc[q][j] # "idle", Current(q, j)'
      PROVE  /\ Current(q, j)
             /\ action[q].status = "none" => action'[q].status = "none"
             /\ InFlight(action'[q]) => InFlight(action[q])
  <2>1. Current(q, j)
    BY Zenon, <1>2, CurrentStays
  <2>2. ASSUME NEW k \in Attempt, k # j PROVE ~Current(q, k)
    BY Zenon, <2>1, <2>2 DEF Current, assert_current_run_lease, CurrentLease
  <2>3. action'[q] = action[q] \/ Settles(q)
    BY Zenon, <2>2 DEF Writes
  <2>4. Settles(q) => /\ action[q].status # "none"
                      /\ ~InFlight(action'[q])
    BY Zenon DEF Settles, InFlight, ActionTerminal
  <2> QED
    BY Zenon, <2>1, <2>3, <2>4
<1>3. frame'[q][j].reconcile = frame[q][j].reconcile
      /\ frame'[q][j].recovered = frame[q][j].recovered
      /\ frame'[q][j].exc = frame[q][j].exc
  BY Zenon
<1>4. frame'[q][j].reconcile => j > 1 \/ pc'[q][j] = "boundary"
  BY Zenon, <1>3 DEF Sees
<1>5. frame'[q][j].exc = "outcome_unknown" => action'[q].status = "outcome_unknown"
  BY Zenon, <1>1, <1>3 DEF Sees
<1>6. Current(q, j)' /\ pc'[q][j] = "prepare" /\ ~frame'[q][j].recovered =>
        action'[q].status = "none"
  BY Zenon, <1>2, <1>3 DEF Sees
<1>7. Current(q, j)' /\ pc'[q][j] = "fail" /\ drifts' = 0 => ~InFlight(action'[q])
  BY Zenon, <1>2 DEF Sees
<1> QED
  BY Zenon, <1>4, <1>5, <1>6, <1>7 DEF Sees

\* A claim starts an attempt at the boundary.
LEMMA ClaimSees ==
  ASSUME ActionsSafe, [ActionsNext]_actionVars, NEW r \in Run, ClaimNext(r),
         NEW q \in Run, NEW j \in Attempt, Sees(q, j)
  PROVE  Sees(q, j)'
<1> DEFINE f == [NoFrame EXCEPT !.cancel = cancel_requested[r],
                                !.reconcile = error_code'[r] = PENDING]
<1>1. action' = action /\ drifts' = drifts
  BY Zenon DEF ClaimNext, Claim, worldVars, ledgerVars, actionRows
<1>2. PICK k \in Attempt : k = attempt'[r]
  <2>1. attempt'[r] = attempt[r] + 1 /\ attempt[r] < MaxAttempts /\ attempt[r] \in Nat
    BY DEF ClaimNext, Claim, claim_next_run, Lease, ActionsSafe, ActionsInv, TypeOK
  <2>2. attempt'[r] \in Attempt
    BY <2>1, RunStoreAssumption DEF Attempt
  <2> QED
    BY Zenon, <2>2
<1>3. pc' = [pc EXCEPT ![r][k] = "boundary"] /\ frame' = [frame EXCEPT ![r][k] = f]
  BY Zenon, <1>2 DEF ClaimNext, Claim, GotoWith
<1>4. f.exc = "none"
  BY Zenon DEF NoFrame
<1> HIDE DEF f
<1>5. CASE q = r /\ j = k
  <2>1. pc'[q][j] = "boundary" /\ frame'[q][j] = f
    BY Zenon, <1>3, <1>5 DEF ActionsSafe, ActionsInv, AttemptsOK
  <2> QED
    BY Zenon, <1>4, <2>1 DEF Sees
<1>6. CASE ~(q = r /\ j = k)
  <2>1. pc'[q][j] = pc[q][j] /\ frame'[q][j] = frame[q][j]
    BY Zenon, <1>3, <1>6 DEF ActionsSafe, ActionsInv, AttemptsOK
  <2> QED
    BY Zenon, <1>1, <2>1, SeesStill
<1> QED
  BY Zenon, <1>5, <1>6

\* The registration changes by drifts only.
LEMMA DriftStep ==
  ASSUME [ActionsNext]_actionVars
  PROVE  \/ drifts' = drifts /\ registered' = registered
         \/ drifts' = drifts + 1
<1>1. ASSUME NEW r \in Run, NEW k \in Attempt, Work(r, k) \/ Crash(r, k) \/ StoreFault(r, k)
      PROVE  drifts' = drifts /\ registered' = registered
  BY Zenon, <1>1 DEF Work, Crash, StoreFault, worldVars
<1>2. ASSUME NEW r \in Run, ClaimNext(r) \/ Client(r) \/ Deliver(r)
      PROVE  drifts' = drifts /\ registered' = registered
  BY Zenon, <1>2 DEF ClaimNext, Client, Deliver, worldVars
<1>3. ASSUME NEW r \in Run, Drift(r) PROVE drifts' = drifts + 1
  BY Zenon, <1>3 DEF Drift
<1>4. ASSUME NEW r \in Run, NEW k \in Attempt, Lapse(r, k)
      PROVE  drifts' = drifts /\ registered' = registered
  BY Zenon, <1>4 DEF Lapse, worldVars
<1>5. ASSUME UNCHANGED actionVars PROVE drifts' = drifts /\ registered' = registered
  BY Zenon, <1>5 DEF actionVars, worldVars
<1> QED
  BY Zenon, <1>1, <1>2, <1>3, <1>4, <1>5 DEF ActionsNext

\* The workflow of a dispatch in flight is open as long as the provider stays
\* registered.
OpenWhileInFlight ==
  drifts = 0 => \A r \in Run : workflow[r].status = "failed" => ~InFlight(action[r])

\* Without changes of the registry an attempt closes the workflow as failed only
\* when no dispatch is in flight.
LEMMA WorkKeepsOpen ==
  ASSUME ActionsSafe, NEW r \in Run, NEW k \in Attempt, Sees(r, k), Local(r, k), drifts = 0,
         workflow[r].status = "failed" => ~InFlight(action[r]), workflow'[r].status = "failed"
  PROVE  ~InFlight(action'[r])
<1> USE AtHand
<1>t. LedgerTypeOK
  BY Zenon DEF ActionsSafe, ActionsInv, LedgerInv
<1>1. CASE UNCHANGED ledgerVars
  BY Zenon, <1>1 DEF ledgerVars, actionRows
<1>2. CASE /\ Open(r, k) \/ Mark(r, k) \/ Finalize(r, k)
           /\ ~UNCHANGED ledgerVars
  <2>1. /\ action' = action
        /\ \/ create_or_get_execution(r, k, ActionInput) \/ mark_running(r, k)
           \/ _finalize_execution(r, k, "ready", "none")
    BY Zenon, <1>2 DEF Open, Mark, Finalize, Fenced, ReadOnly, actionRows
  <2>2. workflow[r].status = "failed"
    <3>1. CASE create_or_get_execution(r, k, ActionInput)
      <4>1. workflow'[r].status =
              IF workflow[r].status = "none" THEN "pending" ELSE workflow[r].status
        BY Zenon, <1>t, <3>1, WorkflowWrites
      <4> QED
        BY Zenon, <4>1
    <3>2. CASE mark_running(r, k)
      <4>1. workflow'[r].status = "running"
        BY Zenon, <1>t, <3>2, WorkflowWrites
      <4> QED
        BY Zenon, <4>1
    <3>3. CASE _finalize_execution(r, k, "ready", "none")
      <4>1. workflow'[r].status =
              IF workflow[r].status = "running" THEN "ready" ELSE workflow[r].status
        BY Zenon, <1>t, <3>3, WorkflowWrites
      <4> QED
        BY Zenon, <4>1
    <3> QED
      BY Zenon, <2>1, <3>1, <3>2, <3>3
  <2> QED
    BY Zenon, <2>1, <2>2
<1>3. CASE Fail(r, k) /\ ~UNCHANGED ledgerVars
  <2>1. /\ action' = action /\ pc[r][k] \in {"fail", "fail_safely"}
        /\ \E s, code : _finalize_execution(r, k, s, code)
    BY Zenon, <1>3 DEF Fail, ReadOnly, actionRows
  <2>2. Current(r, k)
    BY Zenon, <1>t, <2>1, WorkflowWrites
  <2>3. pc[r][k] = "fail_safely" => ~InFlight(action[r])
    BY Zenon DEF Recalls, InFlight, ActionTerminal
  <2>4. pc[r][k] = "fail" => ~InFlight(action[r])
    BY Zenon, <2>2 DEF Sees
  <2> QED
    BY Zenon, <2>1, <2>3, <2>4
<1>4. CASE ClaimStep(r, k) /\ ~UNCHANGED ledgerVars
  <2>1. action' = action /\ workflow' = workflow
    BY Zenon, <1>4 DEF ClaimStep, Fenced, claim_step, ReadOnly
  <2> QED
    BY Zenon, <2>1
<1>5. CASE Prepare(r, k) /\ ~UNCHANGED ledgerVars
  <2>1. workflow' = workflow
    BY Zenon, <1>5 DEF Prepare, prepare_external_action, ReadOnly
  <2>2. \E t, p : prepare_external_action(r, t, p)
    BY Zenon, <1>5 DEF Prepare, ReadOnly
  <2>3. action'[r].status = "prepared" \/ action'[r] = action[r]
    BY <1>t, <2>2 DEF prepare_external_action, LedgerTypeOK
  <2> QED
    BY Zenon, <2>1, <2>3 DEF InFlight
<1>6. CASE (Begin(r, k) \/ Retry(r, k)) /\ ~UNCHANGED ledgerVars
  <2>1. /\ workflow' = workflow /\ Current(r, k)
        /\ pc[r][k] \in {"begin", "retry", "retry_ambiguous"}
    BY Zenon, <1>6 DEF Begin, begin_external_action_dispatch, Retry,
       retry_external_action_dispatch, Redispatch, ReadOnly, Current
  <2>2. pc[r][k] \in Working /\ pc[r][k] # "idle"
    BY Zenon, <2>1 DEF Working
  <2>3. workflow[r].status = "running"
    BY Zenon, <2>1, <2>2 DEF OwnerKnows
  <2> QED
    BY Zenon, <2>1, <2>3
<1>7. CASE (Record(r, k) \/ _raise_external_outcome_unknown(r, k)) /\ ~UNCHANGED ledgerVars
  <2>1. \E d, s : s \in ActionTerminal /\ Settle(r, d, s)
    <3>1. "succeeded" \in ActionTerminal /\ "failed" \in ActionTerminal
          /\ "outcome_unknown" \in ActionTerminal
      BY Zenon DEF ActionTerminal
    <3>2. CASE Record(r, k)
      <4>1. pc[r][k] \in ActionTerminal /\ Settle(r, frame[r][k].token, pc[r][k])
        BY Zenon, <1>7, <3>1, <3>2 DEF Record, _finalize_external_action, ReadOnly
      <4>2. PICK d, s : d = frame[r][k].token /\ s = pc[r][k]
        BY Zenon
      <4>3. s \in ActionTerminal /\ Settle(r, d, s)
        BY Zenon, <4>1, <4>2 DEF Settle, HoldsDispatch
      <4> QED
        BY Zenon, <4>3
    <3>3. CASE _raise_external_outcome_unknown(r, k)
      <4>1. Settle(r, frame[r][k].token, "outcome_unknown")
        BY Zenon, <1>7, <3>3
        DEF _raise_external_outcome_unknown, finalize_reconciliation_unknown,
            _finalize_external_action, ReadOnly
      <4>2. PICK d : d = frame[r][k].token
        BY Zenon
      <4>3. Settle(r, d, "outcome_unknown")
        BY Zenon, <4>1, <4>2 DEF Settle, HoldsDispatch
      <4> QED
        BY Zenon, <3>1, <4>3
    <3> QED
      BY Zenon, <1>7, <3>2, <3>3
  <2>2. action'[r].status \in ActionTerminal
    BY <1>t, <2>1 DEF Settle, LedgerTypeOK
  <2> QED
    BY Zenon, <2>2 DEF InFlight, ActionTerminal
<1>8. CASE \/ Boundary(r, k) \/ Resolve(r, k) \/ Host(r, k) \/ Step(r, k)
           \/ _recover_external_dispatch(r, k) \/ Restore(r, k) \/ Answered(r, k)
           \/ Ambiguous(r, k) \/ Evidence(r, k)
  BY Zenon, <1>1, <1>8 DEF Boundary, Resolve, Host, Step, _recover_external_dispatch, Restore,
     Answered, Ambiguous, Evidence, ReadOnly
<1>9. CASE Result(r, k) \/ Cancel(r, k) \/ Manager(r, k)
  BY Zenon, <1>1, <1>9 DEF Result, Cancel, Manager
<1> QED
  BY Zenon, <1>1, <1>2, <1>3, <1>4, <1>5, <1>6, <1>7, <1>8, <1>9 DEF Local

-----------------------------------------------------------------------------
(* The system below the API. *)

\* The inductive invariant of the system, with what attempts see.
Sighting ==
  /\ ActionsSafe /\ drifts \in Nat /\ OpenWhileInFlight
  /\ drifts = 0 => \A r \in Run : registered[r] # NoProvider
  /\ \A r \in Run, k \in Attempt : Sees(r, k)

\* It holds when the system starts ...
LEMMA SightingStart == ActionsInit => Sighting
<1> SUFFICES ASSUME ActionsInit PROVE Sighting
  OBVIOUS
<1>1. ActionsSafe
  BY Zenon, SafeStart
<1>2. drifts \in Nat
  <2>1. drifts = 0
    BY Zenon DEF ActionsInit
  <2> QED
    BY <2>1
<1>3. \A r \in Run : workflow[r].status # "failed"
  <2>1. \A r \in Run : workflow[r] = NoExecution
    BY Zenon DEF ActionsInit, LedgerInit
  <2> QED
    BY <2>1 DEF NoExecution
<1>4. \A r \in Run : registered[r] # NoProvider
  BY Zenon, LedgerAssumption DEF ActionsInit
<1>5. ASSUME NEW r \in Run, NEW k \in Attempt PROVE Sees(r, k)
  <2>1. pc[r][k] = "idle" /\ frame[r][k] = NoFrame
    BY Zenon DEF ActionsInit
  <2>2. ~NoFrame.reconcile /\ NoFrame.exc # "outcome_unknown"
    BY Zenon DEF NoFrame
  <2>3. ~frame[r][k].reconcile /\ frame[r][k].exc # "outcome_unknown"
    BY Zenon, <2>1, <2>2
  <2> QED
    BY Zenon, <2>1, <2>3 DEF Sees
<1> QED
  BY Zenon, <1>1, <1>2, <1>3, <1>4, <1>5 DEF Sighting, OpenWhileInFlight

\* ... and every step of the system keeps it.
LEMMA SightingStep ==
  ASSUME Sighting, [ActionsNext]_actionVars
  PROVE  Sighting'
<1>1. ActionsSafe /\ ActionsSafe'
  BY Zenon, SafeStep DEF Sighting
<1>2. drifts' \in Nat /\ (drifts' = 0 => drifts = 0 /\ registered' = registered)
  <2>1. drifts \in Nat
    BY Zenon DEF Sighting
  <2> QED
    BY <2>1, DriftStep
<1>3. ASSUME NEW q \in Run, NEW j \in Attempt PROVE Sees(q, j)'
  <2>1. Sees(q, j)
    BY Zenon DEF Sighting
  <2>2. CASE UNCHANGED <<ledgerVars, attemptVars, faults>>
    BY Zenon, <1>1, <1>2, <2>1, <2>2, SeesStill DEF ledgerVars, actionRows, attemptVars
  <2>3. ASSUME NEW r \in Run, ClaimNext(r) PROVE Sees(q, j)'
    BY Zenon, <1>1, <2>1, <2>3, ClaimSees
  <2>4. ASSUME NEW r \in Run, NEW k \in Attempt, Work(r, k) \/ Crash(r, k) \/ StoreFault(r, k)
        PROVE  Sees(q, j)'
    <3>1. Steps(r, k)
      BY Zenon, <1>1, <2>4, AttemptSteps
    <3>2. CASE q = r /\ j = k
      <4>1. Saw(r, k)
        BY Zenon, <1>1, <2>1, <2>4, <3>2, AttemptSees DEF Sighting
      <4>2. Current(q, j)' => Current(q, j)
        BY Zenon, <1>1, <3>1, <3>2, CurrentStays DEF Steps
      <4> QED
        BY Zenon, <1>2, <3>2, <4>1, <4>2 DEF Saw, Sees
    <3>3. CASE q = r /\ j # k
      BY Zenon, <1>1, <1>2, <2>1, <3>1, <3>3, SeesStill DEF Steps
    <3>4. CASE q # r
      <4>1. action'[q] = action[q] /\ pc'[q][j] = pc[q][j] /\ frame'[q][j] = frame[q][j]
        BY Zenon, <3>1, <3>4 DEF Steps, Writes
      <4> QED
        BY Zenon, <1>1, <1>2, <2>1, <4>1, SeesStill
    <3> QED
      BY Zenon, <3>2, <3>3, <3>4
  <2> QED
    BY Zenon, <2>2, <2>3, <2>4, OtherSteps
<1>4. ASSUME drifts' = 0, NEW q \in Run, workflow'[q].status = "failed"
      PROVE  ~InFlight(action'[q])
  <2>1. drifts = 0 /\ (workflow[q].status = "failed" => ~InFlight(action[q]))
    BY Zenon, <1>2, <1>4 DEF Sighting, OpenWhileInFlight
  <2>2. CASE action' = action /\ workflow' = workflow
    BY Zenon, <1>4, <2>1, <2>2
  <2>3. ASSUME NEW r \in Run, NEW k \in Attempt, Local(r, k) PROVE ~InFlight(action'[q])
    <3>1. CASE q = r
      BY Zenon, <1>1, <1>4, <2>1, <2>3, <3>1, WorkKeepsOpen DEF Sighting
    <3>2. CASE q # r
      <4>1. Writes(r, k)
        BY Zenon, <1>1, <2>3, LocalWrites
      <4>2. action'[q] = action[q] /\ workflow'[q] = workflow[q]
        BY Zenon, <3>2, <4>1 DEF Writes
      <4> QED
        BY Zenon, <1>4, <2>1, <4>2
    <3> QED
      BY Zenon, <3>1, <3>2
  <2>4. ASSUME NEW r \in Run, NEW k \in Attempt, Send(r, k) \/ Crash(r, k) \/ StoreFault(r, k)
        PROVE  action' = action /\ workflow' = workflow
    BY Zenon, <2>4 DEF Send, Crash, StoreFault, ReadOnly, ledgerVars, actionRows
  <2>5. ASSUME NEW r \in Run, ClaimNext(r) PROVE action' = action /\ workflow' = workflow
    BY Zenon, <2>5 DEF ClaimNext, Claim, ledgerVars, actionRows
  <2>6. UNCHANGED <<ledgerVars, attemptVars, faults>> => action' = action /\ workflow' = workflow
    BY Zenon DEF ledgerVars, actionRows
  <2> QED
    BY Zenon, <2>2, <2>3, <2>4, <2>5, <2>6, OtherSteps DEF Work
<1>5. drifts' = 0 => \A r \in Run : registered'[r] # NoProvider
  BY Zenon, <1>2 DEF Sighting
<1> QED
  BY Zenon, <1>1, <1>2, <1>3, <1>4, <1>5 DEF Sighting, OpenWhileInFlight

-----------------------------------------------------------------------------
(* The callers. *)

\* A running Run fails in a commit of the attempt that holds its lease.
LEMMA FailureIsHeld ==
  ASSUME ActionsSafe, [ActionsNext]_actionVars, NEW q \in Run,
         status[q] = "running", status'[q] = "failed"
  PROVE  lease_token[q] \in Attempt
<1> USE DEF vars
<1>t. status \in [Run -> Status]
  BY Zenon DEF ActionsSafe, ActionsInv, TypeOK
<1>c. status'[q] # status[q]
  BY Zenon
<1>1. CASE UNCHANGED vars
  BY Zenon, <1>1, <1>c
<1>2. ASSUME NEW r \in Run, Client(r) PROVE FALSE
  <2>1. CASE create_run_with_event(r) \/ request_cancel_atomically(r)
    BY Zenon, <1>t, <1>c, <2>1 DEF create_run_with_event, _insert_run, request_cancel_atomically
  <2>2. CASE finalize_next_queued_cancellation(r)
    BY Zenon, <1>t, <1>c, <2>2
    DEF finalize_next_queued_cancellation, QueuedCancellation, _terminalize
  <2> QED
    BY Zenon, <1>2, <2>1, <2>2 DEF Client
<1>3. ASSUME NEW r \in Run, ClaimNext(r) PROVE FALSE
  BY Zenon, <1>t, <1>c, <1>3 DEF ClaimNext, Claim, claim_next_run, Lease
<1>4. ASSUME NEW r \in Run, Drift(r) \/ Deliver(r) PROVE FALSE
  BY Zenon, <1>4, <1>c DEF Drift, Deliver
<1>5. ASSUME NEW r \in Run, NEW k \in Attempt, Crash(r, k) \/ StoreFault(r, k) \/ Lapse(r, k)
      PROVE  FALSE
  BY Zenon, <1>5, <1>c DEF Crash, StoreFault, Lapse, expire_run_lease
<1>6. ASSUME NEW r \in Run, NEW k \in Attempt, Work(r, k) PROVE lease_token[q] \in Attempt
  <2> USE DEF ReadOnly
  <2>1. CASE Send(r, k)
    BY Zenon, <1>c, <2>1 DEF Send
  <2>2. CASE \/ Boundary(r, k) \/ Resolve(r, k) \/ Host(r, k) \/ Step(r, k)
             \/ _recover_external_dispatch(r, k) \/ Restore(r, k) \/ Answered(r, k)
             \/ Ambiguous(r, k) \/ Evidence(r, k)
    BY Zenon, <1>c, <2>2 DEF Boundary, Resolve, Host, Step, _recover_external_dispatch, Restore,
       Answered, Ambiguous, Evidence
  <2>3. CASE Open(r, k) \/ Mark(r, k) \/ Finalize(r, k) \/ Fail(r, k)
    BY Zenon, <1>c, <2>3 DEF Open, Mark, Finalize, Fail, Fenced, create_or_get_execution,
       mark_running, _finalize_execution
  <2>4. CASE ClaimStep(r, k) \/ Prepare(r, k) \/ Begin(r, k) \/ Retry(r, k)
    BY Zenon, <1>c, <2>4 DEF ClaimStep, Fenced, claim_step, Prepare, prepare_external_action, Begin,
       begin_external_action_dispatch, Retry, retry_external_action_dispatch, Redispatch
  <2>5. CASE Record(r, k) \/ _raise_external_outcome_unknown(r, k)
    BY Zenon, <1>c, <2>5 DEF Record, _raise_external_outcome_unknown,
       finalize_reconciliation_unknown, _finalize_external_action, Settle
  <2>6. CASE Result(r, k)
    <3>1. commit_completed_run(r, k)
      BY Zenon, <1>c, <2>6 DEF Result, LeaseLost
    <3> QED
      BY Zenon, <1>t, <1>c, <3>1 DEF commit_completed_run, SaveCheckpoint, RejectStaleResult,
         _fail_checkpoint_conflict, _terminalize, CurrentLease
  <2>7. CASE Cancel(r, k)
    BY Zenon, <1>t, <1>c, <2>7 DEF Cancel, LeaseLost, commit_cancelled_run, _terminalize
  <2>8. CASE Manager(r, k)
    BY Zenon, <1>t, <1>c, <2>8 DEF Manager, LeaseLost, commit_failed_run,
       commit_reconciliation_pending, _terminalize, CurrentLease
  <2> QED
    BY Zenon, <1>6, <2>1, <2>2, <2>3, <2>4, <2>5, <2>6, <2>7, <2>8 DEF Work, Local
<1> QED
  BY Zenon, <1>1, <1>2, <1>3, <1>4, <1>5, <1>6 DEF ActionsNext, actionVars

\* A recorded outcome is final.
LEMMA FinalStays ==
  ASSUME ActionsSafe, [ActionsNext]_actionVars, NEW q \in Run,
         action[q].status \in ActionTerminal
  PROVE  action'[q] = action[q]
<1>1. ASSUME NEW r \in Run, NEW k \in Attempt, Steps(r, k) PROVE action'[q] = action[q]
  BY Zenon, <1>1 DEF Steps, Writes, Prepares, Dispatches, Settles, InFlight, ActionTerminal
<1>2. ASSUME NEW r \in Run, ClaimNext(r) PROVE action' = action
  BY Zenon, <1>2 DEF ClaimNext, Claim, ledgerVars, actionRows
<1>3. UNCHANGED <<ledgerVars, attemptVars, faults>> => action' = action
  BY Zenon DEF ledgerVars, actionRows
<1> QED
  BY Zenon, <1>1, <1>2, <1>3, OtherSteps, AttemptSteps

\* The exceptions of the store and the changes of the registry that the model
\* allows.
Bounded == faults <= MaxFaults /\ drifts <= MaxDrifts

\* No step exceeds the bounds.
LEMMA BoundedStep ==
  ASSUME Bounded, faults \in Nat, drifts \in Nat, [ActionsNext]_actionVars
  PROVE  Bounded'
<1>1. ASSUME UNCHANGED <<faults, drifts>> PROVE Bounded'
  BY Zenon, <1>1 DEF Bounded
<1>2. ASSUME NEW r \in Run, NEW k \in Attempt, Work(r, k) \/ Crash(r, k) \/ Lapse(r, k)
      PROVE  UNCHANGED <<faults, drifts>>
  BY Zenon, <1>2 DEF Work, Crash, Lapse, worldVars
<1>3. ASSUME NEW r \in Run, ClaimNext(r) \/ Client(r) \/ Deliver(r)
      PROVE  UNCHANGED <<faults, drifts>>
  BY Zenon, <1>3 DEF ClaimNext, Client, Deliver, worldVars
<1>4. ASSUME NEW r \in Run, Drift(r) PROVE Bounded'
  <2>1. drifts < MaxDrifts /\ drifts' = drifts + 1 /\ faults' = faults
    BY Zenon, <1>4 DEF Drift
  <2> QED
    BY <2>1, ActionsAssumption DEF Bounded
<1>5. ASSUME NEW r \in Run, NEW k \in Attempt, StoreFault(r, k) PROVE Bounded'
  <2>1. faults < MaxFaults /\ faults' = faults + 1 /\ drifts' = drifts
    BY Zenon, <1>5 DEF StoreFault
  <2> QED
    BY <2>1, ActionsAssumption DEF Bounded
<1> QED
  BY Zenon, <1>1, <1>2, <1>3, <1>4, <1>5 DEF ActionsNext, actionVars, worldVars

\* What a Run record tells after the Run has moved on: an end, and its codes.
Remembers(row, r) ==
  /\ row.unknown => unknown[r]
  /\ row.status \in Terminal => row.status = status[r] /\ row.error_code = error_code[r]

\* What a caller holds is of a Run, and true of it as far as it goes.
Holds(x) ==
  /\ x.stage \in {"absent", "bound"} => x.run \in Run
  /\ x.stage = "bound" => Remembers(x.row, x.run)

\* The callers hold such requests, and a Run with the code
\* external_action_outcome_unknown has that outcome in the ledger.
CallersOK ==
  /\ DOMAIN caller = Caller
  /\ \A r \in Run : unknown[r] => action[r].status = "outcome_unknown"
  /\ \A c \in Caller : Holds(caller[c])

\* The inductive invariant of the gateway.
GatewaySafe == Sighting /\ Bounded /\ CallersOK

\* It holds before the first request.
LEMMA GatewayStart == GatewayInit => GatewaySafe
<1> SUFFICES ASSUME GatewayInit PROVE GatewaySafe
  OBVIOUS
<1>1. Sighting
  BY Zenon, SightingStart DEF GatewayInit
<1>2. Bounded
  <2>1. faults = 0 /\ drifts = 0
    BY Zenon DEF GatewayInit, ActionsInit
  <2> QED
    BY <2>1, ActionsAssumption DEF Bounded
<1>3. DOMAIN caller = Caller /\ \A r \in Run : ~unknown[r]
  BY Zenon DEF GatewayInit
<1>4. ASSUME NEW c \in Caller PROVE caller[c].stage = "idle"
  <2>1. caller[c] = Idle
    BY Zenon DEF GatewayInit
  <2> QED
    BY <2>1 DEF Idle
<1> QED
  BY Zenon, <1>1, <1>2, <1>3, <1>4 DEF GatewaySafe, CallersOK, Holds

\* The requests of the API change nothing below it but that they create Runs.
LEMMA GatewayIsActions ==
  ASSUME CallersOK, [GatewayNext]_allGatewayVars
  PROVE  [ActionsNext]_actionVars
<1>1. CASE System
  BY Zenon, <1>1 DEF System
<1>2. ASSUME NEW c \in Caller, Submit(c) PROVE [ActionsNext]_actionVars
  <2>1. caller[c].run \in Run
    BY Zenon, <1>2 DEF Submit, CallersOK, Holds
  <2>2. CASE NothingElse
    BY Zenon, <2>2 DEF NothingElse
  <2>3. CASE Client(caller[c].run)
    BY Zenon, <2>1, <2>3 DEF ActionsNext
  <2> QED
    BY Zenon, <1>2, <2>2, <2>3 DEF Submit, Client
<1>3. ASSUME NEW c \in Caller, \/ \E r \in Run, b \in Body : Lookup(c, r, b)
                               \/ \E r \in Run : Poll(c, r)
                               \/ Answer(c) \/ Leave(c)
      PROVE  UNCHANGED actionVars
  BY Zenon, <1>3 DEF Lookup, Poll, Answer, Leave, NothingElse
<1> QED
  BY Zenon, <1>1, <1>2, <1>3 DEF GatewayNext, allGatewayVars

\* The code of a Run is set when it fails with it, and stays.
LEMMA UnknownIsRecorded ==
  ASSUME Sighting, CallersOK, [GatewayNext]_allGatewayVars, NEW r \in Run
  PROVE  /\ unknown[r] => unknown'[r]
         /\ unknown'[r] => action'[r].status = "outcome_unknown"
<1>1. [ActionsNext]_actionVars /\ ActionsSafe
  BY Zenon, GatewayIsActions DEF Sighting
<1>2. unknown'[r] = unknown[r] \/ unknown'[r] = (unknown[r] \/ RunFailsUnknown(r))
  BY Zenon DEF GatewayNext, System, Lookup, Poll, Submit, Answer, Leave, NothingElse,
     allGatewayVars, gatewayVars
<1>3. action[r].status = "outcome_unknown" => action'[r].status = "outcome_unknown"
  BY Zenon, <1>1, FinalStays DEF ActionTerminal
<1>4. ASSUME RunFailsUnknown(r) PROVE action[r].status = "outcome_unknown"
  <2>1. PICK k \in Attempt : k = lease_token[r]
    BY Zenon, <1>1, <1>4, FailureIsHeld DEF RunFailsUnknown
  <2>2. Sees(r, k) /\ frame[r][k].exc = "outcome_unknown"
    BY Zenon, <1>4, <2>1 DEF RunFailsUnknown, Sighting
  <2> QED
    BY Zenon, <2>2 DEF Sees
<1>5. unknown[r] => action[r].status = "outcome_unknown"
  BY Zenon DEF CallersOK
<1> QED
  BY Zenon, <1>2, <1>3, <1>4, <1>5

\* A record that is held, or was just read, remembers the Run.
LEMMA RowsRemembered ==
  ASSUME Sighting, CallersOK, [GatewayNext]_allGatewayVars, NEW r \in Run
  PROVE  /\ \A row : Remembers(row, r) => Remembers(row, r)'
         /\ Remembers(Row(r), r)
<1>1. [ActionsNext]_actionVars /\ ActionsSafe
  BY Zenon, GatewayIsActions DEF Sighting
<1>2. status[r] \in Terminal => status'[r] = status[r] /\ error_code'[r] = error_code[r]
  BY Zenon, <1>1, RunRowSteps
<1>3. unknown[r] => unknown'[r]
  BY Zenon, UnknownIsRecorded
<1>4. ASSUME NEW row, Remembers(row, r) PROVE Remembers(row, r)'
  BY Zenon, <1>2, <1>3, <1>4 DEF Remembers
<1>5. Remembers(Row(r), r)
  <2>1. Row(r).unknown = unknown[r] /\ Row(r).status = status[r]
        /\ Row(r).error_code = error_code[r]
    BY Zenon DEF Row
  <2> QED
    BY Zenon, <2>1 DEF Remembers
<1> QED
  BY Zenon, <1>4, <1>5

\* The request a caller has under way after a step of its own.
LEMMA Turns ==
  ASSUME CallersOK, NEW c \in Caller, NEW x, Becomes(c, x)
  PROVE  caller'[c] = x /\ \A d \in Caller \ {c} : caller'[d] = caller[d]
BY Zenon DEF CallersOK, Becomes

\* What the requests of the API hold.
LEMMA RequestsHold ==
  ASSUME Sighting, CallersOK, [GatewayNext]_allGatewayVars, NEW x
  PROVE  /\ x = Idle \/ x = Refused => Holds(x)'
         /\ \A r \in Run : \A b :
              /\ x = Absent(r, b) => Holds(x)'
              /\ x = Bound(r, b, Row(r)) => Holds(x)'
              /\ x = Bound(r, b, [NoRow EXCEPT !.status = "queued"]) => Holds(x)'
<1>1. ASSUME x = Idle \/ x = Refused PROVE Holds(x)'
  <2>1. x.stage \notin {"absent", "bound"}
    BY <1>1 DEF Idle, Refused
  <2> QED
    BY Zenon, <2>1 DEF Holds
<1>2. ASSUME NEW r \in Run, NEW b, x = Absent(r, b) PROVE Holds(x)'
  <2>1. x.stage = "absent" /\ x.run = r
    BY Zenon, <1>2 DEF Absent
  <2> QED
    BY Zenon, <2>1 DEF Holds
<1>3. ASSUME NEW r \in Run, NEW b, NEW row, Remembers(row, r)', x = Bound(r, b, row)
      PROVE  Holds(x)'
  <2>1. x.stage = "bound" /\ x.run = r /\ x.row = row
    BY Zenon, <1>3 DEF Bound
  <2>2. Remembers(x.row, x.run)'
    BY Zenon, <1>3, <2>1 DEF Remembers
  <2> QED
    BY Zenon, <2>1, <2>2 DEF Holds
<1>4. ASSUME NEW r \in Run, NEW b, x = Bound(r, b, Row(r)) PROVE Holds(x)'
  <2>1. PICK row : row = Row(r)
    BY Zenon
  <2>2. Remembers(row, r)'
    BY Zenon, <2>1, RowsRemembered
  <2> QED
    BY Zenon, <1>3, <1>4, <2>1, <2>2
<1>5. ASSUME NEW r \in Run, NEW b, x = Bound(r, b, [NoRow EXCEPT !.status = "queued"])
      PROVE  Holds(x)'
  <2>1. PICK row : row = [NoRow EXCEPT !.status = "queued"]
    BY Zenon
  <2>2. row.status = "queued" /\ ~row.unknown
    BY <2>1 DEF NoRow
  <2>3. Remembers(row, r)'
    BY Zenon, <2>2 DEF Remembers, Terminal
  <2> QED
    BY Zenon, <1>3, <1>5, <2>1, <2>3
<1> QED
  BY Zenon, <1>1, <1>2, <1>4, <1>5

\* The requests that are under way stay so.
LEMMA CallersStep ==
  ASSUME Sighting, CallersOK, [GatewayNext]_allGatewayVars
  PROVE  CallersOK'
<1>1. \A r \in Run : unknown'[r] => action'[r].status = "outcome_unknown"
  BY Zenon, UnknownIsRecorded
<1>2. ASSUME NEW x, Holds(x) PROVE Holds(x)'
  <2>1. ASSUME x.stage = "bound" PROVE Remembers(x.row, x.run)'
    <3>1. PICK r \in Run : r = x.run
      BY Zenon, <1>2, <2>1 DEF Holds
    <3>r. PICK row : row = x.row
      BY Zenon
    <3>2. Remembers(row, r)
      BY Zenon, <1>2, <2>1, <3>1, <3>r DEF Holds
    <3>3. Remembers(row, r)'
      BY Zenon, <3>2, RowsRemembered
    <3> QED
      BY Zenon, <3>1, <3>r, <3>3 DEF Remembers
  <2> QED
    BY Zenon, <1>2, <2>1 DEF Holds
<1>3. ASSUME NEW d \in Caller, NEW y, y = caller'[d], Holds(y)' PROVE Holds(caller[d])'
  BY Zenon, <1>3 DEF Holds, Remembers
<1>4. ASSUME NEW d \in Caller, caller'[d] = caller[d] PROVE Holds(caller[d])'
  <2>1. PICK y : y = caller[d]
    BY Zenon
  <2>2. Holds(y)
    BY Zenon, <2>1 DEF CallersOK
  <2> QED
    BY Zenon, <1>2, <1>3, <1>4, <2>1, <2>2
<1>5. ASSUME NEW c \in Caller, NEW x, Becomes(c, x), Holds(x)'
      PROVE  DOMAIN caller' = Caller /\ \A d \in Caller : Holds(caller[d])'
  <2>1. DOMAIN caller' = Caller
    BY Zenon, <1>5 DEF CallersOK, Becomes
  <2>2. ASSUME NEW d \in Caller PROVE Holds(caller[d])'
    <3>1. CASE d = c
      BY Zenon, <1>3, <1>5, <3>1, Turns
    <3>2. CASE d # c
      BY Zenon, <1>4, <1>5, <3>2, Turns
    <3> QED
      BY Zenon, <3>1, <3>2
  <2> QED
    BY Zenon, <2>1, <2>2
<1>6. CASE UNCHANGED caller
  BY Zenon, <1>1, <1>4, <1>6 DEF CallersOK
<1>7. ASSUME NEW c \in Caller, NEW r \in Run, NEW b, Lookup(c, r, b)
      PROVE  \E x : Becomes(c, x) /\ Holds(x)'
  <2>1. CASE status[r] # "absent"
    <3>1. PICK x : x = Bound(r, b, Row(r))
      BY Zenon
    <3> QED
      BY Zenon, <1>7, <2>1, <3>1, RequestsHold DEF Lookup
  <2>2. CASE status[r] = "absent"
    <3>1. PICK x : x = Absent(r, b)
      BY Zenon
    <3> QED
      BY Zenon, <1>7, <2>2, <3>1, RequestsHold DEF Lookup
  <2> QED
    BY Zenon, <2>1, <2>2
<1>8. ASSUME NEW c \in Caller, NEW r \in Run, Poll(c, r)
      PROVE  \E x : Becomes(c, x) /\ Holds(x)'
  <2>1. PICK x : x = Bound(r, NoBody, Row(r))
    BY Zenon
  <2> QED
    BY Zenon, <1>8, <2>1, RequestsHold DEF Poll
<1>9. ASSUME NEW c \in Caller, Submit(c) PROVE \E x : Becomes(c, x) /\ Holds(x)'
  <2>1. PICK r \in Run : r = caller[c].run
    BY Zenon, <1>9 DEF Submit, CallersOK, Holds
  <2>b. PICK b : b = caller[c].body
    BY Zenon
  <2>2. PICK x : /\ Becomes(c, x)
                 /\ \/ x = Bound(r, b, Row(r))
                    \/ x = Bound(r, b, [NoRow EXCEPT !.status = "queued"])
    BY Zenon, <1>9, <2>1, <2>b DEF Submit
  <2> QED
    BY Zenon, <2>2, RequestsHold
<1>10. ASSUME NEW c \in Caller, Answer(c) \/ Leave(c) PROVE \E x : Becomes(c, x) /\ Holds(x)'
  <2>1. PICK x : Becomes(c, x) /\ (x = Idle \/ x = Refused)
    BY Zenon, <1>10 DEF Answer, Leave
  <2> QED
    BY Zenon, <2>1, RequestsHold
<1>11. CASE \E c \in Caller : \E x : Becomes(c, x) /\ Holds(x)'
  BY Zenon, <1>1, <1>5, <1>11 DEF CallersOK
<1>12. System => UNCHANGED caller
  BY Zenon DEF System
<1> QED
  BY Zenon, <1>6, <1>7, <1>8, <1>9, <1>10, <1>11, <1>12 DEF GatewayNext, allGatewayVars, gatewayVars

\* The callers' records stay true, whatever the system does between the
\* transactions of their requests.
LEMMA GatewayStep ==
  ASSUME GatewaySafe, [GatewayNext]_allGatewayVars
  PROVE  GatewaySafe'
<1>1. Sighting /\ Bounded /\ CallersOK /\ faults \in Nat /\ drifts \in Nat
  BY Zenon DEF GatewaySafe, Sighting, ActionsSafe
<1>2. [ActionsNext]_actionVars
  BY Zenon, <1>1, GatewayIsActions
<1> QED
  BY Zenon, <1>1, <1>2, SightingStep, BoundedStep, CallersStep DEF GatewaySafe

\* What attempts know, and what the callers of DurableActionGateway hold of the
\* Runs, stays true of the stores.
THEOREM GatewayInvariance == GatewaySpec => []GatewaySafe
BY GatewayStart, GatewayStep, PTL DEF GatewaySpec

-----------------------------------------------------------------------------
(* The projection. *)

\* A Run record that tells by itself that an action without a dispatch has ended.
Settled(row, s) ==
  /\ row.status \in {"failed", "cancelled"}
  /\ s = "none" => row.error_code \notin {PENDING, BLOCKED}

\* What a caller is told, by the state of the action.
Projected(row, r) ==
  /\ action[r].status \in ActionTerminal => project(row, r) = action[r].status
  /\ action[r].status \in {"none", "prepared"} =>
       /\ project(row, r) \in PublicTerminal => Settled(row, action[r].status)
       /\ Settled(row, action[r].status) => project(row, r) = row.status
  /\ action[r].status = "dispatching" =>
       IF row.status \in Terminal \/ workflow[r].status \in {"ready", "failed"}
       THEN project(row, r) = "outcome_unknown"
       ELSE project(row, r) \notin PublicTerminal

\* ActionProjector.project tells this of every record whose code is recorded.
LEMMA ProjectionTells ==
  ASSUME ActionsSafe, NEW r \in Run, NEW row,
         row.unknown => action[r].status = "outcome_unknown"
  PROVE  Projected(row, r)
<1>1. /\ action[r].status \in ActionStatus
      /\ StepAgreesWithAction
  BY Zenon, AtHand DEF ActionsSafe, ActionsInv, LedgerInv, LedgerTypeOK
<1>2. /\ action[r].status \in {"prepared", "dispatching"} => step[r] = "running"
      /\ action[r].status \in ActionTerminal => step[r] = StepOf(action[r].status)
      /\ Dispatched(r) <=> action[r].status \notin {"none", "prepared"}
  BY Zenon, <1>1 DEF StepAgreesWithAction
<1>3. CASE action[r].status = "outcome_unknown"
  <2>1. project(row, r) = "outcome_unknown"
    BY <1>3 DEF project
  <2> QED
    BY Zenon, <1>3, <2>1 DEF Projected
<1>4. CASE action[r].status = "succeeded"
  <2>1. _validated_success(r)
    BY Zenon, <1>2, <1>4 DEF _validated_success, StepOf, ActionTerminal
  <2>2. project(row, r) = "succeeded"
    BY <1>4, <2>1 DEF project
  <2> QED
    BY Zenon, <1>4, <2>2 DEF Projected
<1>5. CASE action[r].status = "failed"
  <2>1. _valid_failed_action(r)
    BY Zenon, <1>2, <1>5 DEF _valid_failed_action, StepOf, ActionTerminal
  <2>2. project(row, r) = "failed"
    BY <1>5, <2>1 DEF project
  <2> QED
    BY Zenon, <1>5, <2>2 DEF Projected
<1>6. CASE action[r].status = "none"
  <2>1. project(row, r) = IF row.error_code \in {PENDING, BLOCKED} THEN "evidence_incomplete"
                          ELSE _project_without_action(row, r)
    BY <1>6 DEF project
  <2>2. CASE row.status \in {"failed", "cancelled"}
    <3>1. _project_without_action(row, r) = row.status
      BY <2>2 DEF _project_without_action
    <3> QED
      BY Zenon, <1>6, <2>1, <2>2, <3>1 DEF Projected, Settled, PublicTerminal, ActionTerminal
  <2>3. CASE row.status \notin {"failed", "cancelled"}
    <3>1. _project_without_action(row, r) \in {"queued", "running", "evidence_incomplete"}
      BY <2>3 DEF _project_without_action
    <3>2. project(row, r) \notin PublicTerminal
      BY Zenon, <2>1, <3>1 DEF PublicTerminal
    <3> QED
      BY Zenon, <1>6, <2>3, <3>2 DEF Projected, Settled, ActionTerminal
  <2> QED
    BY Zenon, <2>2, <2>3
<1>7. CASE action[r].status = "prepared"
  <2>1. project(row, r) = _project_prepared(row, r) /\ step[r] = "running"
    BY <1>2, <1>7 DEF project
  <2>2. CASE row.status \in {"failed", "cancelled"}
    <3>1. _project_prepared(row, r) = row.status
      BY <2>1, <2>2 DEF _project_prepared
    <3> QED
      BY Zenon, <1>7, <2>1, <2>2, <3>1 DEF Projected, Settled, ActionTerminal
  <2>3. CASE row.status \notin {"failed", "cancelled"}
    <3>1. _project_prepared(row, r) \in {"running", "evidence_incomplete"}
      BY <2>1, <2>3 DEF _project_prepared
    <3>2. project(row, r) \notin PublicTerminal
      BY Zenon, <2>1, <3>1 DEF PublicTerminal
    <3> QED
      BY Zenon, <1>7, <2>3, <3>2 DEF Projected, Settled, ActionTerminal
  <2> QED
    BY Zenon, <2>2, <2>3
<1>8. CASE action[r].status = "dispatching"
  <2>1. project(row, r) = _project_dispatching(row, r) /\ step[r] = "running"
    BY <1>2, <1>8 DEF project
  <2>2. Abandoned(row, r) <=>
          row.status \in Terminal \/ workflow[r].status \in {"ready", "failed"}
    BY Zenon, <2>1 DEF Abandoned
  <2>3. Abandoned(row, r) => project(row, r) = "outcome_unknown"
    BY Zenon, <2>1 DEF _project_dispatching
  <2>4. ~Abandoned(row, r) => project(row, r) \in {"reconciling", "running"}
    BY Zenon, <2>1 DEF _project_dispatching
  <2>5. ~Abandoned(row, r) => project(row, r) \notin PublicTerminal
    BY Zenon, <2>4 DEF PublicTerminal
  <2> QED
    BY Zenon, <1>8, <2>2, <2>3, <2>5 DEF Projected, ActionTerminal
<1> QED
  BY Zenon, <1>1, <1>3, <1>4, <1>5, <1>6, <1>7, <1>8 DEF ActionStatus, ActionTerminal

\* What a request is told that reads the Run and the ledger at once, of every Run.
RowsProjected == \A r \in Run : Projected(Row(r), r)

\* Public is such a projection of every Run.
LEMMA GatewayTells == GatewaySafe => RowsProjected
<1> SUFFICES ASSUME GatewaySafe, NEW r \in Run PROVE Projected(Row(r), r)
  BY Zenon DEF RowsProjected
<1>1. PICK row : row = Row(r)
  BY Zenon
<1>2. row.unknown = unknown[r]
  BY Zenon, <1>1 DEF Row
<1>3. row.unknown => action[r].status = "outcome_unknown"
  BY Zenon, <1>2 DEF GatewaySafe, CallersOK
<1>4. ActionsSafe
  BY Zenon DEF GatewaySafe, Sighting
<1>5. Projected(row, r)
  BY Zenon, <1>3, <1>4, ProjectionTells
<1> QED
  BY Zenon, <1>1, <1>5

\* A terminal answer from a stale record is the one a consistent read would give.
LEMMA StaleRecordTells ==
  ASSUME GatewaySafe, NEW r \in Run, NEW row, Remembers(row, r),
         project(row, r) \in PublicTerminal
  PROVE  project(row, r) = Public(r)
<1>1. PICK cur : cur = Row(r)
  BY Zenon
<1>2. cur.status = status[r] /\ cur.error_code = error_code[r] /\ cur.unknown = unknown[r]
  BY Zenon, <1>1 DEF Row
<1>3. row.unknown => action[r].status = "outcome_unknown"
  BY Zenon DEF Remembers, GatewaySafe, CallersOK
<1>4. ActionsSafe
  BY Zenon DEF GatewaySafe, Sighting
<1>5. Projected(row, r)
  BY Zenon, <1>3, <1>4, ProjectionTells
<1>6. Projected(cur, r)
  BY Zenon, <1>1, GatewayTells DEF RowsProjected
<1>7. row.status \in Terminal => row.status = cur.status /\ row.error_code = cur.error_code
  BY Zenon, <1>2 DEF Remembers
<1>8. action[r].status \in ActionStatus
  BY Zenon, <1>4, AtHand DEF ActionsSafe, ActionsInv, LedgerInv, LedgerTypeOK
<1>9. project(row, r) = project(cur, r)
  <2>1. CASE action[r].status \in ActionTerminal
    BY Zenon, <1>5, <1>6, <2>1 DEF Projected
  <2>2. CASE action[r].status \in {"none", "prepared"}
    <3>1. Settled(row, action[r].status) /\ project(row, r) = row.status
      BY Zenon, <1>5, <2>2 DEF Projected
    <3>2. row.status = cur.status /\ Settled(cur, action[r].status)
      BY Zenon, <1>7, <3>1 DEF Settled, Terminal
    <3> QED
      BY Zenon, <1>6, <2>2, <3>1, <3>2 DEF Projected
  <2>3. CASE action[r].status = "dispatching"
    BY Zenon, <1>5, <1>6, <1>7, <2>3 DEF Projected
  <2> QED
    BY Zenon, <1>8, <2>1, <2>2, <2>3 DEF ActionStatus
<1> QED
  BY Zenon, <1>1, <1>9 DEF Public

\* What ActionProjector tells the callers of DurableActionGateway is true of the
\* provider, under the contract RefusalBindsKey, and a terminal answer does not
\* depend on how stale the Run record is that it was computed from.
THEOREM PublicStatusIsTruthful == RefusalBindsKey => (GatewaySpec => []PublicStatusIsTrue)
<1> SUFFICES ASSUME RefusalBindsKey PROVE GatewaySpec => []PublicStatusIsTrue
  OBVIOUS
<1>1. GatewaySafe => PublicStatusIsTrue
  <2> SUFFICES ASSUME GatewaySafe PROVE PublicStatusIsTrue
    OBVIOUS
  <2>1. ActionsSafe /\ LedgerTellsTruth
    BY Zenon, LedgerIsGrounded DEF GatewaySafe, Sighting
  <2>2. ASSUME NEW r \in Run
        PROVE  /\ Public(r) = "succeeded" => applied[r] # {}
               /\ Public(r) \in {"failed", "cancelled"} => applied[r] = {}
    <3>1. PICK cur : cur = Row(r)
      BY Zenon
    <3>2. Projected(cur, r) /\ Public(r) = project(cur, r)
      BY Zenon, <3>1, GatewayTells DEF RowsProjected, Public
    <3>3. /\ action[r].status = "succeeded" => applied[r] # {}
          /\ action[r].status = "failed" => applied[r] = {}
          /\ ~Dispatched(r) => applied[r] = {}
      BY Zenon, <2>1 DEF LedgerTellsTruth
    <3>4. Dispatched(r) => action[r].status \notin {"none", "prepared"}
      BY Zenon, <2>1 DEF ActionsSafe, ActionsInv, LedgerInv, StepAgreesWithAction
    <3>5. action[r].status \in ActionStatus
      BY Zenon, <2>1, AtHand DEF ActionsSafe, ActionsInv, LedgerInv, LedgerTypeOK
    <3>6. CASE action[r].status \in ActionTerminal
      BY Zenon, <3>2, <3>3, <3>6 DEF Projected, ActionTerminal
    <3>7. CASE action[r].status \in {"none", "prepared"}
      <4>1. Public(r) \in PublicTerminal => Public(r) \in {"failed", "cancelled"}
        BY Zenon, <3>2, <3>7 DEF Projected, Settled
      <4> QED
        BY Zenon, <3>3, <3>4, <3>7, <4>1 DEF PublicTerminal
    <3>8. CASE action[r].status = "dispatching"
      <4>1. Public(r) \in PublicTerminal => Public(r) = "outcome_unknown"
        BY Zenon, <3>2, <3>8 DEF Projected
      <4> QED
        BY Zenon, <4>1 DEF PublicTerminal
    <3> QED
      BY Zenon, <3>5, <3>6, <3>7, <3>8 DEF ActionStatus
  <2>3. ASSUME NEW c \in Caller, caller[c].stage = "bound",
               project(caller[c].row, caller[c].run) \in PublicTerminal
        PROVE  project(caller[c].row, caller[c].run) = Public(caller[c].run)
    <3>1. PICK row : row = caller[c].row
      BY Zenon
    <3>2. PICK r \in Run : r = caller[c].run
      BY Zenon, <2>3 DEF GatewaySafe, CallersOK, Holds
    <3>3. Remembers(row, r)
      BY Zenon, <2>3, <3>1, <3>2 DEF GatewaySafe, CallersOK, Holds
    <3>4. project(row, r) = Public(r)
      BY Zenon, <2>3, <3>1, <3>2, <3>3, StaleRecordTells
    <3> QED
      BY Zenon, <3>1, <3>2, <3>4
  <2> QED
    BY Zenon, <2>2, <2>3 DEF PublicStatusIsTrue
<1> QED
  BY <1>1, GatewayInvariance, PTL

\* A Run that has ended does not carry the code of a pending reconciliation.
EndIsCoded == \A r \in Run : status[r] \in Terminal => error_code[r] \notin {PENDING, BLOCKED}

\* Every terminal commit of the store writes a code of its own.
LEMMA EndWritesCode ==
  ASSUME TypeOK, [Next]_vars, NEW q \in Run, status[q] \notin Terminal, status'[q] \in Terminal
  PROVE  error_code'[q] \notin {PENDING, BLOCKED}
<1>1. {"none", CONFLICT, SAFETY, EXECUTION} \cap {PENDING, BLOCKED} = {}
  BY DEF CONFLICT, SAFETY, EXECUTION, PENDING, BLOCKED
<1>2. ASSUME NEW r \in Run, NEW s, NEW es, NEW code \in {"none", CONFLICT, SAFETY, EXECUTION},
             _terminalize(r, s, code, es)
      PROVE  error_code'[q] \notin {PENDING, BLOCKED}
  <2>1. q = r /\ error_code'[q] = code
    BY <1>2 DEF _terminalize, TypeOK
  <2> QED
    BY Zenon, <1>1, <1>2, <2>1
<1>3. Terminal \cap {"queued", "running"} = {}
  BY DEF Terminal
<1>4. ASSUME NEW r \in Run,
             \/ create_run_with_event(r) \/ claim_next_run(r)
             \/ request_cancel_atomically(r) \/ append_control_plane_event(r)
      PROVE  FALSE
  BY <1>3, <1>4 DEF create_run_with_event, _insert_run, claim_next_run, Lease,
     request_cancel_atomically, append_control_plane_event, TypeOK
<1>5. ASSUME NEW r \in Run, finalize_next_queued_cancellation(r)
      PROVE  error_code'[q] \notin {PENDING, BLOCKED}
  BY Zenon, <1>2, <1>5 DEF finalize_next_queued_cancellation
<1>6. ASSUME NEW r \in Run, NEW t \in Tokens(r), AttemptStep(r, t)
      PROVE  error_code'[q] \notin {PENDING, BLOCKED}
  <2>1. ~(renew_run_lease(r, t) \/ expire_run_lease(r, t) \/ append_attempt_event(r, t)
          \/ commit_reconciliation_pending(r, t))
    BY Zenon DEF renew_run_lease, expire_run_lease, append_attempt_event,
       commit_reconciliation_pending
  <2> QED
    BY Zenon, <1>2, <1>6, <2>1 DEF AttemptStep, commit_checkpoint_conflict,
       commit_completed_run, RejectStaleResult, _fail_checkpoint_conflict, SaveCheckpoint,
       commit_cancelled_run, commit_failed_run
<1>7. ~(AdvanceClock \/ UNCHANGED vars)
  BY Zenon DEF AdvanceClock, vars
<1> QED
  BY Zenon, <1>4, <1>5, <1>6, <1>7 DEF Next

\* So the codes of ended Runs stay clear of reconciliation.
LEMMA EndCodeStep ==
  ASSUME GatewaySafe, EndIsCoded, [GatewayNext]_allGatewayVars
  PROVE  EndIsCoded'
<1>1. ActionsSafe /\ [ActionsNext]_actionVars
  BY Zenon, GatewayIsActions DEF GatewaySafe, Sighting
<1>2. TypeOK /\ [Next]_vars
  BY Zenon, <1>1, StoreSteps
<1>3. ASSUME NEW q \in Run, status'[q] \in Terminal
      PROVE  error_code'[q] \notin {PENDING, BLOCKED}
  BY Zenon, <1>1, <1>2, <1>3, EndWritesCode, RunRowSteps DEF EndIsCoded
<1> QED
  BY Zenon, <1>3 DEF EndIsCoded

\* A record that says its Run has ended is projected to an outcome.
LEMMA EndTells ==
  ASSUME GatewaySafe, EndIsCoded, NEW r \in Run, NEW row, Remembers(row, r),
         row.status \in Terminal
  PROVE  project(row, r) \in PublicTerminal
<1>1. /\ row.status = status[r] /\ row.error_code \notin {PENDING, BLOCKED}
      /\ row.unknown => action[r].status = "outcome_unknown"
  BY Zenon DEF Remembers, EndIsCoded, GatewaySafe, CallersOK
<1>2. ActionsSafe
  BY Zenon DEF GatewaySafe, Sighting
<1>3. Projected(row, r)
  BY Zenon, <1>1, <1>2, ProjectionTells
<1>4. row.status = "completed" => action[r].status = "succeeded"
  BY Zenon, <1>1, <1>2 DEF ActionsSafe, EndsOK
<1>5. action[r].status \in ActionStatus
  BY Zenon, <1>2, AtHand DEF ActionsSafe, ActionsInv, LedgerInv, LedgerTypeOK
<1>6. ActionTerminal \subseteq PublicTerminal /\ {"failed", "cancelled"} \subseteq PublicTerminal
  BY DEF ActionTerminal, PublicTerminal
<1>7. CASE action[r].status \in ActionTerminal
  BY Zenon, <1>3, <1>6, <1>7 DEF Projected
<1>8. CASE action[r].status \in {"none", "prepared"}
  <2>1. row.status \in {"failed", "cancelled"}
    BY <1>4, <1>8 DEF Terminal
  <2> QED
    BY Zenon, <1>1, <1>3, <1>6, <1>8, <2>1 DEF Projected, Settled
<1>9. CASE action[r].status = "dispatching"
  BY Zenon, <1>3, <1>9 DEF Projected, PublicTerminal
<1> QED
  BY Zenon, <1>5, <1>7, <1>8, <1>9 DEF ActionStatus, ActionTerminal

\* A request that finds its Run ended is answered with an outcome by
\* ActionProjector.project: for any number of attempts, dispatches, exceptions
\* of the store, registration changes and callers.
THEOREM EndedRunsHaveOutcomes == GatewaySpec => []EndedRunHasOutcome
<1>1. GatewayInit => EndIsCoded
  <2>1. "none" \notin {PENDING, BLOCKED}
    BY DEF PENDING, BLOCKED
  <2>2. GatewayInit => error_code = [r \in Run |-> "none"]
    BY Zenon DEF GatewayInit, ActionsInit, LedgerInit, Init
  <2> QED
    BY <2>1, <2>2 DEF EndIsCoded
<1>2. GatewaySpec => []EndIsCoded
  BY <1>1, EndCodeStep, GatewayInvariance, PTL DEF GatewaySpec
<1>3. ASSUME GatewaySafe, EndIsCoded PROVE EndedRunHasOutcome
  <2>1. ASSUME NEW r \in Run, status[r] \in Terminal PROVE Public(r) \in PublicTerminal
    <3>1. PICK row : row = Row(r)
      BY Zenon
    <3>2. row.status = status[r] /\ row.error_code = error_code[r] /\ row.unknown = unknown[r]
      BY Zenon, <3>1 DEF Row
    <3>3. Remembers(row, r)
      BY Zenon, <3>2 DEF Remembers
    <3>4. project(row, r) \in PublicTerminal
      BY Zenon, <1>3, <2>1, <3>2, <3>3, EndTells
    <3> QED
      BY Zenon, <3>1, <3>4 DEF Public
  <2>2. ASSUME NEW c \in Caller, caller[c].stage = "bound", caller[c].row.status \in Terminal
        PROVE  project(caller[c].row, caller[c].run) \in PublicTerminal
    <3>1. caller[c].run \in Run /\ Remembers(caller[c].row, caller[c].run)
      BY Zenon, <1>3, <2>2 DEF GatewaySafe, CallersOK, Holds
    <3> QED
      BY Zenon, <1>3, <2>2, <3>1, EndTells
  <2> QED
    BY Zenon, <2>1, <2>2 DEF EndedRunHasOutcome
<1> QED
  BY <1>2, <1>3, GatewayInvariance, PTL

\* With a fixed registry and at most one exception of the store, a dispatch in
\* flight is never told as an outcome.
LEMMA InFlightIsOpen ==
  ASSUME GatewaySafe, MaxFaults <= 1, MaxDrifts = 0, NEW r \in Run,
         action[r].status = "dispatching"
  PROVE  status[r] \notin Terminal /\ workflow[r].status \notin {"ready", "failed"}
<1>1. faults <= 1 /\ drifts = 0
  <2>1. faults \in Nat /\ drifts \in Nat /\ Bounded
    BY Zenon DEF GatewaySafe, Sighting, ActionsSafe
  <2> QED
    BY <2>1, ActionsAssumption DEF Bounded
<1>2. EndsOK /\ OpenWhileInFlight
  BY Zenon DEF GatewaySafe, Sighting, ActionsSafe
<1> QED
  BY Zenon, <1>1, <1>2 DEF EndsOK, OpenWhileInFlight, InFlight

\* A terminal status that GET /actions/{id} has told does not change any more, as
\* long as the registry is fixed, which it is while a process lives, and the store
\* raises at most one exception: the cases of NoDispatchBehindTerminalRun.
THEOREM PublicOutcomeStands ==
  MaxFaults <= 1 /\ MaxDrifts = 0 => (GatewaySpec => PublicOutcomeIsFinal)
<1> SUFFICES ASSUME MaxFaults <= 1, MaxDrifts = 0 PROVE GatewaySpec => PublicOutcomeIsFinal
  OBVIOUS
<1>1. ASSUME GatewaySafe, [GatewayNext]_allGatewayVars, RowsProjected', NEW r \in Run,
             Public(r) \in PublicTerminal
      PROVE  Public(r)' = Public(r)
  <2>1. ActionsSafe /\ [ActionsNext]_actionVars
    BY Zenon, <1>1, GatewayIsActions DEF GatewaySafe, Sighting
  <2>2. PICK cur : cur = Row(r)
    BY Zenon
  <2>3. Projected(cur, r) /\ Public(r) = project(cur, r)
    BY Zenon, <1>1, <2>2, GatewayTells DEF RowsProjected, Public
  <2>4. PICK new : new = Row(r)'
    BY Zenon
  <2>5. Projected(Row(r), r)'
    BY Zenon, <1>1 DEF RowsProjected
  <2>6. /\ action'[r].status \in ActionTerminal => Public(r)' = action'[r].status
        /\ action'[r].status \in {"none", "prepared"} /\ Settled(new, action'[r].status)
           => Public(r)' = new.status
    BY Zenon, <2>4, <2>5 DEF Projected, Public
  <2>7. action[r].status \in ActionStatus
    BY Zenon, <2>1, AtHand DEF ActionsSafe, ActionsInv, LedgerInv, LedgerTypeOK
  <2>8. CASE action[r].status \in ActionTerminal
    <3>1. action'[r] = action[r]
      BY Zenon, <2>1, <2>8, FinalStays
    <3> QED
      BY Zenon, <2>3, <2>6, <2>8, <3>1 DEF Projected
  <2>9. CASE action[r].status \in {"none", "prepared"}
    <3>1. Settled(cur, action[r].status) /\ Public(r) = cur.status
      BY Zenon, <1>1, <2>3, <2>9 DEF Projected
    <3>2. cur.status = status[r] /\ cur.error_code = error_code[r]
      BY Zenon, <2>2 DEF Row
    <3>3. new.status = status'[r] /\ new.error_code = error_code'[r]
      BY Zenon, <2>4 DEF Row
    <3>4. status[r] \in Terminal
      BY Zenon, <3>1, <3>2 DEF Settled, Terminal
    <3>5. status'[r] = status[r] /\ error_code'[r] = error_code[r]
      BY Zenon, <2>1, <3>4, RunRowSteps
    <3>6. action'[r] = action[r]
      BY Zenon, <2>1, <2>9, <3>4, LedgerRowSteps DEF InFlight
    <3>7. Settled(new, action'[r].status)
      BY Zenon, <3>1, <3>2, <3>3, <3>5, <3>6 DEF Settled
    <3> QED
      BY Zenon, <2>6, <2>9, <3>1, <3>2, <3>3, <3>5, <3>6, <3>7
  <2>10. CASE action[r].status = "dispatching"
    <3>1. status[r] \notin Terminal /\ workflow[r].status \notin {"ready", "failed"}
      BY Zenon, <1>1, <2>10, InFlightIsOpen
    <3>2. cur.status = status[r]
      BY Zenon, <2>2 DEF Row
    <3> QED
      BY Zenon, <1>1, <2>3, <2>10, <3>1, <3>2 DEF Projected
  <2> QED
    BY Zenon, <2>7, <2>8, <2>9, <2>10 DEF ActionStatus
<1>2. GatewaySafe /\ RowsProjected' /\ [GatewayNext]_allGatewayVars =>
        [\A r \in Run : Public(r) \in PublicTerminal => Public(r)' = Public(r)]_allGatewayVars
  BY Zenon, <1>1
<1> QED
  BY <1>2, GatewayTells, GatewayInvariance, PTL DEF GatewaySpec, PublicOutcomeIsFinal
=============================================================================
