--------------------------- MODULE ActionGateway ---------------------------
(***************************************************************************)
(* The public Action API over ExternalActions: POST /actions with an       *)
(* idempotency key, GET /actions/{id}, and the polling of ?wait=.  A Run   *)
(* stands for one idempotency key of a tenant.                             *)
(*                                                                         *)
(* A request reads the Run and the ledger in two transactions with the     *)
(* whole system running in between, and submission looks the key up in     *)
(* one transaction and inserts in another.                                 *)
(***************************************************************************)
EXTENDS ExternalActions

CONSTANTS
  Caller,     \* concurrent callers of the API
  Body,       \* fingerprints of action type, destination and input
  MaxPosts,   \* bound: submissions
  MaxReaders  \* bound: requests that hold a Run record at one time (a request
              \* that only reads disturbs no other)

ASSUME GatewayAssumption == MaxPosts \in Nat /\ MaxReaders \in Nat

VARIABLES
  input,   \* runs.input: the fingerprint a key is bound to
  caller,  \* the request each caller has under way
  unknown, \* whether runs.error_code is external_action_outcome_unknown
  posts    \* submissions so far

gatewayVars == <<input, caller, unknown, posts>>
allGatewayVars == <<actionVars, gatewayVars>>

NoBody == "none"

\* The columns of a Run that the projection looks at.
Row(r) == [status |-> status[r], error_code |-> error_code[r], unknown |-> unknown[r]]
NoRow == [status |-> "absent", error_code |-> "none", unknown |-> FALSE]

PublicTerminal == {"succeeded", "failed", "cancelled", "outcome_unknown"}

-----------------------------------------------------------------------------
(* ActionProjector: the public status of a Run row that was read before the *)
(* ledger.                                                                  *)

_project_without_action(row, r) ==
  CASE row.status = "queued" -> "queued"
    [] row.status = "running" /\ workflow[r].status \notin {"ready", "failed"} -> "running"
    [] row.status \in {"failed", "cancelled"} -> row.status
    [] OTHER -> "evidence_incomplete"

_validated_success(r) == Dispatched(r) /\ step[r] = "completed"

_valid_failed_action(r) == Dispatched(r) /\ step[r] = "failed"

\* Mutant: a Run that is not running is taken to have given its dispatch up.
Abandoned_not_running(row, r) == step[r] # "running" \/ row.status # "running"

\* Mutant: a reconciliation under way counts as an unknown outcome.
Abandoned_reconciling(row, r) ==
  step[r] # "running" \/ row.status \in Terminal \/ row.error_code = PENDING

\* A dispatch that nobody will settle any more.
Abandoned(row, r) ==
  \/ step[r] # "running"
  \/ row.status \in Terminal
  \/ workflow[r].status \in {"ready", "failed"}

_project_dispatching(row, r) ==
  IF Abandoned(row, r) THEN "outcome_unknown"
  ELSE IF row.error_code \in {PENDING, BLOCKED} THEN "reconciling" ELSE "running"

\* Mutant: a prepared action is only expected of a Run that has not ended.
_project_prepared_open(row, r) ==
  IF step[r] # "running" \/ row.status \in Terminal THEN "evidence_incomplete" ELSE "running"

_project_prepared(row, r) ==
  CASE step[r] # "running" \/ row.status = "completed" -> "evidence_incomplete"
    [] step[r] = "running" /\ row.status \in {"failed", "cancelled"} -> row.status
    [] OTHER -> "running"

project(row, r) ==
  LET s == action[r].status
  IN  CASE s = "outcome_unknown" \/ row.unknown -> "outcome_unknown"
        [] s = "none" /\ ~row.unknown ->
             IF row.error_code \in {PENDING, BLOCKED} THEN "evidence_incomplete"
             ELSE _project_without_action(row, r)
        [] s = "succeeded" /\ ~row.unknown ->
             IF _validated_success(r) THEN "succeeded" ELSE "evidence_incomplete"
        [] s = "failed" /\ ~row.unknown ->
             IF _valid_failed_action(r) THEN "failed" ELSE "outcome_unknown"
        [] s = "dispatching" /\ ~row.unknown -> _project_dispatching(row, r)
        [] s = "prepared" /\ ~row.unknown -> _project_prepared(row, r)

\* What a request that reads both at once would be told.
Public(r) == project(Row(r), r)

-----------------------------------------------------------------------------
(* DurableActionGateway. *)

Idle == [stage |-> "idle"]
Refused == [stage |-> "refused"]
Absent(r, b) == [stage |-> "absent", run |-> r, body |-> b]

\* A request that holds the Run record row; b is NoBody for a GET.
Bound(r, b, row) == [stage |-> "bound", run |-> r, body |-> b, row |-> row]

Becomes(c, x) ==
  /\ x.stage = "bound" =>
       Cardinality({d \in Caller \ {c} : caller[d].stage = "bound"}) < MaxReaders
  /\ caller' = [caller EXCEPT ![c] = x]

NothingElse == UNCHANGED <<actionVars, input, unknown, posts>>

\* submit: the key is looked up, then the destination.
Lookup(c, r, b) ==
  /\ caller[c].stage = "idle"
  /\ posts < MaxPosts
  /\ posts' = posts + 1
  /\ IF status[r] # "absent" THEN Becomes(c, Bound(r, b, Row(r)))
     ELSE registered[r] # NoProvider /\ Becomes(c, Absent(r, b))
  /\ UNCHANGED <<actionVars, input, unknown>>

\* RuntimeManager.submit inserts the Run, or returns the Run that a concurrent
\* request with the same key inserted.
Submit(c) ==
  /\ caller[c].stage = "absent"
  /\ LET r == caller[c].run
         b == caller[c].body
     IN  \/ /\ status[r] # "absent"
            /\ Becomes(c, Bound(r, b, Row(r)))
            /\ NothingElse
         \/ /\ create_run_with_event(r)
            /\ input' = [input EXCEPT ![r] = b]
            /\ Becomes(c, Bound(r, b, [NoRow EXCEPT !.status = "queued"]))
            /\ UNCHANGED <<ledgerVars, attemptVars, worldVars, unknown, posts>>

_assert_same_request(c) == caller[c].body \in {NoBody, input[caller[c].run]}

\* A submission is compared with the Run and the ledger is read: the caller is
\* told project(row, r), or that the key is taken.
Answer(c) ==
  /\ caller[c].stage = "bound"
  /\ Becomes(c, IF _assert_same_request(c) THEN Idle ELSE Refused)
  /\ NothingElse

\* GET, and one turn of wait_for_action: the Run is read again.
Poll(c, r) ==
  /\ caller[c].stage = "idle"
  /\ status[r] # "absent"
  /\ Becomes(c, Bound(r, NoBody, Row(r)))
  /\ NothingElse

\* The refusal has been delivered.
Leave(c) ==
  /\ caller[c].stage = "refused"
  /\ Becomes(c, Idle)
  /\ NothingElse

-----------------------------------------------------------------------------

GatewayInit ==
  /\ ActionsInit
  /\ input = [r \in Run |-> NoBody]
  /\ caller = [c \in Caller |-> Idle]
  /\ unknown = [r \in Run |-> FALSE]
  /\ posts = 0

\* The Manager writes the code of the exception that ended the attempt.
RunFailsUnknown(r) ==
  /\ status[r] = "running" /\ status'[r] = "failed"
  /\ frame[r][lease_token[r]].exc = "outcome_unknown"

\* A Run of the gateway is only created by a caller.
System ==
  /\ ActionsNext
  /\ \A r \in Run : status[r] = "absent" => status'[r] = "absent"
  /\ unknown' = [r \in Run |-> unknown[r] \/ RunFailsUnknown(r)]
  /\ UNCHANGED <<input, caller, posts>>

GatewayNext ==
  \/ System
  \/ \E c \in Caller :
       \/ \E r \in Run, b \in Body : Lookup(c, r, b)
       \/ \E r \in Run : Poll(c, r)
       \/ Submit(c)
       \/ Answer(c)
       \/ Leave(c)

GatewaySpec == GatewayInit /\ [][GatewayNext]_allGatewayVars

-----------------------------------------------------------------------------
(* Properties. *)

\* Whoever reads a Run that has ended is told an outcome: whichever transaction
\* of the coordinator was the last one before the Run failed, was cancelled or
\* completed, project neither calls the Action queued, running or reconciling
\* (wait_for_action would wait for nothing) nor answers
\* action_evidence_incomplete for ever.
EndedRunHasOutcome ==
  /\ \A r \in Run : status[r] \in Terminal => Public(r) \in PublicTerminal
  /\ \A c \in Caller : caller[c].stage = "bound" /\ caller[c].row.status \in Terminal =>
       project(caller[c].row, caller[c].run) \in PublicTerminal

\* With a fixed registry and at most one exception of the store (the bounds of
\* its run and the hypotheses of its theorem) a terminal public status never
\* changes, whatever late answers, recoveries and terminal commits follow.
PublicOutcomeIsFinal ==
  [][\A r \in Run : Public(r) \in PublicTerminal => Public(r)' = Public(r)]_allGatewayVars

\* What callers are told is true of the provider: a succeeded Action was
\* applied, a failed or cancelled one was not and never will be.  Reading the
\* Run before the ledger does not spoil it: however stale the Run is when the
\* ledger is read, a terminal answer is the one a consistent read would give.
PublicStatusIsTrue ==
  /\ \A r \in Run :
       /\ Public(r) = "succeeded" => applied[r] # {}
       /\ Public(r) \in {"failed", "cancelled"} => applied[r] = {}
  /\ \A c \in Caller : caller[c].stage = "bound" =>
       LET told == project(caller[c].row, caller[c].run)
       IN  told \in PublicTerminal => told = Public(caller[c].run)
=============================================================================
