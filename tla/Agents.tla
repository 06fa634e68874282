------------------------------- MODULE Agents -------------------------------
(***************************************************************************)
(* A service that hosts the built-in agents over one database: Runs pinned *)
(* to the travel agent and Runs pinned to release validation.  Attempts    *)
(* crash, meet exceptions of the store, lose their leases and are taken    *)
(* over at every step.                                                     *)
(***************************************************************************)
EXTENDS DynamicAgent, ReleaseValidation

CONSTANTS
  TravelRun,   \* Runs pinned to the travel agent
  ReleaseRun,  \* Runs pinned to release validation
  ThreadOf,    \* the thread of each Run
  Offered,     \* bound: sets of Runs that are submitted in one behaviour
  Request      \* bound: manifest and replay of every release Run

ASSUME AgentsAssumption ==
  /\ TravelRun \cup ReleaseRun = Run
  /\ TravelRun \cap ReleaseRun = {}
  /\ Offered \subseteq SUBSET Run
  /\ ThreadOf \in [Run -> Thread]

VARIABLE offered  \* the Runs that clients submit

requestedVars == <<writes, releaseVars, offered>>
serviceVars == <<agentVars, requestedVars>>

AgentsInit ==
  /\ Init
  /\ \A r \in Run : thread_id[r] = ThreadOf[r] /\ ~has_state[r]
  /\ StepsInit /\ MemoryInit /\ AttemptsInit
  /\ offered \in Offered
  /\ writes \in [TravelRun -> [Key -> Value \cup {"none"}]]
  /\ \E q \in Request :
       /\ manifest = [r \in ReleaseRun |-> q[r].manifest]
       /\ replay = [r \in ReleaseRun |-> q[r].replay]
  \* What nobody submits needs no variety.
  /\ \A r \in TravelRun \ offered : writes[r] = [x \in Key |-> "none"]
  /\ ReleaseRun \cap offered = {} => \A r \in ReleaseRun : ~Replaying(r)

Submit(r) ==
  /\ r \in offered
  /\ create_run_with_event(r)
  /\ UNCHANGED <<stepVars, memoryVars, verdict, attemptVars, child, boundVars, requestedVars>>

Begin(r) ==
  /\ attempt[r] < AttemptsOf[r]
  /\ Start(r, IF r \in TravelRun THEN "retrieve" ELSE "open_release")
  /\ UNCHANGED requestedVars

AttemptMoves(r, k) ==
  \/ SharedStep(r, k) /\ UNCHANGED requestedVars
  \/ r \in TravelRun /\ (LoopStep(r, k) \/ LoopRaises(r, k)) /\ UNCHANGED <<releaseVars, offered>>
  \/ r \in ReleaseRun /\ (ReleaseStep(r, k) \/ ReleaseRaises(r, k)) /\ UNCHANGED requestedVars

\* Every submitted Run has ended.
Settled ==
  /\ \A r \in offered : status[r] \in Terminal
  /\ \A r \in Run, k \in Attempt : ~Busy(r, k) /\ child[r][k] = "none"
  /\ UNCHANGED serviceVars

AgentsNext ==
  \/ \E r \in Run : Submit(r) \/ Begin(r)
  \/ \E r \in Run, k \in Attempt : AttemptMoves(r, k)
  \/ \E x \in Key : /\ TravelRun \cap offered # {}
                    /\ ElsewhereMutates(x) /\ UNCHANGED <<releaseVars, offered>>
  \/ Settled

AgentsSpec == AgentsInit /\ [][AgentsNext]_serviceVars

=============================================================================
