SPECIFICATION AgentsSpec
CONSTANTS
  Run <- MCRun
  Thread = {"t1", "t2"}
  ThreadOf <- MCThreadOf
  Clock <- MCClock
  LeaseDuration = 1
  MaxAttempts = 2
  MaxEvents = 0
  StepId <- MCSteps
  max_attempts = 2
  Key = {"home"}
  Value = {v1, v2}
  Output = {"good", "bad"}
  Call = {a, wrong}
  InvalidCall = {wrong}
  Refused = {"bad"}
  max_tool_calls = 2
  MaxForeign = 1
  dependencies <- MCGraph
  Bad = {"bad"}
  step_loop_guard = 5
  TravelRun <- MCTravelRun
  ReleaseRun <- MCReleaseRun
  AttemptsOf <- MCAttemptsOf
  Offered <- MCOffered
  Request <- MCRequest
  MaxMishaps = 1
INVARIANTS
  RestartsAgree
  ChildHasOwner
  EvidenceTellsLedger
  TrailIsComplete
  VersionsAreLinear
  VerdictIsGrounded
  DagIsRight
SYMMETRY MCSymmetry
