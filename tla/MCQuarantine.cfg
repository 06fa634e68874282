SPECIFICATION QuarantineSpec
CONSTANTS
  Run <- MCRun
  Thread = {t1}
  Clock <- MCClock
  LeaseDuration = 1
  MaxAttempts = 2
  MaxEvents = 0
  RetryMode <- MCBothModes
  Provider = {p1}
  MaxDispatches = 2
  Writer <- MCWriter
  Operator = {o1, o2}
  MaxRevision = 2
INVARIANTS
  StepAgreesWithAction
  ReleasedOnSettledEvidence
  CommittedResolutionVerifies
  SettledIsEligible
PROPERTIES
  QuarantineHolds
SYMMETRY MCSymmetry
CHECK_DEADLOCK FALSE
