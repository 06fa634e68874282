SPECIFICATION Spec
CONSTANTS
  Run <- MCRun
  Thread = {t1, t2}
  Clock <- MCClock
  LeaseDuration = 1
  MaxAttempts = 2
  MaxEvents = 3
INVARIANTS
  CapturedRevisionHeld
  EventsTellStatus
PROPERTIES
  ImplementsThreadHistory
  HandoverIsOrderly
  OutcomeStands
SYMMETRY ThreadSymmetry
