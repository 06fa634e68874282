SPECIFICATION Spec
CONSTANTS
  Run <- MCRun
  Thread = {t1}
  Clock <- MCClock
  LeaseDuration = 1
  MaxAttempts = 2
  MaxEvents = 0
INVARIANT RevisionConflictImpossible
CHECK_DEADLOCK FALSE
