SPECIFICATION ActionsSpec
CONSTANTS
  Run <- MCRun
  Thread = {t1}
  Clock <- MCClock
  LeaseDuration = 1
  MaxAttempts = 1
  MaxEvents = 0
  RetryMode <- MCIdempotent
  Provider = {p1}
  MaxDispatches = 3
  max_dispatches = 2
  RefusalBindsKey = TRUE
  MaxFaults = 1
  MaxDrifts = 0
CHECK_DEADLOCK FALSE
INVARIANTS
  UnknownIsPreserved
