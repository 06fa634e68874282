SPECIFICATION ActionsSpec
CONSTANTS
  Run <- MCRun
  Thread = {t1}
  Clock <- MCClock
  LeaseDuration = 1
  MaxAttempts = 2
  MaxEvents = 0
  RetryMode <- MCBothModes
  Provider = {p1, p2}
  MaxDispatches = 3
  max_dispatches = 2
  RefusalBindsKey = TRUE
  MaxFaults = 1
  MaxDrifts = 1
INVARIANTS
  RunTellsOutcome
  AtMostOneEffect
PROPERTIES
  ImplementsLedger
  EveryDispatchSettles
CHECK_DEADLOCK FALSE
