SPECIFICATION GatewaySpec
CONSTANTS
  Run <- MCRun
  Thread = {t1}
  Clock <- MCClock
  LeaseDuration = 1
  MaxAttempts = 2
  MaxEvents = 0
  RetryMode <- MCBothModes
  Provider = {p1}
  MaxDispatches = 3
  max_dispatches = 2
  RefusalBindsKey = TRUE
  MaxFaults = 1
  MaxDrifts = 0
  Caller = {c1, c2}
  Body = {b1, b2}
  MaxPosts = 2
  MaxReaders = 1
INVARIANTS
  PublicStatusIsTrue
  EndedRunHasOutcome
  LedgerTellsTruth
  NoDispatchBehindTerminalRun
PROPERTIES
  PublicOutcomeIsFinal
SYMMETRY MCSymmetry
CHECK_DEADLOCK FALSE
