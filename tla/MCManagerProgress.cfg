SPECIFICATION ManagerSpec
CONSTANTS
  Run <- MCOneRun
  Thread = {t1}
  Clock <- MCClock
  LeaseDuration = 1
  MaxAttempts = 6
  MaxEvents = 0
  Manager = {m1}
  worker_count = 2
  Budget <- MCAnyTwo
INVARIANTS
  CancelMaskedOnlyBySafety
PROPERTIES
  StopHandsOver
  EveryRunEnds
