SPECIFICATION ManagerSpec
CONSTANTS
  Run <- MCTwoRuns
  Thread = {t1}
  Clock <- MCClock
  LeaseDuration = 1
  MaxAttempts = 4
  MaxEvents = 3
  Manager = {m1, m2}
  worker_count = 1
  Budget <- MCThread
INVARIANTS
  ExclusiveExecution
  ExecutesOnCurrentState
SYMMETRY ManagerSymmetry
