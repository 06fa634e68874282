SPECIFICATION PgSpec
CONSTANTS
  Run <- MCRun
  Thread = {t1}
  Clock <- MCClock
  LeaseDuration = 1
  MaxAttempts = 2
  MaxEvents = 0
  Session = {s1, s2}
INVARIANTS
  SeedsAreSerial
  CompletionIsStable
PROPERTIES
  ImplementsThreadHistory
SYMMETRY SessionSymmetry
