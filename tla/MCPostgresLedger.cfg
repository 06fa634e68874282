SPECIFICATION PgSpec
CONSTANTS
  Session = {s1, s2, s3}
  Run <- MCRun
  Load <- MCLoad
  MaxDispatches = 2
  MaxRevision = 2
  MaxVersions = 3
  MaxEvents = 2
INVARIANTS
  ReadsAreCurrent
  NoLockCycle
  RowsAgree
  ReleasedOnFrozenEvidence
  OneLineOfVersions
PROPERTIES
  FirstOutcomeStands
SYMMETRY MCSymmetry
