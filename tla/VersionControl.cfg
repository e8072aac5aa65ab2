SPECIFICATION FairSpec
CONSTANTS
  MaxRepositories = 2
  MaxDiffs = 2
  MaxTargets = 2
  MaxDiffSessions = 1
  Chunks = 1
CHECK_DEADLOCK FALSE
INVARIANTS
  InstalledIsWhole
  TempHasWorker
  ConfirmedAsOffered
PROPERTIES
  PromiseKept
  UncancelledExportEnds
  OutcomeIsHeard
