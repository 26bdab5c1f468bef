SPECIFICATION Spec
CONSTANTS
  NumSteps = 2
  RawSteps <- MC_RawSteps
  RunnerSets <- MC_RunnerSets
  None = None
INVARIANTS
  TypeOK
  DuplicateNamesRejected
  WellFormedRunbookBuilds
