SPECIFICATION Spec
CONSTANTS
  DSNs <- MC_DSNs
  MaxSteps = 4
INVARIANTS
  TypeOK
  KeysUnique
  RunnersMatchSteps
CHECK_DEADLOCK FALSE
