\* Two-step runbooks, loops of count 1 or 2, no cancellation.
CONSTANTS
  NumSteps = 2
  StepConfigs <- MC_StepConfigs
  MaxCount = 2
  NumBefore = 1
  NumAfter = 1
  CanCancel = FALSE

SPECIFICATION Spec

INVARIANT TypeOK
INVARIANT StoreMatchesSteps
INVARIANT UntilSeesThisIteration

PROPERTY OperatorRunSpec
PROPERTY LoopLeavesLastFrame
