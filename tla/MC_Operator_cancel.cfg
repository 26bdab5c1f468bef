\* Loops of count 1 or 2, an afterFunc, and a context that may be
\* cancelled at any point of the run.
CONSTANTS
  NumSteps = 2
  StepConfigs <- MC_StepConfigs
  MaxCount = 2
  NumBefore = 0
  NumAfter = 1
  CanCancel = TRUE

SPECIFICATION Spec

INVARIANT CancelledRunFails
