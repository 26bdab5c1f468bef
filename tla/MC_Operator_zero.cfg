\* Loops whose count evaluates to 0 or 1, with and without `until`.
CONSTANTS
  NumSteps = 2
  StepConfigs <- MC_StepConfigsWithZero
  MaxCount = 1
  NumBefore = 0
  NumAfter = 0
  CanCancel = FALSE

SPECIFICATION Spec

PROPERTY ZeroCountLoopSucceeds
