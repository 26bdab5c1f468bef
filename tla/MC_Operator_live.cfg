\* Termination of Run under weak fairness, with cancellation, on
\* two-step runbooks whose steps have no `if`, no hook or a lone test,
\* and loops of count 2.
CONSTANTS
  NumSteps = 2
  StepConfigs <- MC_StepConfigsLive
  MaxCount = 2
  NumBefore = 1
  NumAfter = 1
  CanCancel = TRUE

SPECIFICATION Spec

PROPERTY Termination
