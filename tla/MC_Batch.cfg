\* Three operators, each with or without failFast, every outcome.
CONSTANTS
  NumOps = 3

SPECIFICATION Spec

INVARIANT TypeOK
INVARIANT CapturesBalanced

PROPERTY Termination
