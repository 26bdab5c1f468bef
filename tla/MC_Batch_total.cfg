\* The spec's tally equation after RunN, with failFast operators.
CONSTANTS
  NumOps = 2

SPECIFICATION Spec

INVARIANT TotalIsSumOfTallies
