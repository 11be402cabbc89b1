SPECIFICATION Spec
CONSTANTS
  Requests = {q1, q2, q3}
  RunIds = {r1}
  Horizon = 0
  MaxLost = 0
  None = none
SYMMETRY Symmetry
INVARIANTS CompletedRunsListedCompleted
CHECK_DEADLOCK FALSE
