SPECIFICATION Spec
CONSTANTS
  Requests = {q1, q2, q3, q4}
  RunIds = {r1}
  Horizon = 1
  MaxLost = 1
  None = none
SYMMETRY Symmetry
INVARIANTS TypeOK LiveVersionsHaveBytes StoredBytesAccountedFor DeletionsAudited
  FailuresLeaveTheirTrail
PROPERTIES RetentionRespected RunIdsNotReused
CHECK_DEADLOCK FALSE
