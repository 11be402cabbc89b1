SPECIFICATION FairSpec
CONSTANTS
  Requests = {q1, q2, q3}
  RunIds = {r1}
  Horizon = 0
  MaxLost = 0
  None = none
PROPERTIES AnsweredUnlessStuck DeletedBytesPurged
CHECK_DEADLOCK FALSE
