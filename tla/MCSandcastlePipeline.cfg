SPECIFICATION LiveSpec
CONSTANTS
  Runs = {r1, r2}
  Issues = {1, 2, 3, 4, 5}
  Blockers <- InOrder
  Planning = {4}
  PARALLEL_RUNS = 2
  Overlap = FALSE
  GhFails = FALSE
  LookupsFail = TRUE
  Misnumbered = FALSE
INVARIANT LabelsTellTheTruth
PROPERTIES EveryClaimSettled
CHECK_DEADLOCK FALSE
