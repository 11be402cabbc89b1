SPECIFICATION Spec
CONSTANTS
  Contents <- Catalogue
  MaxLen = 1
INVARIANT UnchangedMeansSameScope
CHECK_DEADLOCK FALSE
