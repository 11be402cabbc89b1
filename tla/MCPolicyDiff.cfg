SPECIFICATION Spec
CONSTANTS
  Contents <- Catalogue
  MaxLen = 3
INVARIANT DiffIsSound
CHECK_DEADLOCK FALSE
