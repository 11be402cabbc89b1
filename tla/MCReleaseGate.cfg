SPECIFICATION Spec
CONSTANTS
  None = None
  c1 = c1
  g1 = g1
  d1 = d1
  x1 = x1
  t1 = t1
  t2 = t2
  e1 = e1
  v1 = v1
  Requests = {c1, g1, d1, x1, t1, t2, e1}
  KindOf <- MCKindOf
  Versions = {v1}
  Evaluable = {v1}
  Enforceable = {v1}
  Slots = {1}
SYMMETRY Tests
INVARIANTS
  TypeOK
  FailureIsRespected
  OpenedByApprover
  CompileAgrees
CHECK_DEADLOCK FALSE
