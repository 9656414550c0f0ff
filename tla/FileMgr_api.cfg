SPECIFICATION Spec
CONSTANTS
  u1 = u1
  u2 = u2
  t1 = t1
  t2 = t2
  NoFile = NoFile
  Uploads = {u1}
  DerivedIds = {}
  Kind <- MCKind
  Derive <- MCDerive
  MaxFlaws = 3
  Reqs = {r1, r2, r3}
  Workers = {}
  MaxRestarts = 0
SYMMETRY Symmetric
INVARIANT CreatedIsStored
INVARIANT FailedUploadLeavesNothing
INVARIANT DeletionsAreFinal
INVARIANT PurgedLeavesNoObject
CHECK_DEADLOCK FALSE
