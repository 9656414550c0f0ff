SPECIFICATION Spec
CONSTANTS
  u1 = u1
  u2 = u2
  t1 = t1
  t2 = t2
  NoFile = NoFile
  Uploads = {u1}
  DerivedIds = {}
  Kind <- MCKind
  Derive <- MCDerive
  MaxFlaws = 1
  Reqs = {r1}
  Workers = {}
  MaxRestarts = 0
PROPERTY RollbackRemovesRow
CHECK_DEADLOCK FALSE
