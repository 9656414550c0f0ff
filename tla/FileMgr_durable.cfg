SPECIFICATION FairSpec
CONSTANTS
  u1 = u1
  u2 = u2
  t1 = t1
  t2 = t2
  NoFile = NoFile
  Uploads = {u1}
  DerivedIds = {}
  Kind <- MCKind
  Derive <- MCDerive
  MaxFlaws = 0
  Reqs = {r1}
  Workers = {w1}
  MaxRestarts = 1
PROPERTY QueueIsDurable
CHECK_DEADLOCK FALSE
