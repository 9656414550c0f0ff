SPECIFICATION Spec
CONSTANTS
  u1 = u1
  u2 = u2
  t1 = t1
  t2 = t2
  NoFile = NoFile
  Uploads = {u1}
  DerivedIds = {t1}
  Kind <- MCKindPlain
  Derive <- MCDerive
  MaxFlaws = 1
  Reqs = {r1, r2}
  Workers = {w1}
  MaxRestarts = 0
SYMMETRY Symmetric
INVARIANT TypeOK
INVARIANT IInv
INVARIANT CreatedIsQueued
INVARIANT DoneHasMedia
INVARIANT DerivedAreStored
PROPERTY ImplementsFileLife
CHECK_DEADLOCK FALSE
