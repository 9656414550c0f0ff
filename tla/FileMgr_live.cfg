SPECIFICATION FairSpec
CONSTANTS
  u1 = u1
  u2 = u2
  t1 = t1
  t2 = t2
  NoFile = NoFile
  Uploads = {u1}
  DerivedIds = {}
  Kind <- MCKind
  Derive <- MCDerive
  MaxFlaws = 1
  Reqs = {r1}
  Workers = {w1, w2}
  MaxRestarts = 1
INVARIANT NoDoubleProcessing
PROPERTY UploadingIsTransient
PROPERTY PendingIsClaimed
PROPERTY ClaimedIsSettled
PROPERTY StopReturns
CHECK_DEADLOCK FALSE
