SPECIFICATION FairAuthSpec
CONSTANTS
  t1 = t1
  t2 = t2
  t3 = t3
  ann = ann
  bob = bob
  Names = {ann, bob}
  NameOf <- MCNameOf
  NoUser = NoUser
  NoReq = NoReq
  Reqs = {r1, r2}
  Tokens = {t1, t3}
  UserIds = {i1, i2}
INVARIANT TokensKeepTheirUser
INVARIANT RevokedIsOut
PROPERTY AuthenticateReturns
CHECK_DEADLOCK FALSE
