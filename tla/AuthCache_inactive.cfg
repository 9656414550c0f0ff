SPECIFICATION AuthSpec
CONSTANTS
  t1 = t1
  t2 = t2
  t3 = t3
  ann = ann
  bob = bob
  Names = {ann, bob}
  NameOf <- MCNameOf
  NoUser = NoUser
  NoReq = NoReq
  Reqs = {r1}
  Tokens = {t1, t2}
  UserIds = {i1}
PROPERTY InactiveIsRejected
CHECK_DEADLOCK FALSE
