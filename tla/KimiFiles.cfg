SPECIFICATION Spec
CONSTANTS
  u1 = u1
  u2 = u2
  f1 = f1
  o1 = o1
  o2 = o2
  Files = {f1}
  Users = {u1, u2}
  Orgs = {o1}
  Tokens = {t1}
  OwnerOf <- Uploaders
  OrgOf <- OneTenant
  RoleOf <- OwnerMember
  Workers = {system, w1, w2}
  System = system
  None = None
  MaxFaults = 1
  Regimes <- BothRegimes
SYMMETRY Requests
INVARIANTS
  RowsAndBytesAgree
  ErasureIsComplete
  TokensAreUsedOnce
CHECK_DEADLOCK FALSE
