SPECIFICATION Spec
CONSTANTS
  u1 = u1
  u2 = u2
  f1 = f1
  f2 = f2
  o1 = o1
  o2 = o2
  u3 = u3
  Files = {f1, f2}
  Users = {u1, u2, u3}
  Orgs = {o1, o2}
  OwnerOf <- Uploaders
  OrgOf <- Tenants
  RoleOf <- OwnersAndMember
  Workers = {w1, w2}
  None = None
  Quota <- Quotas
  Window <- Windows
  MaxFaults = 1
  MaxTokens = 1
  Regimes <- Mixed
SYMMETRY Requests
INVARIANTS
  RowsAndBytesAgree
PROPERTIES
  UploadsFitTheQuota
  RetentionRespected
CHECK_DEADLOCK FALSE
