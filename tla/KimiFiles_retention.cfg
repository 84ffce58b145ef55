SPECIFICATION FairSpec
CONSTANTS
  u1 = u1
  u2 = u2
  f1 = f1
  o1 = o1
  o2 = o2
  Files = {f1, f2}
  Users = {u1, u2}
  Orgs = {o1, o2}
  Tokens = {}
  OwnerOf <- Uploaders
  OrgOf <- TwoTenants
  RoleOf <- TwoOwners
  Workers = {system, w1}
  System = system
  None = None
  MaxFaults = 1
  Regimes <- PlansAlone
PROPERTIES
  RetentionRespected
  RetentionEnforced
CHECK_DEADLOCK FALSE
