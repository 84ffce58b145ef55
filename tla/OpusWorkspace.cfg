SPECIFICATION Spec
CONSTANTS
  Users = {u1, u2, u3}
  Owner = u1
  Workers = {w1, w2}
  None = None
  Plans <- ThreePlans
  Price <- Prices
  MaxSeats <- Seats
  Period = 2
  MaxTime = 3
  MaxInvoices = 3
  Workloads <- AllWorkloads
SYMMETRY Alike
INVARIANTS
  TenantIsConsistent
  AuthorityHeldUntilCommit
  PeriodsBilledOnce
  UpgradesChargeTheDifference
PROPERTY TenantsWithMembersStay
CHECK_DEADLOCK FALSE
