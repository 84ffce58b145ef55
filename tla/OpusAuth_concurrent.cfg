SPECIFICATION Spec
CONSTANTS
  Users = {u1,u2}
  EmailOf <- OneAddress
  Passwords = {p1}
  Secrets = {k1}
  Sids = {s1,s2,s3}
  Rids = {r1}
  Workers = {w1, w2}
  None = None
  MaxFailedLogins = 1
  MaxEpoch = 2
  Workload <- ConcurrentOps
SYMMETRY SidsAndWorkers
INVARIANTS
  EpochAgreesWithRevocation
  RotatedParentsStayDead
  NoRowOutlivesItsUser
  OneAccountPerEmail
CHECK_DEADLOCK FALSE
