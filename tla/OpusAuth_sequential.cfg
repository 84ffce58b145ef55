SPECIFICATION Spec
CONSTANTS
  Users = {u1}
  EmailOf <- OneAddress
  Passwords = {p1, p2}
  Secrets = {k1, k2}
  Sids = {s1, s2, s3}
  Rids = {r1}
  Workers = {w1}
  None = None
  MaxFailedLogins = 2
  MaxEpoch = 2
  Workload <- AllOps
SYMMETRY SidsOnly
INVARIANTS
  SessionsFollowCredentials
  TokensWorkOnce
  WrongPasswordsLockAccount
  CredentialsAreTheUsers
