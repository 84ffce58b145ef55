SPECIFICATION Spec
CONSTANTS
  u1 = u1
  u2 = u2
  Users = {u1, u2}
  EmailOf <- OneAddress
  Rows = {r1, r2, r3}
  Resets = {p1}
  Workers = {w1, w2}
  None = None
  MaxPasswords = 2
  MaxSecrets = 2
  Regimes <- AllRegimes
SYMMETRY Alike
INVARIANTS
  AccountsAreConsistent
  SessionsFollowPassword
  EndedSessionsStayEnded
  TokensWorkOnce
PROPERTY FactorStartsVerified
CHECK_DEADLOCK FALSE
