SPECIFICATION Spec
CONSTANTS
  u1 = u1
  u2 = u2
  u3 = u3
  Users = {u1, u2, u3}
  Workers = {w1, w2}
  None = None
  InitialRoles <- OneOfEach
  MaxGrants = 2
  MaxOperations = 4
  Regimes <- AllRegimes
SYMMETRY Alike
INVARIANTS
  SharingIsConsistent
  OperationsFollowWhatTheySaw
PROPERTY SharingNeverTakesAway
CHECK_DEADLOCK FALSE
