SPECIFICATION Spec
CONSTANTS
  u1 = u1
  u2 = u2
  Users = {u1, u2}
  Workers = {w1, w2}
  Links = {l1}
  None = None
  InitialRoles <- OwnerAlone
  FirstBody <- TwoMarks
  OplogLimit = 2
  MaxVersion = 4
  Lengths = {1, 2}
  Workloads <- AllWorkloads
SYMMETRY WorkersAlike
INVARIANTS
  NoteIsConsistent
  OperationsKeepTheirPlace
PROPERTY ReadsAreCurrent
CHECK_DEADLOCK FALSE
