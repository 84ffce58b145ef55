SPECIFICATION Spec
CONSTANTS
  Orgs = {o1, o2}
  Contents = {c1, c2}
  Writers = {w1, w2, w3}
  Kinds <- AllKinds
  None = None
  MaxStamp = 3
SYMMETRY Symmetric
INVARIANTS
  LogIsSound
PROPERTY HeadOnlyExtends
CHECK_DEADLOCK FALSE
