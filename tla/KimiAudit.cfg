SPECIFICATION FairSpec
CONSTANTS
  Events = {e1, e2, e3}
  Workers = {w1, w2, w3}
  Kinds <- AllKinds
  None = None
INVARIANTS
  LogIsSound
PROPERTY RequestsEnd
CHECK_DEADLOCK FALSE
