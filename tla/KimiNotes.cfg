SPECIFICATION Spec
CONSTANTS
  n1 = n1
  f1 = f1
  Objects = {n1, f1}
  ClassOf <- NoteAndFile
  Texts = {t1, t2}
  Keys = {k1, k2, k3}
  Workers = {w1, w2}
  None = None
  MaxVersion = 3
  Regimes <- AllRegimes
SYMMETRY KeysAndWorkers
INVARIANTS
  NotesAreConsistent
  RotationKeepsObjectsReadable
  AnswersAreCurrent
PROPERTY ReadsAreCommitted
