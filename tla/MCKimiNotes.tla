----------------------------- MODULE MCKimiNotes ----------------------------
(* Instances of KimiNotes for TLC. *)
EXTENDS KimiNotes, TLC
CONSTANTS n1, f1

NoteAndFile == [o \in Objects |-> IF o = n1 THEN "note" ELSE "file"]

\* Nothing overlaps; creations and reads do not; everything may overlap.
AllRegimes == {Ops, {"create", "get"}, {}}

KeysAndWorkers == Permutations(Keys) \cup Permutations(Workers) \cup Permutations(Texts)
=============================================================================
