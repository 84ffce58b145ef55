----------------------------- MODULE MCKimiAudit ----------------------------
(* Instances of KimiAudit for TLC. *)
EXTENDS KimiAudit, TLC

AllKinds  == {"write", "export"}

Symmetric == Permutations(Events) \cup Permutations(Workers)
=============================================================================
