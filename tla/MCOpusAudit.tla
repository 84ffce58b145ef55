---------------------------- MODULE MCOpusAudit -----------------------------
(* Instances of OpusAudit for TLC. *)
EXTENDS OpusAudit, TLC

AllKinds  == {"tenant", "open"}

Symmetric == Permutations(Writers) \cup Permutations(Contents) \cup Permutations(Orgs)
=============================================================================
