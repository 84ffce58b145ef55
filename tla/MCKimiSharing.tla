--------------------------- MODULE MCKimiSharing ----------------------------
(* Instances of KimiSharing for TLC. *)
EXTENDS KimiSharing, TLC
CONSTANTS u1, u2, u3

OneOfEach == [u \in Users |-> CASE u = u1 -> "owner"
                                [] u = u2 -> "member"
                                [] u = u3 -> "viewer"]

\* Overlapping: a note shared again and again, collaboration, and grants that
\* race erasures.  Then sharing and collaboration with what removes things
\* alone, and with presence alone too.
AllRegimes ==
    {[issued |-> {"create", "share"}, alone |-> {}, once |-> FALSE],
     [issued |-> {"create", "operate", "presence", "delete"}, alone |-> {}, once |-> TRUE],
     [issued |-> {"create", "share", "delete", "erase", "eraseOrg"}, alone |-> {},
      once |-> TRUE],
     [issued |-> {"create", "share", "operate"} \cup Erasures, alone |-> Erasures,
      once |-> TRUE],
     [issued |-> {"create", "operate", "presence", "eraseOrg"},
      alone |-> Erasures \cup {"presence"}, once |-> TRUE]}

Alike == Permutations(Workers)
=============================================================================
