----------------------------- MODULE MCOpusNotes ----------------------------
(* Instances of OpusNotes for TLC. *)
EXTENDS OpusNotes
CONSTANTS u1, u2

\* The other user comes in by an invitation.
OwnerAlone == [u \in Users |-> IF u = u1 THEN "owner" ELSE None]

TwoMarks == Text(1, 2)

\* Editing together with restarts and replacements of the body; readers,
\* writers and links; changes of access under way.
AllWorkloads == {{"create", "operate", "edit", "forget"},
                 {"create", "read", "edit", "delete", "link", "open", "forget"},
                 {"create", "edit", "delete", "share", "members"}}

WorkersAlike == Permutations(Workers)
=============================================================================
