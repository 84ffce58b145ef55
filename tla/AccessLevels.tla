---------------------------- MODULE AccessLevels ----------------------------
(***************************************************************************)
(* Roles of a tenant and levels of access to a note, as both servers       *)
(* compute them: the level of a role, of ownership and of a share are      *)
(* joined, and a viewer is capped at reading.                              *)
(***************************************************************************)
EXTENDS Naturals

Roles == {"viewer", "member", "admin", "owner"}

\* Role.rank and Role.at_least.
Rank == [viewer |-> 0, member |-> 1, admin |-> 2, owner |-> 3]

AtLeast(role, minimum) == Rank[role] >= Rank[minimum]

\* PERM_LEVELS; 0 is no access.
ReadLevel  == 1
WriteLevel == 2
AdminLevel == 3
Levels == 0 .. 3

Granted(role, isOwner, share) ==
    IF role \in {"owner", "admin"} \/ isOwner THEN AdminLevel ELSE share

\* AccessService._combine.
Combine(role, isOwner, share) ==
    IF role = "viewer" /\ Granted(role, isOwner, share) > ReadLevel
    THEN ReadLevel
    ELSE Granted(role, isOwner, share)
=============================================================================
