----------------------------- MODULE MCKimiFiles ----------------------------
(* Instances of KimiFiles for TLC. *)
EXTENDS KimiFiles, TLC
CONSTANTS u1, u2, f1, o1, o2

\* u1 owns a tenant, u2 is a member of it or the owner of another; f1 is
\* uploaded by the member, and f2 by the owner.
Uploaders  == [f \in Files |-> IF f = f1 THEN u2 ELSE u1]
OwnerMember == [u \in Users |-> IF u = u1 THEN "owner" ELSE "member"]
TwoOwners  == [u \in Users |-> "owner"]
OneTenant  == [u \in Users |-> o1]
TwoTenants == [u \in Users |-> IF u = u1 THEN o1 ELSE o2]

\* Everything may overlap; erasures, downloads and plan changes run alone.
BothRegimes == {{}, {"eraseUser", "eraseOrg", "download", "changePlan"}}
PlansAlone  == {{"changePlan"}}

Requests == Permutations(Workers \ {System})
=============================================================================
