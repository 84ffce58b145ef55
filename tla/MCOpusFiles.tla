---------------------------- MODULE MCOpusFiles -----------------------------
(* Instances of OpusFiles for TLC. *)
EXTENDS OpusFiles, TLC
CONSTANTS u1, u2, u3, f1, f2, o1, o2

\* u1 owns a tenant and uploads f2, its member u2 uploads f1; u3 owns another.
Uploaders == [f \in Files |-> IF f = f1 THEN u2 ELSE u1]
Tenants == [u \in Users |-> IF u = u3 THEN o2 ELSE o1]
OwnersAndMember == [u \in Users |-> IF u = u2 THEN "member" ELSE "owner"]

Quotas  == [free |-> 1, paid |-> 2]
Windows == [free |-> 1, paid |-> 2]

\* Retention and erasure each overlap everything else; then erasures of
\* users run alone.
Mixed == {[issued |-> {"upload", "delete", "download", "purge"}, alone |-> {}],
          [issued |-> {"upload", "eraseOrg", "eraseUser"}, alone |-> {}],
          [issued |-> {"upload", "delete", "eraseUser"}, alone |-> {"eraseUser"}]}

Requests == Permutations(Workers)
=============================================================================
