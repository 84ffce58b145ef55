----------------------------- MODULE MCOpusAuth -----------------------------
(* Instances of OpusAuth for TLC. *)
EXTENDS OpusAuth, TLC

\* Every row id of table users competes for one e-mail address.
OneAddress == [u \in Users |-> "a@example.com"]

AllOps       == Ops
ConcurrentOps == {"register", "login", "refresh", "logout", "logout_all",
                  "request_reset", "confirm_reset", "erase"}

\* Session and request ids are interchangeable.
SidsAndWorkers == Permutations(Sids) \cup Permutations(Workers)
SidsOnly       == Permutations(Sids)
=============================================================================
