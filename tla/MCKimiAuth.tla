----------------------------- MODULE MCKimiAuth -----------------------------
(* Instances of KimiAuth for TLC. *)
EXTENDS KimiAuth, TLC
CONSTANTS u1, u2

\* Both accounts register with the same address.
OneAddress == [u \in Users |-> "a"]

Session  == {"register", "login", "refresh", "logout"}
Password == {"register", "login", "refresh", "change", "request", "confirm"}

\* Sessions and passwords with everything overlapping, and with refreshes,
\* resets and erasures alone; then two-factor authentication.
AllRegimes ==
    {[issued |-> Password \cup {"logout"}, alone |-> {}],
     [issued |-> Password \cup {"logout"}, alone |-> {"refresh", "confirm"}],
     [issued |-> Session \cup {"erase"}, alone |-> {}],
     [issued |-> Session \cup {"erase"}, alone |-> {"refresh", "erase"}],
     [issued |-> {"register", "login", "setup", "enable"}, alone |-> {"setup"}]}

Alike == Permutations(Workers) \cup Permutations(Rows)
=============================================================================
