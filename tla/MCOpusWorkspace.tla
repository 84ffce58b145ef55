-------------------------- MODULE MCOpusWorkspace --------------------------
(* Instances of OpusWorkspace for TLC. *)
EXTENDS OpusWorkspace

ThreePlans == {"free", "pro", "business"}
Prices   == [plan \in ThreePlans |->
                CASE plan = "free" -> 0 [] plan = "pro" -> 1 [] plan = "business" -> 3]
Seats    == [plan \in ThreePlans |-> IF plan = "business" THEN 3 ELSE 2]

\* Members come and go while the plan changes; periods pass and are billed.
AllWorkloads == {{"invite", "role", "remove", "eraseOrg", "eraseUser"},
                 {"invite", "remove", "plan"},
                 {"plan", "bill"}}

\* Requests are alike, and so are the users other than the owner.
Alike == Permutations(Workers) \cup Permutations(Users \ {Owner})
=============================================================================
