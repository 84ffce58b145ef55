--------------------------- MODULE KimiAuthProofs ---------------------------
(***************************************************************************)
(* Theorems of KimiAuth, for every set of accounts, addresses, tokens and  *)
(* requests, every bound, and every choice of what clients issue and what  *)
(* they issue alone.                                                       *)
(***************************************************************************)
EXTENDS KimiAuth, FiniteSetTheorems, TLAPS

-----------------------------------------------------------------------------
(* The inductive invariant.                                                *)

\* A session is recorded with its account and the row of its login.
RowsInv ==
    /\ \A r \in Rows :
          IF rows[r].status = "unused"
          THEN rows[r].user = None /\ rows[r].login = None /\ rows[r].children = {}
          ELSE /\ rows[r].user \in Users /\ rows[r].login \in Rows
               /\ rows[rows[r].login].status # "unused"
    /\ \A l \in ended : rows[l].status # "unused"

\* What a request has read of the rows it is about to write.
Carries(q) ==
    /\ q.op # None => q.user \in Users
    /\ q.op = "refresh" =>
          /\ q.row \in Rows /\ rows[q.row].status # "unused"
          /\ rows[q.row].user = q.user
          /\ rows[q.row].late \/ rows[q.row].password = q.password
    /\ q.op = "logout" => \A r \in q.rows : rows[r].status # "unused"
    /\ q.op = "confirm" => q.reset \in Resets /\ resets[q.reset].status # "unused"
    /\ q.op \in {"enable", "erase"} => users[q.user].status # "unused"
    /\ q.op = "register" => users[q.user].status = "unused"

RequestsCarry ==
    /\ \A w \in Workers : Carries(requests[w])
    /\ \A w, v \in Workers :
          (requests[w].op = "register" /\ requests[v].op = "register" /\
           requests[w].user = requests[v].user) => w = v

AloneIsAlone ==
    \A w \in Workers : requests[w].op \in regime.alone =>
        \A v \in Workers \ {w} : requests[v] = Idle

\* As long as erasures are alone, a request that opens or prolongs a session
\* is of an account that is there.
ErasureInv ==
    "erase" \in regime.alone =>
        \A w \in Workers : requests[w].op \in {"login", "refresh"} =>
            Active(requests[w].user)

\* A session that is not revoked: unless it has expired, it can be prolonged.
Live(r) == rows[r].status \in {"active", "expired"}

\* As long as refreshes are alone, a login has one row that is not revoked,
\* which has not been exchanged; what a logout has selected is that row.
RefreshInv ==
    "refresh" \in regime.alone =>
        /\ \A r \in Rows : Live(r) => rows[r].login \notin ended /\ rows[r].children = {}
        /\ \A r, s \in Rows :
              Live(r) /\ Live(s) /\ rows[r].login = rows[s].login => r = s
        /\ \A r \in Rows : Cardinality(rows[r].children) <= 1
        /\ \A w \in Workers : requests[w].op = "refresh" => Live(requests[w].row)
        /\ \A w \in Workers : requests[w].op = "logout" =>
              \A r \in requests[w].rows, s \in Rows :
                  Live(s) /\ rows[s].login = rows[r].login => s = r

\* The confirmations in flight with a token.
Confirming(p) == {w \in Workers : requests[w].op = "confirm" /\ requests[w].reset = p}

\* A token that is still valid has not been used, and can be used no more
\* often than there are requests; alone, a confirmation is the first.
ResetsInv ==
    \A p \in Resets :
        /\ resets[p].status \in {"unused", "valid"} => resets[p].uses = 0
        /\ resets[p].status # "unused" => resets[p].user \in Users
        /\ resets[p].uses + Cardinality(Confirming(p)) <= Cardinality(Workers)
        /\ "confirm" \in regime.alone =>
              /\ resets[p].uses <= 1
              /\ \A w \in Confirming(p) : resets[p].uses = 0

\* As long as setups are alone, the secret that a code has matched is still
\* that of the account.
FactorInv ==
    "setup" \in regime.alone =>
        \A w \in Workers : requests[w].op = "enable" /\ Active(requests[w].user) =>
            users[requests[w].user].secret = requests[w].secret

IInv ==
    /\ TypeOK /\ RowsInv /\ RequestsCarry /\ AloneIsAlone
    /\ EmailsAreUnique /\ RowsHaveAccounts /\ ErasureInv
    /\ SessionsFollowPassword /\ RefreshInv /\ ResetsInv /\ FactorInv

-----------------------------------------------------------------------------
(* Requests.                                                               *)

LEMMA IdleIsRequest ==
    Idle \in Request /\ Idle.op = None /\ Idle.op \notin Ops /\ None \notin Ops
  BY AuthAssumption DEF Idle, Request, Ops

LEMMA RequestFacts ==
    ASSUME IInv, NEW w \in Workers
    PROVE  /\ requests \in [Workers -> Request] /\ requests[w] \in Request
           /\ Carries(requests[w])
           /\ requests[w].op \in Ops => requests[w].user \in Users /\ requests[w] # Idle
  BY IdleIsRequest DEF IInv, TypeOK, RequestsCarry, Carries

\* Steps that begin no request: each goes on with what it carries, or ends.
Quiet == \A v \in Workers : requests'[v] = requests[v] \/ requests'[v] = Idle

LEMMA EndFacts ==
    ASSUME IInv, NEW w \in Workers, End(w)
    PROVE  /\ requests' \in [Workers -> Request] /\ requests'[w] = Idle
           /\ \A v \in Workers \ {w} : requests'[v] = requests[v]
           /\ Quiet
  BY IdleIsRequest DEF IInv, TypeOK, End, Quiet

LEMMA AloneKept ==
    ASSUME IInv, Quiet, regime' = regime
    PROVE  AloneIsAlone'
<1> SUFFICES ASSUME NEW w \in Workers, requests'[w].op \in regime.alone,
                    NEW v \in Workers \ {w}
             PROVE  requests'[v] = Idle
  BY DEF AloneIsAlone
<1>1. regime.alone \subseteq Ops
  BY AuthAssumption DEF IInv, TypeOK
<1>2. requests'[w] = requests[w]
  BY <1>1, IdleIsRequest DEF Quiet
<1> QED
  BY <1>2 DEF Quiet, IInv, AloneIsAlone

\* What is written of a session stays as it is.
RowsKeep ==
    \A r \in Rows : rows[r].status # "unused" =>
        /\ rows'[r].status # "unused" /\ rows'[r].user = rows[r].user
        /\ rows'[r].password = rows[r].password /\ rows'[r].late = rows[r].late
        /\ rows'[r].login = rows[r].login

LEMMA CarryKept ==
    ASSUME IInv, Quiet, RowsKeep,
           \A p \in Resets : resets[p].status # "unused" => resets'[p].status # "unused",
           \A u \in Users : users[u].status # "unused" => users'[u].status # "unused",
           \A u \in Users : users'[u].status # users[u].status =>
               \A v \in Workers : requests'[v].op = "register" => requests'[v].user # u
    PROVE  RequestsCarry'
<1>1. ASSUME NEW v \in Workers PROVE Carries(requests[v])'
  <2> DEFINE q == requests[v]
  <2>1. CASE requests'[v] = Idle
    BY <2>1, IdleIsRequest DEF Carries, Ops
  <2>2. CASE requests'[v] = q
    <3>1. /\ Carries(q) /\ q \in Request
          /\ q.op = "register" => users'[q.user].status = users[q.user].status
      BY <2>2, RequestFacts DEF Ops
    <3> HIDE DEF q
    <3>2. Carries(q)'
      <4>1. q.rows \in SUBSET Rows
        BY <3>1 DEF Request
      <4>2. q.op = "enable" => q.user \in Users
        BY <3>1, IdleIsRequest DEF Carries, Ops
      <4>3. q.op = "erase" => q.user \in Users
        BY <3>1, IdleIsRequest DEF Carries, Ops
      <4> QED
        BY <2>2, <3>1, <4>1, <4>2, <4>3 DEF Carries, RowsKeep, q
    <3> QED
      BY <3>2 DEF q
  <2> QED
    BY <2>1, <2>2 DEF Quiet
<1>2. ASSUME NEW w \in Workers, NEW v \in Workers,
             requests'[w].op = "register", requests'[v].op = "register",
             requests'[w].user = requests'[v].user
      PROVE  w = v
  <2>1. requests'[w] = requests[w] /\ requests'[v] = requests[v]
    BY <1>2, IdleIsRequest DEF Quiet, Ops
  <2> QED
    BY <1>2, <2>1 DEF IInv, RequestsCarry
<1> QED
  BY <1>1, <1>2 DEF RequestsCarry

LEMMA ErasureKept ==
    ASSUME IInv, Quiet, regime' = regime,
           "erase" \in regime.alone => \A v \in Workers :
               (requests'[v] # Idle /\ requests[v].op \in Ops) =>
               (Active(requests[v].user) => Active(requests[v].user)')
    PROVE  ErasureInv'
<1> SUFFICES ASSUME "erase" \in regime.alone, NEW w \in Workers,
                    requests'[w].op \in {"login", "refresh"}
             PROVE  users'[requests'[w].user].status = "active"
  BY DEF ErasureInv, Active
<1>1. requests'[w] = requests[w] /\ requests'[w] # Idle /\ requests[w].op \in Ops
  BY IdleIsRequest DEF Quiet, Ops
<1>2. Active(requests[w].user)
  BY <1>1 DEF IInv, ErasureInv
<1> QED
  BY <1>1, <1>2 DEF Active

LEMMA FactorKept ==
    ASSUME IInv, Quiet, regime' = regime,
           "setup" \in regime.alone => \A v \in Workers :
               (requests'[v] # Idle /\ requests[v].op = "enable") =>
               (Active(requests[v].user)' =>
                   /\ Active(requests[v].user)
                   /\ users'[requests[v].user].secret = users[requests[v].user].secret)
    PROVE  FactorInv'
<1> SUFFICES ASSUME "setup" \in regime.alone, NEW w \in Workers,
                    requests'[w].op = "enable",
                    users'[requests'[w].user].status = "active"
             PROVE  users'[requests'[w].user].secret = requests'[w].secret
  BY DEF FactorInv, Active
<1>1. requests'[w] = requests[w] /\ requests'[w] # Idle
  BY IdleIsRequest DEF Quiet, Ops
<1>2. /\ Active(requests[w].user)
      /\ users'[requests[w].user].secret = users[requests[w].user].secret
  BY <1>1 DEF Active
<1> QED
  BY <1>1, <1>2 DEF IInv, FactorInv

LEMMA ConfirmingFacts ==
    ASSUME NEW p \in Resets
    PROVE  /\ IsFiniteSet(Confirming(p)) /\ Cardinality(Confirming(p)) \in Nat
           /\ Cardinality(Confirming(p)) <= Cardinality(Workers)
           /\ Cardinality(Workers) \in Nat
           /\ Confirming(p) \subseteq Workers
  BY AuthAssumption, FS_Subset, FS_CardinalityType DEF Confirming

LEMMA ConfirmingShrinks ==
    ASSUME IInv, Quiet, NEW p \in Resets
    PROVE  /\ Confirming(p)' \subseteq Confirming(p)
           /\ Cardinality(Confirming(p)') <= Cardinality(Confirming(p))
           /\ Cardinality(Confirming(p)') \in Nat
<1>1. Confirming(p)' \subseteq Confirming(p)
  BY IdleIsRequest DEF Quiet, Confirming, Ops
<1> QED
  BY <1>1, ConfirmingFacts, FS_Subset, FS_CardinalityType

LEMMA ResetsKept ==
    ASSUME IInv, Quiet, resets' = resets, regime' = regime
    PROVE  ResetsInv'
<1> SUFFICES ASSUME NEW p \in Resets
             PROVE  /\ resets[p].status \in {"unused", "valid"} => resets[p].uses = 0
                    /\ resets[p].status # "unused" => resets[p].user \in Users
                    /\ resets[p].uses + Cardinality(Confirming(p)') <= Cardinality(Workers)
                    /\ "confirm" \in regime.alone =>
                          /\ resets[p].uses <= 1
                          /\ \A w \in Confirming(p)' : resets[p].uses = 0
  BY DEF ResetsInv
<1>1. resets[p].uses \in Nat
  BY AuthAssumption, FS_CardinalityType DEF IInv, TypeOK, PasswordReset
<1>2. resets[p].uses + Cardinality(Confirming(p)) <= Cardinality(Workers)
  BY DEF IInv, ResetsInv
<1>3. resets[p].uses + Cardinality(Confirming(p)') <= Cardinality(Workers)
  BY <1>1, <1>2, ConfirmingShrinks, ConfirmingFacts
<1> QED
  BY <1>3, ConfirmingShrinks DEF IInv, ResetsInv

-----------------------------------------------------------------------------
(* Steps that open no session.                                             *)

\* Sessions are revoked, expire or go.
RowsFade ==
    \A r \in Rows :
        /\ rows'[r].user = rows[r].user /\ rows'[r].password = rows[r].password
        /\ rows'[r].late = rows[r].late /\ rows'[r].login = rows[r].login
        /\ rows'[r].children = rows[r].children
        /\ rows'[r].status = "unused" <=> rows[r].status = "unused"
        /\ rows'[r].status = "active" => rows[r].status = "active"
        /\ rows'[r].status = "expired" => rows[r].status \in {"active", "expired"}
        /\ rows[r].status = "gone" => rows'[r].status = "gone"

\* Only sessions with no successor that is not revoked are ended.
EndedGrows ==
    \A l \in ended' \ ended :
        /\ rows[l].status # "unused" /\ l \in Rows
        /\ "refresh" \in regime.alone =>
              \A s \in Rows : Live(s)' => rows[s].login # l

LEMMA FadeStep ==
    ASSUME IInv, Quiet, RowsFade, EndedGrows, ended \subseteq ended', TypeOK',
           regime' = regime, EmailsAreUnique', ResetsInv', FactorInv',
           \A p \in Resets : resets[p].status # "unused" => resets'[p].status # "unused",
           \A u \in Users : users[u].status = "unused" <=> users'[u].status = "unused",
           \A v \in Workers : requests'[v].op = "register" =>
               users'[requests'[v].user].status = users[requests'[v].user].status,
           \A r \in Rows : rows'[r].status = "active" =>
               users'[rows[r].user].password = users[rows[r].user].password,
           "refresh" \in regime.alone => \A v \in Workers :
               requests'[v].op = "refresh" =>
                   (Live(requests[v].row) => Live(requests[v].row)'),
           "erase" \in regime.alone =>
               /\ \A v \in Workers : (requests'[v] # Idle /\ requests[v].op \in Ops) =>
                     (Active(requests[v].user) => Active(requests[v].user)')
               /\ \A r \in Rows : rows'[r].status \in {"active", "revoked", "expired"} =>
                     (Active(rows[r].user) => Active(rows[r].user)')
    PROVE  IInv'
<1>1. RequestsCarry'
  <2>1. RowsKeep
    BY DEF RowsFade, RowsKeep
  <2>2. ASSUME NEW u \in Users, users'[u].status # users[u].status, NEW v \in Workers,
               requests'[v].op = "register"
        PROVE  requests'[v].user # u
    BY <2>2
  <2> QED
    BY <2>1, <2>2, CarryKept
<1>2. RowsInv'
  <2>1. ASSUME NEW r \in Rows
        PROVE  IF rows'[r].status = "unused"
               THEN rows'[r].user = None /\ rows'[r].login = None /\ rows'[r].children = {}
               ELSE /\ rows'[r].user \in Users /\ rows'[r].login \in Rows
                    /\ rows'[rows'[r].login].status # "unused"
    BY DEF IInv, RowsInv, RowsFade
  <2>2. ended' \subseteq Rows /\ \A l \in ended' : rows[l].status # "unused"
    BY DEF IInv, RowsInv, EndedGrows, TypeOK
  <2>3. \A l \in ended' : rows'[l].status # "unused"
    BY <2>2 DEF RowsFade
  <2> QED
    BY <2>1, <2>3 DEF RowsInv
<1>3. RowsHaveAccounts'
  <2> SUFFICES ASSUME "erase" \in regime.alone, NEW r \in Rows,
                      rows'[r].status \in {"active", "revoked", "expired"}
               PROVE  users'[rows'[r].user].status = "active"
    BY DEF RowsHaveAccounts, Active
  <2>1. rows[r].status \in {"active", "revoked", "expired"} /\ rows'[r].user = rows[r].user
    BY DEF RowsFade, IInv, TypeOK, RefreshToken
  <2>2. Active(rows[r].user)
    BY <2>1 DEF IInv, RowsHaveAccounts
  <2> QED
    BY <2>1, <2>2 DEF Active
<1>4. SessionsFollowPassword'
  BY DEF IInv, SessionsFollowPassword, RowsFade
<1>5. RefreshInv'
  <2> SUFFICES ASSUME "refresh" \in regime.alone PROVE RefreshInv'
    BY DEF RefreshInv
  <2>0. \A r \in Rows : Live(r)' => Live(r)
    BY DEF RowsFade, Live
  <2>1. \A r \in Rows : Live(r)' => rows'[r].login \notin ended' /\ rows'[r].children = {}
    BY <2>0 DEF IInv, RefreshInv, RowsFade, EndedGrows
  <2>2. \A r, s \in Rows :
            Live(r)' /\ Live(s)' /\ rows'[r].login = rows'[s].login => r = s
    BY <2>0 DEF IInv, RefreshInv, RowsFade
  <2>3. \A r \in Rows : Cardinality(rows'[r].children) <= 1
    BY DEF IInv, RefreshInv, RowsFade
  <2>4. ASSUME NEW w \in Workers, requests'[w].op = "refresh"
        PROVE  Live(requests[w].row)'
    <3>1. requests'[w] = requests[w] /\ requests[w].row \in Rows /\ Live(requests[w].row)
      BY <2>4, IdleIsRequest, RequestFacts DEF Quiet, Ops, IInv, RefreshInv, Carries
    <3> QED
      BY <2>4, <3>1
  <2>5. ASSUME NEW w \in Workers, requests'[w].op = "logout",
               NEW r \in requests'[w].rows, NEW s \in Rows,
               Live(s)', rows'[s].login = rows'[r].login
        PROVE  s = r
    <3>1. requests'[w] = requests[w] /\ r \in Rows
      BY <2>5, IdleIsRequest, RequestFacts DEF Quiet, Ops, Request
    <3> QED
      BY <2>0, <2>5, <3>1 DEF IInv, RefreshInv, RowsFade
  <2> QED
    BY <2>1, <2>2, <2>3, <2>4, <2>5 DEF RefreshInv
<1>6. ErasureInv' /\ AloneIsAlone'
  BY ErasureKept, AloneKept
<1> QED
  BY <1>1, <1>2, <1>3, <1>4, <1>5, <1>6 DEF IInv

-----------------------------------------------------------------------------
(* The beginning of a request.                                             *)

LEMMA StartStep ==
    ASSUME IInv, NEW w \in Workers, NEW q \in Request, Begin(w, q), Carries(q),
           q.op \in Ops,
           q.op = "register" =>
               \A v \in Workers : requests[v].op = "register" => requests[v].user # q.user,
           q.op \in {"login", "refresh"} /\ "erase" \in regime.alone => Active(q.user),
           q.op = "refresh" => Live(q.row),
           q.op = "logout" => \A r \in q.rows : r \in Rows /\ Live(r),
           q.op = "confirm" => resets[q.reset].status = "valid",
           q.op = "enable" => users[q.user].secret = q.secret
    PROVE  IInv'
<1>1. /\ requests[w] = Idle /\ UNCHANGED <<users, rows, resets, access, ended, regime>>
      /\ requests' = [requests EXCEPT ![w] = q]
      /\ \A v \in Workers : requests[v].op \notin regime.alone
      /\ q.op \in regime.alone => \A v \in Workers : requests[v] = Idle
  BY DEF Begin
<1>2. /\ requests' \in [Workers -> Request] /\ requests'[w] = q
      /\ \A v \in Workers \ {w} : requests'[v] = requests[v]
  BY <1>1 DEF IInv, TypeOK
<1>3. TypeOK'
  BY <1>1, <1>2 DEF IInv, TypeOK
<1>4. RowsInv' /\ EmailsAreUnique' /\ RowsHaveAccounts' /\ SessionsFollowPassword'
  BY <1>1 DEF IInv, RowsInv, EmailsAreUnique, RowsHaveAccounts, SessionsFollowPassword,
     Active
<1>5. RequestsCarry'
  <2>1. ASSUME NEW v \in Workers PROVE Carries(requests[v])'
    <3>1. Carries(requests'[v])
      BY <1>2, RequestFacts
    <3> QED
      BY <1>1, <3>1 DEF Carries
  <2>2. ASSUME NEW v \in Workers, requests[v].op = "register", q.op = "register"
        PROVE  requests[v].user # q.user
    BY <2>2
  <2>3. requests[w].op # "register"
    BY <1>1, IdleIsRequest DEF Ops
  <2>4. ASSUME NEW x \in Workers, NEW v \in Workers,
               requests'[x].op = "register", requests'[v].op = "register",
               requests'[x].user = requests'[v].user
        PROVE  x = v
    BY <1>2, <2>2, <2>3, <2>4 DEF IInv, RequestsCarry
  <2> QED
    BY <2>1, <2>4 DEF RequestsCarry
<1>6. AloneIsAlone'
  BY <1>1, <1>2 DEF AloneIsAlone
<1>7. ErasureInv'
  BY <1>1, <1>2 DEF IInv, ErasureInv, Active
<1>8. FactorInv'
  BY <1>1, <1>2 DEF IInv, FactorInv, Active
<1>9. RefreshInv'
  <2> SUFFICES ASSUME "refresh" \in regime.alone
               PROVE  /\ \A x \in Workers : requests'[x].op = "refresh" =>
                             Live(requests[x].row)'
                      /\ \A x \in Workers : requests'[x].op = "logout" =>
                             \A r \in requests'[x].rows, s \in Rows :
                                 Live(s) /\ rows[s].login = rows[r].login => s = r
    BY <1>1 DEF IInv, RefreshInv, Live
  <2>1. ASSUME NEW x \in Workers, requests'[x].op = "refresh"
        PROVE  Live(requests[x].row)'
    <3>1. x = w
      BY <1>1, <1>2, <2>1
    <3> QED
      BY <1>1, <1>2, <2>1, <3>1 DEF Live
  <2>2. ASSUME NEW x \in Workers, requests'[x].op = "logout",
               NEW r \in requests'[x].rows, NEW s \in Rows,
               Live(s), rows[s].login = rows[r].login
        PROVE  s = r
    BY <1>2, <2>2 DEF IInv, RefreshInv
  <2> QED
    BY <2>1, <2>2
<1>10. ResetsInv'
  <2> SUFFICES ASSUME NEW p \in Resets
               PROVE  /\ resets[p].uses + Cardinality(Confirming(p)') <= Cardinality(Workers)
                      /\ "confirm" \in regime.alone =>
                            \A x \in Confirming(p)' : resets[p].uses = 0
    BY <1>1 DEF IInv, ResetsInv
  <2>1. /\ Confirming(p)' \subseteq Workers /\ Cardinality(Workers) \in Nat
        /\ Cardinality(Confirming(p)') \in Nat
        /\ Cardinality(Confirming(p)') <= Cardinality(Workers)
    BY FS_Subset, FS_CardinalityType, AuthAssumption DEF Confirming
  <2>2. CASE q.op = "confirm" /\ q.reset = p
    <3>1. resets[p].uses = 0
      BY <2>2 DEF IInv, ResetsInv
    <3> QED
      BY <2>1, <3>1
  <2>3. CASE ~(q.op = "confirm" /\ q.reset = p)
    <3>1. Confirming(p)' = Confirming(p)
      BY <1>1, <1>2, <2>3, IdleIsRequest DEF Confirming, Ops
    <3> QED
      BY <3>1 DEF IInv, ResetsInv
  <2> QED
    BY <2>2, <2>3
<1> QED
  BY <1>3, <1>4, <1>5, <1>6, <1>7, <1>8, <1>9, <1>10 DEF IInv

LEMMA RegisterStartStep ==
    ASSUME IInv, NEW w \in Workers, NEW u \in Users, RegisterStart(w, u)
    PROVE  IInv'
<1> DEFINE q == [Idle EXCEPT !.op = "register", !.user = u]
<1>1. /\ q \in Request /\ q.op = "register" /\ q.user = u
  BY IdleIsRequest DEF Idle, Request, Ops
<1>2. Begin(w, q) /\ users[u].status = "unused"
      /\ \A v \in Workers : requests[v].op = "register" => requests[v].user # u
  BY DEF RegisterStart
<1> HIDE DEF q
<1>3. Carries(q)
  BY <1>1, <1>2 DEF Carries
<1> QED
  BY <1>1, <1>2, <1>3, StartStep DEF Ops

LEMMA LoginStartStep ==
    ASSUME IInv, NEW w \in Workers, NEW u \in Users, LoginStart(w, u)
    PROVE  IInv'
<1> DEFINE q == [Idle EXCEPT !.op = "login", !.user = u, !.password = users[u].password]
<1>1. users[u].password \in 0 .. MaxPasswords
  BY DEF IInv, TypeOK, User
<1>2. /\ q \in Request /\ q.op = "login" /\ q.user = u
  BY <1>1, IdleIsRequest DEF Idle, Request, Ops
<1>3. Begin(w, q) /\ Active(u)
  BY DEF LoginStart
<1> HIDE DEF q
<1>4. Carries(q)
  BY <1>2 DEF Carries
<1> QED
  BY <1>2, <1>3, <1>4, StartStep DEF Ops

LEMMA RefreshStartStep ==
    ASSUME IInv, NEW w \in Workers, NEW r \in Rows, RefreshStart(w, r)
    PROVE  IInv'
<1> DEFINE u == rows[r].user
           q == [Idle EXCEPT !.op = "refresh", !.row = r, !.user = u,
                             !.password = users[u].password]
<1>1. Begin(w, q) /\ rows[r].status = "active"
  BY DEF RefreshStart, Accepted
<1>2. u \in Users
  BY <1>1 DEF IInv, RowsInv
<1>3. users[u].password \in 0 .. MaxPasswords
  BY <1>2 DEF IInv, TypeOK, User
<1>4. rows[r].late \/ rows[r].password = users[u].password
  BY <1>1 DEF IInv, SessionsFollowPassword
<1>5. "erase" \in regime.alone => Active(u)
  BY <1>1 DEF IInv, RowsHaveAccounts
<1>6. /\ q \in Request /\ q.op = "refresh" /\ q.user = u /\ q.row = r
      /\ q.password = users[u].password
  BY <1>2, <1>3, IdleIsRequest DEF Idle, Request, Ops
<1> HIDE DEF q
<1>7. Carries(q)
  BY <1>1, <1>2, <1>4, <1>6 DEF Carries
<1> QED
  BY <1>1, <1>5, <1>6, <1>7, StartStep DEF Ops, Live

LEMMA LogoutStartStep ==
    ASSUME IInv, NEW w \in Workers, NEW u \in Users, LogoutStart(w, u)
    PROVE  IInv'
<1> DEFINE chosen == NotRevoked(u)
           q == [Idle EXCEPT !.op = "logout", !.user = u, !.rows = chosen]
<1>1. \A r \in chosen : r \in Rows /\ Live(r)
  BY DEF NotRevoked, RowsOf, Live
<1>2. Begin(w, q)
  BY DEF LogoutStart
<1> HIDE DEF chosen
<1>3. /\ q \in Request /\ q.op = "logout" /\ q.user = u /\ q.rows = chosen
  BY <1>1, IdleIsRequest DEF Idle, Request, Ops
<1> HIDE DEF q
<1>4. Carries(q)
  BY <1>1, <1>3 DEF Carries, Live
<1> QED
  BY <1>1, <1>2, <1>3, <1>4, StartStep DEF Ops

LEMMA ConfirmResetStartStep ==
    ASSUME IInv, NEW w \in Workers, NEW p \in Resets, ConfirmResetStart(w, p)
    PROVE  IInv'
<1> DEFINE u == resets[p].user
           q == [Idle EXCEPT !.op = "confirm", !.user = u, !.reset = p]
<1>1. Begin(w, q) /\ resets[p].status = "valid"
  BY DEF ConfirmResetStart
<1>2. u \in Users
  BY <1>1 DEF IInv, ResetsInv
<1>3. /\ q \in Request /\ q.op = "confirm" /\ q.user = u /\ q.reset = p
  BY <1>2, IdleIsRequest DEF Idle, Request, Ops
<1> HIDE DEF q
<1>4. Carries(q)
  BY <1>1, <1>2, <1>3 DEF Carries
<1> QED
  BY <1>1, <1>3, <1>4, StartStep DEF Ops

LEMMA EnableStartStep ==
    ASSUME IInv, NEW w \in Workers, NEW u \in Users, EnableStart(w, u)
    PROVE  IInv'
<1>1. PICK shown \in 1 .. MaxSecrets :
         /\ Matches(shown, users[u].secret)
         /\ Begin(w, [Idle EXCEPT !.op = "enable", !.user = u, !.secret = shown])
  BY DEF EnableStart
<1> DEFINE q == [Idle EXCEPT !.op = "enable", !.user = u, !.secret = shown]
<1>0. shown \in 0 .. MaxSecrets
  BY <1>1, AuthAssumption
<1>2. /\ q \in Request /\ q.op = "enable" /\ q.user = u /\ q.secret = shown
  BY <1>0, IdleIsRequest DEF Idle, Request, Ops
<1>3. Begin(w, q) /\ users[u].secret = shown /\ users[u].status = "active"
  BY <1>1 DEF Matches, EnableStart, CurrentUser, Active
<1> HIDE DEF q
<1>4. Carries(q)
  BY <1>2, <1>3 DEF Carries
<1> QED
  BY <1>2, <1>3, <1>4, StartStep DEF Ops

\* The other requests read nothing that their writes rely on.
LEMMA PlainStartStep ==
    ASSUME IInv, NEW w \in Workers, NEW u \in Users,
           \/ ChangePasswordStart(w, u) \/ RequestResetStart(w, u)
           \/ SetupStart(w, u) \/ EraseUserStart(w, u)
    PROVE  IInv'
<1>1. PICK q \in Request : /\ q.op \in {"change", "request", "setup", "erase"}
                           /\ q.user = u /\ Begin(w, q)
                           /\ q.op = "erase" => users[u].status # "unused"
  <2>1. CASE ChangePasswordStart(w, u)
    <3> DEFINE q == [Idle EXCEPT !.op = "change", !.user = u, !.password = users[u].password]
    <3>1. users[u].password \in 0 .. MaxPasswords
      BY DEF IInv, TypeOK, User
    <3>2. q \in Request /\ q.op = "change" /\ q.user = u
      BY <3>1, IdleIsRequest DEF Idle, Request, Ops
    <3>3. Begin(w, q)
      BY <2>1 DEF ChangePasswordStart
    <3> HIDE DEF q
    <3> QED
      BY <3>2, <3>3
  <2>2. CASE RequestResetStart(w, u)
    <3> DEFINE q == [Idle EXCEPT !.op = "request", !.user = u]
    <3>2. q \in Request /\ q.op = "request" /\ q.user = u
      BY IdleIsRequest DEF Idle, Request, Ops
    <3>3. Begin(w, q)
      BY <2>2 DEF RequestResetStart
    <3> HIDE DEF q
    <3> QED
      BY <3>2, <3>3
  <2>3. CASE SetupStart(w, u)
    <3> DEFINE q == [Idle EXCEPT !.op = "setup", !.user = u]
    <3>2. q \in Request /\ q.op = "setup" /\ q.user = u
      BY IdleIsRequest DEF Idle, Request, Ops
    <3>3. Begin(w, q)
      BY <2>3 DEF SetupStart
    <3> HIDE DEF q
    <3> QED
      BY <3>2, <3>3
  <2>4. CASE EraseUserStart(w, u)
    <3> DEFINE q == [Idle EXCEPT !.op = "erase", !.user = u]
    <3>2. q \in Request /\ q.op = "erase" /\ q.user = u
      BY IdleIsRequest DEF Idle, Request, Ops
    <3>3. Begin(w, q) /\ users[u].status # "unused"
      BY <2>4 DEF EraseUserStart, CurrentUser, Active
    <3> HIDE DEF q
    <3> QED
      BY <3>2, <3>3
  <2> QED
    BY <2>1, <2>2, <2>3, <2>4
<1>2. Carries(q)
  BY <1>1 DEF Carries
<1> QED
  BY <1>1, <1>2, StartStep DEF Ops

-----------------------------------------------------------------------------
(* Writes that open no session.                                            *)

LEMMA NothingFades == rows' = rows => RowsFade
  BY DEF RowsFade

\* A step of w when somebody else is refreshing, alone: there is none.
LEMMA NoneRefreshes ==
    ASSUME IInv, NEW w \in Workers, requests[w] # Idle, End(w),
           "refresh" \in regime.alone, NEW v \in Workers, requests'[v].op = "refresh"
    PROVE  FALSE
<1>1. v # w /\ requests[v].op = "refresh"
  BY EndFacts, IdleIsRequest DEF Ops
<1> QED
  BY <1>1 DEF IInv, AloneIsAlone

\* Nothing but requests, valid access tokens and resets change.
LEMMA AsideStep ==
    ASSUME IInv, Quiet, UNCHANGED <<users, rows, ended, regime>>, TypeOK', ResetsInv',
           \A p \in Resets : resets[p].status # "unused" => resets'[p].status # "unused"
    PROVE  IInv'
<1>1. RowsFade /\ EndedGrows /\ EmailsAreUnique' /\ FactorInv'
  <2>1. EmailsAreUnique'
    BY DEF IInv, EmailsAreUnique, Active
  <2>2. FactorInv'
    <3>1. ASSUME NEW v \in Workers, requests'[v] # Idle, requests'[v].user \in Users,
                 Active(requests[v].user)'
          PROVE  Active(requests[v].user)
      BY <3>1 DEF Quiet, Active
    <3>2. ASSUME NEW v \in Workers, requests'[v] # Idle, Active(requests[v].user)'
          PROVE  Active(requests[v].user)
      BY <3>2 DEF Quiet, Active
    <3> QED
      BY <3>2, FactorKept
  <2> QED
    BY <2>1, <2>2, NothingFades DEF EndedGrows
<1>2. ASSUME NEW v \in Workers
      PROVE  /\ requests'[v] # Idle =>
                   (Active(requests[v].user) => Active(requests[v].user)')
             /\ requests'[v].op = "refresh" =>
                   (Live(requests[v].row) => Live(requests[v].row)')
  BY IdleIsRequest DEF Quiet, Active, Live, Ops
<1>3. \A r \in Rows : Active(rows[r].user) => Active(rows[r].user)'
  BY DEF Active
<1>4. \A r \in Rows : rows'[r].status = "active" =>
               users'[rows[r].user].password = users[rows[r].user].password
  OBVIOUS
<1> QED
  BY <1>1, <1>2, <1>3, <1>4, FadeStep

LEMMA AbortStep ==
    ASSUME IInv, NEW w \in Workers, Abort(w)
    PROVE  IInv'
<1>1. Quiet /\ UNCHANGED <<users, rows, resets, access, ended, regime>> /\ TypeOK'
  BY EndFacts DEF Abort, IInv, TypeOK
<1> QED
  BY <1>1, AsideStep, ResetsKept

LEMMA ExpireAccessStep ==
    ASSUME IInv, NEW u \in Users, ExpireAccess(u)
    PROVE  IInv'
<1>1. Quiet /\ UNCHANGED <<users, rows, resets, ended, regime>> /\ TypeOK'
  BY DEF ExpireAccess, IInv, TypeOK, Quiet
<1> QED
  BY <1>1, AsideStep, ResetsKept

LEMMA RequestResetStep ==
    ASSUME IInv, NEW w \in Workers, RequestReset(w)
    PROVE  IInv'
<1> DEFINE u == requests[w].user
<1>1. /\ Quiet /\ UNCHANGED <<users, rows, access, ended, regime>>
      /\ requests' \in [Workers -> Request] /\ u \in Users
  BY EndFacts, RequestFacts DEF RequestReset, Ops
<1>2. PICK p \in Resets :
         /\ resets[p].status = "unused"
         /\ resets' = [resets EXCEPT ![p] = [@ EXCEPT !.status = "valid", !.user = u]]
  BY DEF RequestReset
<1> HIDE DEF u
<1>3. /\ resets' \in [Resets -> PasswordReset]
      /\ resets'[p].status = "valid" /\ resets'[p].user = u
      /\ resets'[p].uses = resets[p].uses
      /\ \A s \in Resets \ {p} : resets'[s] = resets[s]
  BY <1>1, <1>2 DEF IInv, TypeOK, PasswordReset
<1>4. TypeOK'
  BY <1>1, <1>3 DEF IInv, TypeOK
<1>5. ResetsInv'
  <2> SUFFICES ASSUME NEW s \in Resets
               PROVE  /\ resets'[s].status \in {"unused", "valid"} => resets'[s].uses = 0
                      /\ resets'[s].status # "unused" => resets'[s].user \in Users
                      /\ resets'[s].uses + Cardinality(Confirming(s)') <= Cardinality(Workers)
                      /\ "confirm" \in regime.alone =>
                            /\ resets'[s].uses <= 1
                            /\ \A v \in Confirming(s)' : resets'[s].uses = 0
    BY <1>1 DEF ResetsInv
  <2>1. resets'[s].uses = resets[s].uses /\ resets[s].uses \in Nat
    BY <1>3, AuthAssumption, FS_CardinalityType DEF IInv, TypeOK, PasswordReset
  <2>2. resets[s].uses + Cardinality(Confirming(s)') <= Cardinality(Workers)
    <3>1. resets[s].uses + Cardinality(Confirming(s)) <= Cardinality(Workers)
      BY DEF IInv, ResetsInv
    <3> QED
      BY <1>1, <2>1, <3>1, ConfirmingShrinks, ConfirmingFacts
  <2>3. /\ resets'[s].status \in {"unused", "valid"} => resets'[s].uses = 0
        /\ resets'[s].status # "unused" => resets'[s].user \in Users
    BY <1>1, <1>2, <1>3, <2>1 DEF IInv, ResetsInv
  <2> QED
    BY <1>1, <2>1, <2>2, <2>3, ConfirmingShrinks DEF IInv, ResetsInv
<1>6. \A s \in Resets : resets[s].status # "unused" => resets'[s].status # "unused"
  BY <1>3
<1> QED
  BY <1>1, <1>4, <1>5, <1>6, AsideStep

LEMMA ExpireResetStep ==
    ASSUME IInv, NEW p \in Resets, ExpireReset(p)
    PROVE  IInv'
<1>1. /\ Quiet /\ UNCHANGED <<users, rows, access, requests, ended, regime>>
      /\ resets[p].status = "valid"
      /\ resets' = [resets EXCEPT ![p].status = "expired"]
  BY DEF ExpireReset, Quiet
<1>2. /\ resets' \in [Resets -> PasswordReset]
      /\ resets'[p].status = "expired" /\ resets'[p].user = resets[p].user
      /\ resets'[p].uses = resets[p].uses
      /\ \A s \in Resets \ {p} : resets'[s] = resets[s]
  BY <1>1 DEF IInv, TypeOK, PasswordReset
<1>3. TypeOK'
  BY <1>1, <1>2 DEF IInv, TypeOK
<1>4. \A s \in Resets : Confirming(s)' = Confirming(s)
  BY <1>1 DEF Confirming
<1>5. ResetsInv'
  BY <1>1, <1>2, <1>4 DEF IInv, ResetsInv
<1>6. \A s \in Resets : resets[s].status # "unused" => resets'[s].status # "unused"
  BY <1>2
<1> QED
  BY <1>1, <1>3, <1>5, <1>6, AsideStep

LEMMA RevokedFades ==
    ASSUME IInv, NEW chosen \in SUBSET Rows, rows' = Revoked(rows, chosen),
           \A r \in chosen : rows[r].status \notin {"unused", "gone"}
    PROVE  /\ RowsFade /\ rows' \in [Rows -> RefreshToken]
           /\ \A r \in chosen : rows'[r].status = "revoked"
           /\ \A r \in Rows \ chosen : rows'[r] = rows[r]
<1>1. /\ rows \in [Rows -> RefreshToken]
      /\ rows' = [r \in Rows |-> IF r \in chosen
                                 THEN [rows[r] EXCEPT !.status = "revoked"]
                                 ELSE rows[r]]
  BY DEF IInv, TypeOK, Revoked
<1>2. ASSUME NEW r \in chosen
      PROVE  /\ rows'[r] \in RefreshToken /\ rows'[r].status = "revoked"
             /\ rows'[r].user = rows[r].user /\ rows'[r].password = rows[r].password
             /\ rows'[r].late = rows[r].late /\ rows'[r].login = rows[r].login
             /\ rows'[r].children = rows[r].children
  BY <1>1, SMTT(30) DEF RefreshToken
<1>3. \A r \in Rows \ chosen : rows'[r] = rows[r]
  BY <1>1
<1>4. rows' \in [Rows -> RefreshToken]
  BY <1>1, <1>2, <1>3
<1>5. RowsFade
  BY <1>2, <1>3 DEF RowsFade
<1> QED
  BY <1>2, <1>3, <1>4, <1>5

LEMMA LogoutStep ==
    ASSUME IInv, NEW w \in Workers, Logout(w)
    PROVE  IInv'
<1> DEFINE q == requests[w]
<1>1. /\ q.op = "logout" /\ \A r \in q.rows : rows[r].status # "gone"
      /\ rows' = Revoked(rows, q.rows) /\ ended' = ended \cup LoginsOf(q.rows)
      /\ End(w) /\ UNCHANGED <<users, resets, access, regime>>
  BY DEF Logout
<1>2. /\ q.rows \in SUBSET Rows /\ \A r \in q.rows : rows[r].status # "unused"
      /\ q # Idle
  BY <1>1, RequestFacts DEF Carries, Request, Ops
<1>3. /\ RowsFade /\ rows' \in [Rows -> RefreshToken]
      /\ \A r \in q.rows : rows'[r].status = "revoked"
  BY <1>1, <1>2, RevokedFades
<1>4. /\ Quiet /\ requests' \in [Workers -> Request] /\ ResetsInv'
  BY <1>1, EndFacts, ResetsKept
<1>5. EndedGrows /\ ended' \subseteq Rows
  <2>1. ASSUME NEW l \in LoginsOf(q.rows)
        PROVE  /\ rows[l].status # "unused" /\ l \in Rows
               /\ "refresh" \in regime.alone =>
                     \A s \in Rows : Live(s)' => rows[s].login # l
    <3>1. PICK r \in q.rows : l = rows[r].login
      BY DEF LoginsOf
    <3>2. l \in Rows /\ rows[l].status # "unused"
      BY <1>2, <3>1 DEF IInv, RowsInv
    <3>3. ASSUME "refresh" \in regime.alone, NEW s \in Rows, Live(s)',
                 rows[s].login = l
          PROVE  FALSE
      <4>1. Live(s)
        BY <1>3, <3>3 DEF RowsFade, Live
      <4>2. s = r
        BY <1>1, <3>1, <3>3, <4>1 DEF IInv, RefreshInv
      <4> QED
        BY <1>3, <3>1, <3>3, <4>2 DEF Live
    <3> QED
      BY <3>2, <3>3
  <2> QED
    BY <1>1, <2>1 DEF EndedGrows, IInv, TypeOK
<1>6. TypeOK'
  BY <1>1, <1>3, <1>4, <1>5 DEF IInv, TypeOK
<1>7. EmailsAreUnique' /\ FactorInv'
  <2>1. EmailsAreUnique'
    BY <1>1 DEF IInv, EmailsAreUnique, Active
  <2>2. ASSUME NEW v \in Workers, requests'[v] # Idle, Active(requests[v].user)'
        PROVE  Active(requests[v].user)
    BY <1>1, <1>4, <2>2 DEF Quiet, Active
  <2> QED
    BY <1>1, <1>4, <2>1, <2>2, FactorKept
<1>8. ASSUME NEW v \in Workers
      PROVE  /\ requests'[v] # Idle =>
                   (Active(requests[v].user) => Active(requests[v].user)')
             /\ ("refresh" \in regime.alone /\ requests'[v].op = "refresh") =>
                   (Live(requests[v].row) => Live(requests[v].row)')
  BY <1>1, <1>2, <1>4, NoneRefreshes DEF Quiet, Active
<1>9. \A r \in Rows : Active(rows[r].user) => Active(rows[r].user)'
  BY <1>1, <1>3 DEF Active, RowsFade
<1> QED
  BY <1>1, <1>3, <1>4, <1>5, <1>6, <1>7, <1>8, <1>9, FadeStep

LEMMA ExpireRowStep ==
    ASSUME IInv, NEW r \in Rows, ExpireRow(r)
    PROVE  IInv'
<1>1. /\ rows[r].status = "active" /\ rows' = [rows EXCEPT ![r].status = "expired"]
      /\ UNCHANGED <<users, resets, access, requests, ended, regime>> /\ Quiet
  BY DEF ExpireRow, Quiet
<1>2. /\ rows' \in [Rows -> RefreshToken] /\ \A s \in Rows \ {r} : rows'[s] = rows[s]
      /\ rows'[r].status = "expired"
      /\ rows'[r].user = rows[r].user /\ rows'[r].password = rows[r].password
      /\ rows'[r].late = rows[r].late /\ rows'[r].login = rows[r].login
      /\ rows'[r].children = rows[r].children
  BY <1>1 DEF IInv, TypeOK, RefreshToken
<1>3. RowsFade /\ EndedGrows /\ ResetsInv'
  BY <1>1, <1>2, ResetsKept DEF RowsFade, EndedGrows
<1>4. TypeOK' /\ EmailsAreUnique' /\ FactorInv'
  <2>1. TypeOK' /\ EmailsAreUnique'
    BY <1>1, <1>2 DEF IInv, TypeOK, EmailsAreUnique, Active
  <2>2. FactorInv'
    BY <1>1 DEF IInv, FactorInv, Active
  <2> QED
    BY <2>1, <2>2
<1>5. ASSUME NEW v \in Workers
      PROVE  /\ Active(requests[v].user) => Active(requests[v].user)'
             /\ requests'[v].op = "refresh" =>
                   (Live(requests[v].row) => Live(requests[v].row)')
  <2>1. requests[v].op = "refresh" => requests[v].row \in Rows
    BY RequestFacts DEF Carries
  <2> QED
    BY <1>1, <1>2, <2>1 DEF Active, Live
<1>6. \A s \in Rows : Active(rows[s].user) => Active(rows[s].user)'
  BY <1>1, <1>2 DEF Active
<1> QED
  BY <1>1, <1>3, <1>4, <1>5, <1>6, FadeStep

-----------------------------------------------------------------------------
(* New passwords, two-factor authentication and erasure.                   *)

\* A request that had to be alone leaves nobody behind.
LEMMA NobodyElse ==
    ASSUME IInv, NEW w \in Workers, End(w), requests[w].op \in regime.alone
    PROVE  \A v \in Workers : requests'[v] = Idle
  BY EndFacts DEF IInv, AloneIsAlone

LEMMA SetPasswordStep ==
    ASSUME IInv, NEW w \in Workers, NEW u \in Users, requests[w] # Idle, End(w),
           users[u].password < MaxPasswords, SetPassword(u),
           UNCHANGED <<access, regime>>,
           resets' \in [Resets -> PasswordReset], ResetsInv',
           \A p \in Resets : resets[p].status # "unused" => resets'[p].status # "unused"
    PROVE  IInv'
<1> DEFINE chosen == NotRevoked(u)
<1>1. /\ users' = [users EXCEPT ![u].password = @ + 1]
      /\ rows' = Revoked(rows, chosen) /\ ended' = ended \cup LoginsOf(chosen)
  BY DEF SetPassword
<1>2. /\ chosen \in SUBSET Rows /\ \A r \in chosen : Live(r)
      /\ \A r \in chosen : rows[r].status \notin {"unused", "gone"}
      /\ \A r \in Rows \ chosen : rows[r].status = "active" => rows[r].user # u
  BY DEF NotRevoked, RowsOf, Live
<1> HIDE DEF chosen
<1>3. /\ RowsFade /\ rows' \in [Rows -> RefreshToken]
      /\ \A r \in chosen : rows'[r].status = "revoked"
      /\ \A r \in Rows \ chosen : rows'[r] = rows[r]
  BY <1>1, <1>2, RevokedFades
<1>4. Quiet /\ requests' \in [Workers -> Request]
  BY EndFacts
<1>5. users[u].password + 1 \in 0 .. MaxPasswords
  BY AuthAssumption DEF IInv, TypeOK, User
<1>6. /\ users' \in [Users -> User] /\ users'[u].password = users[u].password + 1
      /\ users'[u].status = users[u].status /\ users'[u].secret = users[u].secret
      /\ \A x \in Users \ {u} : users'[x] = users[x]
  BY <1>1, <1>5 DEF IInv, TypeOK, User
<1>7. EndedGrows /\ ended' \subseteq Rows
  <2>1. ASSUME NEW l \in LoginsOf(chosen)
        PROVE  /\ rows[l].status # "unused" /\ l \in Rows
               /\ "refresh" \in regime.alone =>
                     \A s \in Rows : Live(s)' => rows[s].login # l
    <3>1. PICK r \in chosen : l = rows[r].login
      BY DEF LoginsOf
    <3>2. l \in Rows /\ rows[l].status # "unused"
      BY <1>2, <3>1 DEF IInv, RowsInv
    <3>3. ASSUME "refresh" \in regime.alone, NEW s \in Rows, Live(s)',
                 rows[s].login = l
          PROVE  FALSE
      <4>1. Live(s)
        BY <1>3, <3>3 DEF RowsFade, Live
      <4>2. s = r
        BY <1>2, <3>1, <3>3, <4>1 DEF IInv, RefreshInv
      <4> QED
        BY <1>3, <3>1, <3>3, <4>2 DEF Live
    <3> QED
      BY <3>2, <3>3
  <2> QED
    BY <1>1, <2>1 DEF EndedGrows, IInv, TypeOK
<1>8. TypeOK'
  BY <1>3, <1>4, <1>6, <1>7 DEF IInv, TypeOK
<1>9. \A x \in Users : users'[x].status = users[x].status
                       /\ users'[x].secret = users[x].secret
  BY <1>6
<1>10. EmailsAreUnique' /\ FactorInv'
  <2>1. EmailsAreUnique'
    BY <1>9 DEF IInv, EmailsAreUnique, Active
  <2>2. ASSUME NEW v \in Workers, requests'[v] # Idle, requests[v].op = "enable",
               Active(requests[v].user)'
        PROVE  /\ Active(requests[v].user)
               /\ users'[requests[v].user].secret = users[requests[v].user].secret
    <3>1. requests'[v] = requests[v] /\ requests[v].user \in Users
      BY <1>4, <2>2, RequestFacts DEF Quiet, Ops
    <3> QED
      BY <1>9, <2>2, <3>1 DEF Active
  <2> QED
    BY <1>4, <2>1, <2>2, FactorKept
<1>11. ASSUME NEW v \in Workers
       PROVE  /\ (requests'[v] # Idle /\ requests[v].op \in Ops) =>
                    (Active(requests[v].user) => Active(requests[v].user)')
              /\ requests'[v].op = "register" =>
                    users'[requests'[v].user].status = users[requests'[v].user].status
              /\ ("refresh" \in regime.alone /\ requests'[v].op = "refresh") =>
                    (Live(requests[v].row) => Live(requests[v].row)')
  <2>1. requests'[v] # Idle => requests'[v] = requests[v]
    BY <1>4 DEF Quiet
  <2>2. requests[v].op \in Ops => requests[v].user \in Users
    BY RequestFacts
  <2>3. requests'[v].op = "register" => requests'[v] # Idle /\ requests'[v].op \in Ops
    BY IdleIsRequest DEF Ops
  <2> QED
    BY <1>9, <2>1, <2>2, <2>3, NoneRefreshes DEF Active
<1>12. ASSUME NEW r \in Rows
       PROVE  /\ rows'[r].status = "active" =>
                    users'[rows[r].user].password = users[rows[r].user].password
              /\ rows'[r].status \in {"active", "revoked", "expired"} =>
                    (Active(rows[r].user) => Active(rows[r].user)')
  <2>1. rows'[r].status # "unused" => rows[r].user \in Users
    BY <1>3 DEF RowsFade, IInv, RowsInv
  <2>2. rows'[r].status = "active" => rows[r].user # u
    BY <1>2, <1>3
  <2> QED
    BY <1>3, <1>6, <1>9, <2>1, <2>2 DEF Active, RowsFade
<1> QED
  BY <1>1, <1>3, <1>4, <1>7, <1>8, <1>9, <1>10, <1>11, <1>12, FadeStep

LEMMA ChangePasswordStep ==
    ASSUME IInv, NEW w \in Workers, ChangePassword(w)
    PROVE  IInv'
<1>1. /\ requests[w].user \in Users /\ requests[w] # Idle /\ End(w)
      /\ users[requests[w].user].password < MaxPasswords
      /\ SetPassword(requests[w].user)
      /\ UNCHANGED <<resets, access, regime>>
  BY RequestFacts DEF ChangePassword, Ops
<1>2. ResetsInv' /\ resets' \in [Resets -> PasswordReset]
  BY <1>1, EndFacts, ResetsKept DEF IInv, TypeOK
<1> QED
  BY <1>1, <1>2, SetPasswordStep

LEMMA ConfirmResetStep ==
    ASSUME IInv, NEW w \in Workers, ConfirmReset(w)
    PROVE  IInv'
<1>0. PICK p \in Resets : requests[w].op = "confirm" => p = requests[w].reset
  BY RequestFacts DEF ConfirmReset, Carries
<1>1. /\ requests[w].user \in Users /\ requests[w] # Idle /\ End(w)
      /\ requests[w].op = "confirm"
      /\ p = requests[w].reset /\ resets[p].status # "unused"
      /\ users[requests[w].user].password < MaxPasswords
      /\ SetPassword(requests[w].user)
      /\ resets' = [resets EXCEPT ![p] = MarkedUsed(@)]
      /\ UNCHANGED <<access, regime>>
  BY <1>0, RequestFacts DEF ConfirmReset, Carries, Ops
<1>2. /\ requests'[w] = Idle /\ Quiet
      /\ \A v \in Workers \ {w} : requests'[v] = requests[v]
  BY <1>1, EndFacts
<1>3. w \in Confirming(p)
  BY <1>1 DEF Confirming
<1>4. /\ resets[p].uses \in Nat
      /\ resets[p].uses + Cardinality(Confirming(p)) <= Cardinality(Workers)
      /\ resets[p].user \in Users
  BY <1>1, AuthAssumption, FS_CardinalityType DEF IInv, TypeOK, PasswordReset, ResetsInv
<1>5. Confirming(p)' = Confirming(p) \ {w}
  BY <1>2, IdleIsRequest DEF Confirming, Ops
<1>6. /\ Cardinality(Confirming(p)') = Cardinality(Confirming(p)) - 1
      /\ Cardinality(Confirming(p)') \in Nat
  <2>1. Cardinality(Confirming(p) \ {w}) = Cardinality(Confirming(p)) - 1
    BY <1>3, ConfirmingFacts, FS_RemoveElement, <1>1
  <2>2. Cardinality(Confirming(p)') \in Nat
    BY <1>1, <1>2, ConfirmingShrinks
  <2> QED
    BY <1>5, <2>1, <2>2
<1>7. resets[p].uses + 1 + Cardinality(Confirming(p)') <= Cardinality(Workers)
  BY <1>1, <1>4, <1>6, ConfirmingFacts
<1>8. resets[p].uses + 1 \in 0 .. Cardinality(Workers)
  BY <1>1, <1>4, <1>6, <1>7, ConfirmingFacts
<1>9. /\ resets' \in [Resets -> PasswordReset]
      /\ resets'[p].status = "used" /\ resets'[p].uses = resets[p].uses + 1
      /\ resets'[p].user = resets[p].user
      /\ \A s \in Resets \ {p} : resets'[s] = resets[s]
  BY <1>1, <1>8 DEF IInv, TypeOK, PasswordReset, MarkedUsed
<1>10. "confirm" \in regime.alone =>
          resets[p].uses = 0 /\ \A s \in Resets : Confirming(s)' = {}
  <2>1. SUFFICES ASSUME "confirm" \in regime.alone
                 PROVE  resets[p].uses = 0 /\ \A s \in Resets : Confirming(s)' = {}
    OBVIOUS
  <2>2. resets[p].uses = 0
    BY <1>1, <1>3, <2>1 DEF IInv, ResetsInv
  <2>3. \A v \in Workers : requests'[v] = Idle
    BY <1>1, <2>1, NobodyElse
  <2> QED
    BY <2>2, <2>3, IdleIsRequest DEF Confirming, Ops
<1>11. ResetsInv'
  <2> SUFFICES ASSUME NEW s \in Resets
               PROVE  /\ resets'[s].status \in {"unused", "valid"} => resets'[s].uses = 0
                      /\ resets'[s].status # "unused" => resets'[s].user \in Users
                      /\ resets'[s].uses + Cardinality(Confirming(s)') <= Cardinality(Workers)
                      /\ "confirm" \in regime.alone =>
                            /\ resets'[s].uses <= 1
                            /\ \A v \in Confirming(s)' : resets'[s].uses = 0
    BY <1>1 DEF ResetsInv
  <2>1. CASE s = p
    BY <1>4, <1>7, <1>9, <1>10, <2>1
  <2>2. CASE s # p
    <3>1. resets'[s] = resets[s] /\ resets[s].uses \in Nat
      BY <1>9, <2>2, AuthAssumption, FS_CardinalityType DEF IInv, TypeOK, PasswordReset
    <3>2. resets[s].uses + Cardinality(Confirming(s)) <= Cardinality(Workers)
      BY DEF IInv, ResetsInv
    <3>3. resets[s].uses + Cardinality(Confirming(s)') <= Cardinality(Workers)
      BY <1>2, <3>1, <3>2, ConfirmingShrinks, ConfirmingFacts
    <3> QED
      BY <1>2, <3>1, <3>3, ConfirmingShrinks DEF IInv, ResetsInv
  <2> QED
    BY <2>1, <2>2
<1>12. \A s \in Resets : resets[s].status # "unused" => resets'[s].status # "unused"
  BY <1>9
<1> QED
  BY <1>1, <1>9, <1>11, <1>12, SetPasswordStep

\* Only the two-factor columns of one account change.
LEMMA FactorStep ==
    ASSUME IInv, NEW w \in Workers, NEW u \in Users, End(w), requests[w] # Idle,
           UNCHANGED <<rows, resets, access, ended, regime>>,
           users' \in [Users -> User],
           \A x \in Users \ {u} : users'[x] = users[x],
           users'[u].status = users[u].status, users'[u].password = users[u].password,
           requests[w].op \in regime.alone \/ users'[u].secret = users[u].secret
             \/ "setup" \notin regime.alone
    PROVE  IInv'
<1>1. Quiet /\ requests' \in [Workers -> Request]
  BY EndFacts
<1>2. \A x \in Users : users'[x].status = users[x].status
                      /\ users'[x].password = users[x].password
  OBVIOUS
<1>3. TypeOK' /\ EmailsAreUnique'
  BY <1>1, <1>2 DEF IInv, TypeOK, EmailsAreUnique, Active
<1>4. ASSUME NEW v \in Workers, requests'[v] # Idle, requests[v].op \in Ops
      PROVE  /\ requests'[v] = requests[v] /\ requests[v].user \in Users
             /\ Active(requests[v].user) = Active(requests[v].user)'
  <2>1. requests'[v] = requests[v] /\ requests[v].user \in Users
    BY <1>1, <1>4, RequestFacts DEF Quiet
  <2> QED
    BY <1>2, <2>1 DEF Active
<1>5. FactorInv'
  <2>1. ASSUME "setup" \in regime.alone, NEW v \in Workers, requests'[v] # Idle,
               requests[v].op = "enable", Active(requests[v].user)'
        PROVE  /\ Active(requests[v].user)
               /\ users'[requests[v].user].secret = users[requests[v].user].secret
    <3>1. requests[v].op \in Ops
      BY <2>1 DEF Ops
    <3>2. Active(requests[v].user) /\ requests[v].user \in Users
      BY <1>4, <2>1, <3>1
    <3>3. requests[w].op \notin regime.alone
      BY <2>1, NobodyElse
    <3> QED
      BY <2>1, <3>2, <3>3
  <2> QED
    BY <1>1, <2>1, FactorKept
<1>6. ASSUME NEW v \in Workers
      PROVE  /\ requests'[v].op = "register" =>
                   users'[requests'[v].user].status = users[requests'[v].user].status
             /\ ("refresh" \in regime.alone /\ requests'[v].op = "refresh") =>
                   (Live(requests[v].row) => Live(requests[v].row)')
  <2>1. requests'[v].op = "register" =>
            requests'[v] # Idle /\ requests[v].op \in Ops /\ requests'[v] = requests[v]
    BY <1>1, IdleIsRequest DEF Quiet, Ops
  <2> QED
    BY <1>2, <1>4, <2>1, NoneRefreshes
<1>7. ASSUME NEW r \in Rows
      PROVE  /\ rows'[r].status = "active" =>
                   users'[rows[r].user].password = users[rows[r].user].password
             /\ rows'[r].status \in {"active", "revoked", "expired"} =>
                   (Active(rows[r].user) => Active(rows[r].user)')
  <2>1. rows[r].status # "unused" => rows[r].user \in Users
    BY DEF IInv, RowsInv
  <2> QED
    BY <1>2, <2>1 DEF Active
<1>8. RowsFade /\ EndedGrows /\ ResetsInv'
  BY <1>1, NothingFades, ResetsKept DEF EndedGrows
<1> QED
  BY <1>1, <1>2, <1>3, <1>4, <1>5, <1>6, <1>7, <1>8, FadeStep

LEMMA SetupStep ==
    ASSUME IInv, NEW w \in Workers, Setup(w)
    PROVE  IInv'
<1> DEFINE u == requests[w].user
<1>1. /\ u \in Users /\ requests[w] # Idle /\ End(w) /\ requests[w].op = "setup"
      /\ users[u].secret < MaxSecrets /\ users' = [users EXCEPT ![u].secret = @ + 1]
      /\ UNCHANGED <<rows, resets, access, ended, regime>>
  BY RequestFacts DEF Setup, Ops
<1> HIDE DEF u
<1>2. users[u].secret + 1 \in 0 .. MaxSecrets
  BY <1>1, AuthAssumption DEF IInv, TypeOK, User
<1>3. /\ users' \in [Users -> User] /\ \A x \in Users \ {u} : users'[x] = users[x]
      /\ users'[u].status = users[u].status /\ users'[u].password = users[u].password
  BY <1>1, <1>2 DEF IInv, TypeOK, User
<1> QED
  BY <1>1, <1>3, FactorStep

LEMMA EnableStep ==
    ASSUME IInv, NEW w \in Workers, Enable(w)
    PROVE  IInv'
<1> DEFINE u == requests[w].user
           s == requests[w].secret
<1>1. /\ u \in Users /\ requests[w] # Idle /\ End(w) /\ s \in 0 .. MaxSecrets
      /\ users' = [users EXCEPT ![u] = [@ EXCEPT !.enabled = TRUE, !.verified = s]]
      /\ UNCHANGED <<rows, resets, access, ended, regime>>
  BY RequestFacts DEF Enable, Ops, Request
<1> HIDE DEF u, s
<1>3. /\ users' \in [Users -> User] /\ \A x \in Users \ {u} : users'[x] = users[x]
      /\ users'[u].status = users[u].status /\ users'[u].password = users[u].password
      /\ users'[u].secret = users[u].secret
  BY <1>1 DEF IInv, TypeOK, User
<1> QED
  BY <1>1, <1>3, FactorStep

LEMMA EraseUserStep ==
    ASSUME IInv, NEW w \in Workers, EraseUser(w)
    PROVE  IInv'
<1>1. PICK u \in Users :
         /\ u = requests[w].user /\ requests[w] # Idle /\ requests[w].op = "erase"
         /\ End(w) /\ users[u].status # "unused"
         /\ users' = [users EXCEPT ![u] = [NoAccount EXCEPT !.status = "erased",
                                                            !.password = users[u].password]]
         /\ rows' = [r \in Rows |-> IF r \in RowsOf(u)
                                    THEN [rows[r] EXCEPT !.status = "gone"] ELSE rows[r]]
         /\ UNCHANGED <<resets, access, ended, regime>>
  BY RequestFacts DEF EraseUser, Carries, Ops
<1>2. Quiet /\ requests' \in [Workers -> Request]
  BY <1>1, EndFacts
<1>3. /\ users' \in [Users -> User] /\ \A x \in Users \ {u} : users'[x] = users[x]
      /\ users'[u].status = "erased" /\ users'[u].password = users[u].password
  <2> DEFINE x == [NoAccount EXCEPT !.status = "erased", !.password = users[u].password]
  <2>1. users \in [Users -> User] /\ users[u].password \in 0 .. MaxPasswords
    BY DEF IInv, TypeOK, User
  <2>0. 0 \in 0 .. MaxSecrets
    BY AuthAssumption
  <2>2. x \in User /\ x.status = "erased" /\ x.password = users[u].password
    <3>1. NoAccount \in User
      BY <2>0, AuthAssumption DEF User, NoAccount
    <3> QED
      BY <2>1, <3>1 DEF User
  <2> HIDE DEF x
  <2>3. users' = [users EXCEPT ![u] = x]
    BY <1>1 DEF x
  <2> QED
    BY <2>1, <2>2, <2>3
<1>4. \A r \in Rows \ RowsOf(u) :
          rows'[r] = rows[r] /\ (rows[r].user # u \/ rows[r].status = "gone")
  BY <1>1 DEF RowsOf
<1>5. ASSUME NEW r \in RowsOf(u)
      PROVE  /\ r \in Rows /\ rows'[r] \in RefreshToken /\ rows'[r].status = "gone"
             /\ rows'[r].user = rows[r].user /\ rows'[r].password = rows[r].password
             /\ rows'[r].late = rows[r].late /\ rows'[r].login = rows[r].login
             /\ rows'[r].children = rows[r].children
             /\ rows[r].status # "unused"
  <2>1. r \in Rows /\ rows[r].user = u /\ rows[r] \in RefreshToken
    BY DEF RowsOf, IInv, TypeOK
  <2>2. rows[r].status # "unused"
    BY <2>1, AuthAssumption DEF IInv, RowsInv
  <2> QED
    BY <1>1, <2>1, <2>2 DEF RefreshToken
<1>6. rows' \in [Rows -> RefreshToken]
  <2>1. \A r \in Rows : rows'[r] \in RefreshToken
    BY <1>4, <1>5 DEF IInv, TypeOK
  <2> QED
    BY <1>1, <2>1
<1>7. RowsFade /\ EndedGrows /\ ResetsInv'
  <2>1. RowsFade
    BY <1>4, <1>5 DEF RowsFade
  <2> QED
    BY <1>1, <1>2, <2>1, ResetsKept DEF EndedGrows
<1>8. \A x \in Users : Active(x)' => Active(x) /\ users'[x] = users[x]
  BY <1>3 DEF Active
<1>9. TypeOK' /\ EmailsAreUnique'
  BY <1>1, <1>2, <1>3, <1>6, <1>8 DEF IInv, TypeOK, EmailsAreUnique
<1>10. \A v \in Workers : requests'[v] # Idle /\ requests[v].op \in Ops =>
          requests'[v] = requests[v] /\ requests[v].user \in Users
  BY <1>2, RequestFacts DEF Quiet
<1>11. FactorInv'
  <2>1. ASSUME NEW v \in Workers, requests'[v] # Idle, requests[v].op = "enable",
               Active(requests[v].user)'
        PROVE  /\ Active(requests[v].user)
               /\ users'[requests[v].user].secret = users[requests[v].user].secret
    <3>1. requests'[v] = requests[v] /\ requests[v].user \in Users
      BY <1>10, <2>1 DEF Ops
    <3> QED
      BY <1>8, <2>1, <3>1 DEF Active
  <2> QED
    BY <1>1, <1>2, <2>1, FactorKept
<1>12. ASSUME NEW v \in Workers
       PROVE  /\ requests'[v].op = "register" =>
                    users'[requests'[v].user].status = users[requests'[v].user].status
              /\ ("refresh" \in regime.alone /\ requests'[v].op = "refresh") =>
                    (Live(requests[v].row) => Live(requests[v].row)')
  <2>1. ASSUME requests'[v].op = "register"
        PROVE  users'[requests'[v].user].status = users[requests'[v].user].status
    <3>1. /\ requests[v].op = "register" /\ requests'[v] = requests[v]
          /\ requests[v].user \in Users
      BY <1>2, <2>1, RequestFacts, IdleIsRequest DEF Quiet, Ops
    <3>2. users[requests[v].user].status = "unused"
      BY <3>1, RequestFacts DEF Carries
    <3> QED
      BY <1>1, <1>3, <3>1, <3>2
  <2> QED
    BY <1>1, <2>1, NoneRefreshes
<1>13. ASSUME NEW r \in Rows, rows'[r].status = "active"
       PROVE  users'[rows[r].user].password = users[rows[r].user].password
  <2>1. rows[r].user \in Users
    BY <1>13, <1>7 DEF IInv, RowsInv, RowsFade
  <2> QED
    BY <1>3, <2>1
<1>14. ASSUME "erase" \in regime.alone
       PROVE  /\ \A v \in Workers : requests'[v] = Idle
              /\ \A r \in Rows : rows'[r].status \in {"active", "revoked", "expired"} =>
                    (Active(rows[r].user) => Active(rows[r].user)')
  <2>1. \A v \in Workers : requests'[v] = Idle
    BY <1>1, <1>14, NobodyElse
  <2>2. ASSUME NEW r \in Rows, rows'[r].status \in {"active", "revoked", "expired"},
               Active(rows[r].user)
        PROVE  users'[rows'[r].user].status = "active"
    <3>1. r \notin RowsOf(u)
      BY <2>2, <1>5
    <3>2. rows[r].user \in Users \ {u} /\ rows'[r] = rows[r]
      BY <2>2, <3>1, <1>4 DEF IInv, RowsInv
    <3> QED
      BY <1>3, <2>2, <3>2 DEF Active
  <2> QED
    BY <2>1, <2>2 DEF Active
<1>15. \A x \in Users : users[x].status = "unused" <=> users'[x].status = "unused"
  BY <1>1, <1>3
<1> QED
  BY <1>1, <1>2, <1>7, <1>9, <1>11, <1>12, <1>13, <1>14, <1>15, FadeStep

-----------------------------------------------------------------------------
(* Steps that open or prolong a session.                                   *)

LEMMA OpenStep ==
    ASSUME IInv, NEW w \in Workers, NEW r \in Rows, End(w),
           UNCHANGED <<resets, ended, regime>>,
           TypeOK', EmailsAreUnique', RefreshInv', FactorInv',
           rows[r].status = "unused", rows'[r].status = "active",
           rows'[r].user \in Users, rows'[r].login \in Rows,
           rows'[r].login = r \/ rows[rows'[r].login].status # "unused",
           rows'[r].late \/ rows'[r].password = users'[rows'[r].user].password,
           "erase" \in regime.alone => users'[rows'[r].user].status = "active",
           \A s \in Rows \ {r} :
               \/ rows'[s] = rows[s]
               \/ /\ rows[s].status \notin {"unused", "gone"}
                  /\ rows'[s].status = "revoked"
                  /\ rows'[s].user = rows[s].user /\ rows'[s].login = rows[s].login
                  /\ rows'[s].password = rows[s].password /\ rows'[s].late = rows[s].late,
           \A u \in Users :
               /\ users'[u].password = users[u].password
               /\ users[u].status # "unused" => users'[u].status = users[u].status
               /\ users'[u].status # users[u].status =>
                      \A v \in Workers : requests'[v].op = "register" =>
                          requests'[v].user # u
    PROVE  IInv'
<1>1. Quiet
  BY EndFacts
<1>2. RequestsCarry'
  <2>1. RowsKeep
    BY DEF RowsKeep
  <2>2. \A u \in Users : users[u].status # "unused" => users'[u].status # "unused"
    OBVIOUS
  <2> QED
    BY <1>1, <2>1, <2>2, CarryKept
<1>3. RowsInv'
  <2>1. \A s \in Rows : rows[s].status # "unused" => rows'[s].status # "unused"
    OBVIOUS
  <2>2. ASSUME NEW s \in Rows
        PROVE  IF rows'[s].status = "unused"
               THEN rows'[s].user = None /\ rows'[s].login = None /\ rows'[s].children = {}
               ELSE /\ rows'[s].user \in Users /\ rows'[s].login \in Rows
                    /\ rows'[rows'[s].login].status # "unused"
    <3>1. CASE s = r
      BY <2>1, <3>1
    <3>2. CASE s # r /\ rows'[s] = rows[s]
      BY <2>1, <3>2 DEF IInv, RowsInv
    <3>3. CASE s # r /\ rows'[s] # rows[s]
      BY <2>1, <3>3 DEF IInv, RowsInv
    <3> QED
      BY <3>1, <3>2, <3>3
  <2>3. \A l \in ended' : rows'[l].status # "unused"
    BY <2>1 DEF IInv, RowsInv, TypeOK
  <2> QED
    BY <2>2, <2>3 DEF RowsInv
<1>4. AloneIsAlone'
  BY <1>1, AloneKept
<1>5. RowsHaveAccounts'
  <2> SUFFICES ASSUME "erase" \in regime.alone, NEW s \in Rows,
                      rows'[s].status \in {"active", "revoked", "expired"}
               PROVE  users'[rows'[s].user].status = "active"
    BY DEF RowsHaveAccounts, Active
  <2>1. CASE s = r
    BY <2>1
  <2>2. CASE s # r
    <3>1. rows[s].status \in {"active", "revoked", "expired"} /\ rows'[s].user = rows[s].user
      BY <2>2 DEF IInv, TypeOK, RefreshToken
    <3>2. users[rows[s].user].status = "active" /\ rows[s].user \in Users
      BY <3>1 DEF IInv, RowsHaveAccounts, RowsInv, Active
    <3> QED
      BY <3>1, <3>2
  <2> QED
    BY <2>1, <2>2
<1>6. ErasureInv'
  <2> SUFFICES ASSUME "erase" \in regime.alone, NEW v \in Workers,
                      requests'[v].op \in {"login", "refresh"}
               PROVE  users'[requests'[v].user].status = "active"
    BY DEF ErasureInv, Active
  <2>1. /\ requests'[v] = requests[v] /\ requests[v].op \in Ops
        /\ requests[v].user \in Users
    BY <1>1, IdleIsRequest, RequestFacts DEF Quiet, Ops
  <2>2. users[requests[v].user].status = "active"
    BY <2>1 DEF IInv, ErasureInv, Active
  <2> QED
    BY <2>1, <2>2
<1>7. SessionsFollowPassword'
  <2> SUFFICES ASSUME NEW s \in Rows, rows'[s].status = "active"
               PROVE  rows'[s].late \/ rows'[s].password = users'[rows'[s].user].password
    BY DEF SessionsFollowPassword
  <2>1. CASE s # r
    <3>1. rows'[s] = rows[s] /\ rows[s].user \in Users
      BY <2>1 DEF IInv, RowsInv
    <3> QED
      BY <3>1 DEF IInv, SessionsFollowPassword
  <2> QED
    BY <2>1
<1>8. ResetsInv'
  BY <1>1, ResetsKept
<1> QED
  BY <1>2, <1>3, <1>4, <1>5, <1>6, <1>7, <1>8 DEF IInv

\* The session of a login descends from its own row.
LEMMA LoginRowStep ==
    ASSUME IInv, NEW w \in Workers, NEW r \in Rows, NEW u \in Users,
           NEW password \in 0 .. MaxPasswords, End(w), requests[w] # Idle,
           rows[r].status = "unused", rows' = [rows EXCEPT ![r] = Opened(r, u, password)],
           access' = access \cup {u}, UNCHANGED <<resets, ended, regime>>,
           users' \in [Users -> User], EmailsAreUnique', FactorInv',
           password # users[u].password \/ password = users'[u].password,
           "erase" \in regime.alone => users'[u].status = "active",
           \A x \in Users :
               /\ users'[x].password = users[x].password
               /\ users[x].status # "unused" => users'[x].status = users[x].status
               /\ users'[x].status # users[x].status =>
                      \A v \in Workers : requests'[v].op = "register" =>
                          requests'[v].user # x
    PROVE  IInv'
<1> DEFINE new == Opened(r, u, password)
<1>1. /\ new \in RefreshToken /\ new.status = "active" /\ new.user = u
      /\ new.password = password /\ new.login = r /\ new.children = {}
      /\ new.late = (password # users[u].password)
  BY AuthAssumption DEF Opened, NoRow, RefreshToken
<1> HIDE DEF new
<1>2. /\ rows' \in [Rows -> RefreshToken] /\ rows'[r] = new
      /\ \A s \in Rows \ {r} : rows'[s] = rows[s]
  BY <1>1 DEF IInv, TypeOK, new
<1>3. Quiet /\ requests' \in [Workers -> Request]
  BY EndFacts
<1>4. TypeOK'
  BY <1>2, <1>3 DEF IInv, TypeOK
<1>5. \A s \in Rows : rows[s].status # "unused" => rows[s].login # r
  BY DEF IInv, RowsInv
<1>6. RefreshInv'
  <2> SUFFICES ASSUME "refresh" \in regime.alone PROVE RefreshInv'
    BY DEF RefreshInv
  <2>1. \A s \in Rows : Live(s)' =>
            IF s = r THEN rows'[s] = new ELSE rows'[s] = rows[s] /\ Live(s)
    BY <1>2 DEF Live
  <2>2. \A s \in Rows : Live(s)' => rows'[s].login \notin ended' /\ rows'[s].children = {}
    <3>1. r \notin ended
      BY DEF IInv, RowsInv
    <3> QED
      BY <1>1, <2>1, <3>1 DEF IInv, RefreshInv
  <2>3. \A s \in Rows : Live(s) => rows[s].login # r
    BY <1>5 DEF Live
  <2>4. ASSUME NEW s \in Rows, NEW x \in Rows, Live(s)', Live(x)',
               rows'[s].login = rows'[x].login
        PROVE  s = x
    BY <1>1, <2>1, <2>3, <2>4 DEF IInv, RefreshInv
  <2>5. \A s \in Rows : Cardinality(rows'[s].children) <= 1
    <3>1. Cardinality(rows'[r].children) = 0
      BY <1>1, <1>2, FS_EmptySet
    <3>2. \A s \in Rows \ {r} : Cardinality(rows'[s].children) <= 1
      BY <1>2 DEF IInv, RefreshInv
    <3> QED
      BY <3>1, <3>2
  <2>6. ASSUME NEW v \in Workers, requests'[v].op = "refresh"
        PROVE  Live(requests[v].row)'
    BY <2>6, NoneRefreshes
  <2>7. ASSUME NEW v \in Workers, requests'[v].op = "logout",
               NEW s \in requests'[v].rows, NEW x \in Rows,
               Live(x)', rows'[x].login = rows'[s].login
        PROVE  x = s
    <3>1. requests'[v] = requests[v] /\ s \in Rows
      BY <1>3, <2>7, IdleIsRequest, RequestFacts DEF Quiet, Ops, Request
    <3>2. rows[s].status # "unused"
      BY <2>7, <3>1, RequestFacts DEF Carries
    <3>3. rows'[s] = rows[s] /\ rows[s].login # r
      BY <1>2, <1>5, <3>1, <3>2
    <3>4. x # r
      BY <1>1, <1>2, <2>7, <3>3
    <3> QED
      BY <2>1, <2>7, <3>1, <3>3, <3>4 DEF IInv, RefreshInv
  <2> QED
    BY <2>2, <2>4, <2>5, <2>6, <2>7 DEF RefreshInv
<1>7. new.late \/ new.password = users'[new.user].password
  <2>1. CASE password # users[u].password
    BY <1>1, <2>1
  <2>2. CASE password = users'[u].password
    BY <1>1, <2>2
  <2> QED
    BY <2>1, <2>2
<1>8. /\ rows'[r].user \in Users /\ rows'[r].login \in Rows /\ rows'[r].login = r
      /\ rows'[r].status = "active"
      /\ rows'[r].late \/ rows'[r].password = users'[rows'[r].user].password
      /\ "erase" \in regime.alone => users'[rows'[r].user].status = "active"
  BY <1>1, <1>2, <1>7
<1> QED
  BY <1>2, <1>4, <1>6, <1>8, OpenStep

LEMMA RegisterStep ==
    ASSUME IInv, NEW w \in Workers, Register(w)
    PROVE  IInv'
<1>1. PICK u \in Users :
         /\ u = requests[w].user /\ requests[w] # Idle /\ requests[w].op = "register"
         /\ AddressIsFree(u) /\ users[u].status = "unused"
         /\ users' = [users EXCEPT ![u].status = "active"]
         /\ access' = access \cup {u} /\ End(w)
         /\ UNCHANGED <<resets, ended, regime>>
  BY RequestFacts DEF Register, Carries, Ops
<1>2. PICK r \in Rows :
         rows[r].status = "unused" /\ rows' = [rows EXCEPT ![r] = Opened(r, u, 0)]
  BY <1>1 DEF Register
<1>3. /\ users' \in [Users -> User] /\ \A x \in Users \ {u} : users'[x] = users[x]
      /\ users'[u].status = "active" /\ users'[u].password = users[u].password
      /\ users'[u].secret = users[u].secret
  BY <1>1 DEF IInv, TypeOK, User
<1>4. Quiet /\ requests' \in [Workers -> Request]
  BY <1>1, EndFacts
<1>5. EmailsAreUnique'
  BY <1>1, <1>3 DEF IInv, EmailsAreUnique, AddressIsFree, Registered, Active
<1>6. FactorInv'
  <2>1. ASSUME NEW v \in Workers, requests'[v] # Idle, requests[v].op = "enable",
               Active(requests[v].user)'
        PROVE  /\ Active(requests[v].user)
               /\ users'[requests[v].user].secret = users[requests[v].user].secret
    <3>1. requests'[v] = requests[v] /\ requests[v].user \in Users \ {u}
      BY <1>1, <1>4, <2>1, RequestFacts DEF Quiet, Carries, Ops
    <3> QED
      BY <1>3, <2>1, <3>1 DEF Active
  <2> QED
    BY <1>1, <1>4, <2>1, FactorKept
<1>7. ASSUME NEW x \in Users, users'[x].status # users[x].status,
             NEW v \in Workers, requests'[v].op = "register"
      PROVE  requests'[v].user # x
  <2>1. x = u
    BY <1>3, <1>7
  <2>2. v # w /\ requests'[v] = requests[v]
    BY <1>1, <1>7, EndFacts, IdleIsRequest DEF Ops
  <2> QED
    BY <1>1, <1>7, <2>1, <2>2 DEF IInv, RequestsCarry
<1>8. /\ 0 \in 0 .. MaxPasswords
      /\ 0 # users[u].password \/ 0 = users'[u].password
      /\ \A x \in Users : /\ users'[x].password = users[x].password
                          /\ users[x].status # "unused" => users'[x].status = users[x].status
  BY <1>1, <1>3, AuthAssumption
<1> QED
  BY <1>1, <1>2, <1>3, <1>5, <1>6, <1>7, <1>8, LoginRowStep, ZenonT(40)

LEMMA LoginStep ==
    ASSUME IInv, NEW w \in Workers, Login(w)
    PROVE  IInv'
<1>1. PICK u \in Users :
         /\ u = requests[w].user /\ requests[w] # Idle /\ requests[w].op = "login"
         /\ access' = access \cup {u} /\ End(w)
         /\ UNCHANGED <<users, resets, ended, regime>>
  BY RequestFacts DEF Login, Ops
<1>2. PICK password \in 0 .. MaxPasswords : password = requests[w].password
  BY RequestFacts DEF Request
<1>3. PICK r \in Rows :
         rows[r].status = "unused" /\ rows' = [rows EXCEPT ![r] = Opened(r, u, password)]
  BY <1>1, <1>2 DEF Login
<1>4. Quiet
  BY <1>1, EndFacts
<1>5. EmailsAreUnique' /\ FactorInv' /\ users' \in [Users -> User]
  <2>1. ASSUME NEW v \in Workers, requests'[v] # Idle, Active(requests[v].user)'
        PROVE  Active(requests[v].user) /\ requests'[v] = requests[v]
    BY <1>1, <1>4, <2>1 DEF Quiet, Active
  <2>2. FactorInv'
    BY <1>1, <1>4, <2>1, FactorKept
  <2> QED
    BY <1>1, <2>2 DEF IInv, EmailsAreUnique, Active, TypeOK
<1>6. "erase" \in regime.alone => users'[u].status = "active"
  BY <1>1 DEF IInv, ErasureInv, Active
<1> QED
  BY <1>1, <1>3, <1>5, <1>6, LoginRowStep

LEMMA RefreshStep ==
    ASSUME IInv, NEW w \in Workers, Refresh(w)
    PROVE  IInv'
<1>1. PICK u \in Users, old \in Rows :
         /\ u = requests[w].user /\ old = requests[w].row
         /\ requests[w] # Idle /\ requests[w].op = "refresh"
         /\ rows[old].status \notin {"unused", "gone"} /\ rows[old].user = u
         /\ rows[old].late \/ rows[old].password = requests[w].password
         /\ access' = access \cup {u} /\ End(w)
         /\ UNCHANGED <<users, resets, ended, regime>>
  BY RequestFacts DEF Refresh, Carries, Ops
<1>0. PICK late \in BOOLEAN :
         late <=> (rows[old].late \/ requests[w].password # users[u].password)
  OBVIOUS
<1>2. PICK r \in Rows :
         /\ rows[r].status = "unused"
         /\ rows' = [Revoked(rows, {old}) EXCEPT
                         ![old].children = @ \cup {r},
                         ![r] = [rows[old] EXCEPT !.status = "active", !.late = late,
                                                  !.children = {}]]
  <2>1. rows[old].late \in BOOLEAN
    BY DEF IInv, TypeOK, RefreshToken
  <2>2. (rows[old].late \/ requests[w].password # users[u].password) = late
    BY <1>0, <2>1
  <2> QED
    BY <1>1, <2>2 DEF Refresh
<1>3. r # old /\ rows \in [Rows -> RefreshToken]
  BY <1>1, <1>2 DEF IInv, TypeOK, RefreshToken
<1>4. late \/ rows[old].password = users[u].password
  BY <1>0, <1>1
<1> DEFINE gone == Revoked(rows, {old})
<1>5. /\ DOMAIN gone = Rows /\ gone = [x \in Rows |-> gone[x]]
      /\ gone[old] = [rows[old] EXCEPT !.status = "revoked"]
      /\ \A x \in Rows \ {old} : gone[x] = rows[x]
  BY DEF Revoked
<1> HIDE DEF gone
<1>6. rows' = [gone EXCEPT ![old].children = @ \cup {r},
                           ![r] = [rows[old] EXCEPT !.status = "active", !.late = late,
                                                    !.children = {}]]
  BY <1>2 DEF gone
<1>7. /\ rows'[r] \in RefreshToken /\ rows'[r].status = "active" /\ rows'[r].user = u
      /\ rows'[r].password = rows[old].password /\ rows'[r].late = late
      /\ rows'[r].login = rows[old].login /\ rows'[r].children = {}
  <2>1. rows'[r] = [rows[old] EXCEPT !.status = "active", !.late = late, !.children = {}]
    BY <1>3, <1>5, <1>6
  <2>2. rows[old] \in RefreshToken
    BY <1>3
  <2>3. /\ rows'[r].status = "active"
        /\ rows'[r].user = rows[old].user /\ rows'[r].password = rows[old].password
        /\ rows'[r].login = rows[old].login /\ rows'[r].children = {}
    BY <2>1, <2>2 DEF RefreshToken
  <2>4. rows'[r].late = late
    BY <2>1, <2>2 DEF RefreshToken
  <2>5. rows'[r] \in RefreshToken
    BY <2>1, <2>2 DEF RefreshToken
  <2> QED
    BY <1>1, <2>3, <2>4, <2>5
<1>8. /\ rows'[old] \in RefreshToken /\ rows'[old].status = "revoked"
      /\ rows'[old].user = u /\ rows'[old].password = rows[old].password
      /\ rows'[old].late = rows[old].late /\ rows'[old].login = rows[old].login
      /\ rows'[old].children = rows[old].children \cup {r}
  <2>1. gone[old] \in RefreshToken
    BY <1>3, <1>5 DEF RefreshToken
  <2>2. rows'[old] = [gone[old] EXCEPT !.children = @ \cup {r}]
    BY <1>3, <1>5, <1>6
  <2>3. gone[old].status = "revoked" /\ gone[old].user = rows[old].user
        /\ gone[old].password = rows[old].password /\ gone[old].late = rows[old].late
        /\ gone[old].login = rows[old].login /\ gone[old].children = rows[old].children
    BY <1>3, <1>5 DEF RefreshToken
  <2>4. PICK kids \in SUBSET Rows : kids = rows[old].children \cup {r}
    BY <1>1, <2>1, <2>3 DEF RefreshToken
  <2>5. PICK g \in RefreshToken : g = gone[old]
    BY <2>1
  <2>6. rows'[old] = [g EXCEPT !.children = kids]
    BY <2>2, <2>3, <2>4, <2>5
  <2>7. /\ rows'[old] \in RefreshToken /\ rows'[old].children = kids
        /\ rows'[old].status = g.status /\ rows'[old].user = g.user
        /\ rows'[old].password = g.password /\ rows'[old].late = g.late
        /\ rows'[old].login = g.login
    BY <2>6 DEF RefreshToken
  <2> QED
    BY <1>1, <2>3, <2>4, <2>5, <2>7
<1>9. \A x \in Rows \ {r, old} : rows'[x] = rows[x]
  BY <1>5, <1>6
<1>10. rows' \in [Rows -> RefreshToken]
  <2>1. rows' = [x \in Rows |-> rows'[x]]
    BY <1>5, <1>6
  <2>2. \A x \in Rows : rows'[x] \in RefreshToken
    BY <1>3, <1>7, <1>8, <1>9
  <2> QED
    BY <2>1, <2>2
<1>11. Quiet /\ requests' \in [Workers -> Request]
  BY <1>1, EndFacts
<1>12. TypeOK'
  BY <1>1, <1>10, <1>11 DEF IInv, TypeOK
<1>13. EmailsAreUnique' /\ FactorInv'
  <2>1. ASSUME NEW v \in Workers, requests'[v] # Idle, Active(requests[v].user)'
        PROVE  Active(requests[v].user) /\ requests'[v] = requests[v]
    BY <1>1, <1>11, <2>1 DEF Quiet, Active
  <2>2. FactorInv'
    BY <1>1, <1>11, <2>1, FactorKept
  <2> QED
    BY <1>1, <2>2 DEF IInv, EmailsAreUnique, Active
<1>14. RefreshInv'
  <2> SUFFICES ASSUME "refresh" \in regime.alone PROVE RefreshInv'
    BY <1>1 DEF RefreshInv
  <2>1. Live(old)
    BY <1>1 DEF IInv, RefreshInv
  <2>2. \A s \in Rows : Live(s)' => s # old /\ (s # r => rows'[s] = rows[s] /\ Live(s))
    BY <1>8, <1>9 DEF Live
  <2>3. \A s \in Rows : Live(s)' => rows'[s].login \notin ended' /\ rows'[s].children = {}
    BY <1>1, <1>7, <2>1, <2>2 DEF IInv, RefreshInv
  <2>4. \A s \in Rows : Live(s) /\ rows[s].login = rows[old].login => s = old
    BY <2>1 DEF IInv, RefreshInv
  <2>5. ASSUME NEW s \in Rows, NEW x \in Rows, Live(s)', Live(x)',
               rows'[s].login = rows'[x].login
        PROVE  s = x
    BY <1>7, <2>2, <2>4, <2>5 DEF IInv, RefreshInv
  <2>6. \A s \in Rows : Cardinality(rows'[s].children) <= 1
    <3>1. Cardinality(rows'[r].children) = 0
      BY <1>7, FS_EmptySet
    <3>2. Cardinality(rows'[old].children) = 1
      <4>1. rows[old].children = {}
        BY <2>1 DEF IInv, RefreshInv
      <4>2. rows'[old].children = {r}
        BY <1>8, <4>1
      <4> QED
        BY <4>2, FS_Singleton
    <3>3. \A s \in Rows \ {r, old} : Cardinality(rows'[s].children) <= 1
      BY <1>9 DEF IInv, RefreshInv
    <3> QED
      BY <3>1, <3>2, <3>3
  <2>7. \A v \in Workers : requests'[v].op \notin {"refresh", "logout"}
    BY <1>1, NobodyElse, IdleIsRequest DEF Ops
  <2> QED
    BY <2>3, <2>5, <2>6, <2>7 DEF RefreshInv
<1>15. /\ rows'[r].login \in Rows /\ rows[rows'[r].login].status # "unused"
       /\ rows'[r].user \in Users
       /\ rows'[r].late \/ rows'[r].password = users'[rows'[r].user].password
       /\ "erase" \in regime.alone => users'[rows'[r].user].status = "active"
  <2>1. rows[old].login \in Rows /\ rows[rows[old].login].status # "unused"
    BY <1>1 DEF IInv, RowsInv
  <2>2. "erase" \in regime.alone => users[u].status = "active"
    BY <1>1 DEF IInv, ErasureInv, Active
  <2> QED
    BY <1>1, <1>4, <1>7, <2>1, <2>2
<1>16. \A s \in Rows \ {r} :
          \/ rows'[s] = rows[s]
          \/ /\ rows[s].status \notin {"unused", "gone"}
             /\ rows'[s].status = "revoked"
             /\ rows'[s].user = rows[s].user /\ rows'[s].login = rows[s].login
             /\ rows'[s].password = rows[s].password /\ rows'[s].late = rows[s].late
  BY <1>1, <1>8, <1>9
<1> QED
  BY <1>1, <1>2, <1>7, <1>12, <1>13, <1>14, <1>15, <1>16, OpenStep, ZenonT(40)

-----------------------------------------------------------------------------
(* The invariant holds.                                                    *)

LEMMA InitIInv == Init => IInv
<1> SUFFICES ASSUME Init PROVE IInv
  OBVIOUS
<1>1. /\ users = [u \in Users |-> NoAccount] /\ rows = [r \in Rows |-> NoRow]
      /\ resets = [p \in Resets |-> [status |-> "unused", user |-> None, uses |-> 0]]
      /\ access = {} /\ ended = {} /\ requests = [w \in Workers |-> Idle]
      /\ regime \in Regimes
  BY DEF Init
<1>2. NoAccount \in User /\ NoRow \in RefreshToken
  BY AuthAssumption DEF NoAccount, NoRow, User, RefreshToken
<1>3. 0 \in 0 .. Cardinality(Workers) /\ Cardinality(Workers) \in Nat
  BY AuthAssumption, FS_CardinalityType
<1>4. TypeOK
  BY <1>1, <1>2, <1>3, IdleIsRequest DEF TypeOK, PasswordReset
<1>5. RowsInv
  BY <1>1 DEF RowsInv, NoRow
<1>6. \A w \in Workers : requests[w] = Idle /\ requests[w].op \notin Ops
  BY <1>1, IdleIsRequest
<1>7. RequestsCarry /\ AloneIsAlone /\ ErasureInv /\ FactorInv
  <2>1. regime.alone \subseteq Ops
    BY <1>1, AuthAssumption
  <2>2. Carries(Idle)
    BY IdleIsRequest DEF Carries, Ops
  <2> QED
    BY <1>6, <2>1, <2>2 DEF RequestsCarry, AloneIsAlone, ErasureInv, FactorInv, Ops
<1>8. EmailsAreUnique /\ RowsHaveAccounts /\ SessionsFollowPassword
  BY <1>1 DEF EmailsAreUnique, RowsHaveAccounts, SessionsFollowPassword, Active,
     NoAccount, NoRow
<1>9. RefreshInv
  <2>1. \A r \in Rows : ~Live(r) /\ rows[r].children = {}
    BY <1>1 DEF Live, NoRow
  <2>2. \A r \in Rows : Cardinality(rows[r].children) <= 1
    BY <2>1, FS_EmptySet
  <2>3. \A w \in Workers : requests[w].op \notin {"refresh", "logout"}
    BY <1>6 DEF Ops
  <2> QED
    BY <2>1, <2>2, <2>3 DEF RefreshInv
<1>10. ResetsInv
  <2>1. \A p \in Resets : Confirming(p) = {}
    BY <1>6 DEF Confirming, Ops
  <2> QED
    BY <1>1, <1>3, <2>1, FS_EmptySet DEF ResetsInv
<1> QED
  BY <1>4, <1>5, <1>7, <1>8, <1>9, <1>10 DEF IInv

LEMMA NextIInv == IInv /\ [Next]_vars => IInv'
<1> SUFFICES ASSUME IInv, [Next]_vars PROVE IInv'
  OBVIOUS
<1>1. ASSUME NEW w \in Workers, Sessions(w) PROVE IInv'
  BY <1>1, RegisterStartStep, LoginStartStep, LogoutStartStep, RefreshStartStep,
     RegisterStep, LoginStep, RefreshStep, LogoutStep DEF Sessions
<1>2. ASSUME NEW w \in Workers, Passwords(w) PROVE IInv'
  BY <1>2, PlainStartStep, ConfirmResetStartStep, ChangePasswordStep, RequestResetStep,
     ConfirmResetStep DEF Passwords
<1>3. ASSUME NEW w \in Workers, TwoFactor(w) PROVE IInv'
  BY <1>3, PlainStartStep, EnableStartStep, SetupStep, EnableStep DEF TwoFactor
<1>4. ASSUME NEW w \in Workers, Erasure(w) PROVE IInv'
  BY <1>4, PlainStartStep, EraseUserStep DEF Erasure
<1>5. CASE UNCHANGED vars
  <2>1. Quiet /\ UNCHANGED <<users, rows, resets, access, requests, ended, regime>>
    BY <1>5 DEF vars, Quiet
  <2>2. TypeOK'
    BY <2>1 DEF IInv, TypeOK
  <2> QED
    BY <2>1, <2>2, AsideStep, ResetsKept
<1> QED
  BY <1>1, <1>2, <1>3, <1>4, <1>5, AbortStep, ExpireRowStep, ExpireResetStep,
     ExpireAccessStep DEF Next

LEMMA Invariance == Spec => []IInv
  BY InitIInv, NextIInv, PTL DEF Spec

-----------------------------------------------------------------------------
(* The theorems.                                                           *)

\* However registrations overlap, an address has one account: the index
\* decides where the check before the insert came too early.  Where erasures
\* overlap nothing, every refresh token is of an account that is there.
THEOREM AccountsStayConsistent == Spec => []AccountsAreConsistent
<1>1. IInv => AccountsAreConsistent
  BY DEF IInv, AccountsAreConsistent
<1> QED
  BY <1>1, Invariance, PTL

\* A new password leaves no session that can be prolonged under the old one,
\* but for those a request in flight meanwhile has opened or prolonged.
THEOREM PasswordsEndSessions == Spec => []SessionsFollowPassword
<1>1. IInv => SessionsFollowPassword
  BY DEF IInv
<1> QED
  BY <1>1, Invariance, PTL

\* Where refreshes overlap nothing, no chain of rotations leads out of a
\* login that a logout or a new password has ended.
THEOREM LogoutsAreFinal == Spec => []EndedSessionsStayEnded
<1>1. IInv => EndedSessionsStayEnded
  BY DEF IInv, RefreshInv, EndedSessionsStayEnded, Live
<1> QED
  BY <1>1, Invariance, PTL

\* Where refreshes and confirmations overlap nothing, a refresh token is
\* exchanged at most once and a reset token sets at most one password.
THEOREM TokensAreSpentOnce == Spec => []TokensWorkOnce
<1>1. IInv => TokensWorkOnce
  BY DEF IInv, RefreshInv, ResetsInv, TokensWorkOnce
<1> QED
  BY <1>1, Invariance, PTL

\* Where setups overlap nothing, the factor is turned on for the secret that
\* the user's code has matched.
THEOREM FactorsStartVerified == Spec => FactorStartsVerified
<1> DEFINE Verified ==
       "setup" \in regime.alone =>
          \A u \in Users :
              users'[u].enabled /\ users'[u].verified # users[u].verified =>
                  users'[u].secret = users'[u].verified
<1>1. ASSUME IInv, [Next]_vars PROVE Verified \/ UNCHANGED vars
  <2> SUFFICES ASSUME "setup" \in regime.alone, NEW u \in Users,
                      users'[u].enabled, users'[u].verified # users[u].verified
               PROVE  users'[u].secret = users'[u].verified
    OBVIOUS
  <2>1. users \in [Users -> User]
    BY <1>1 DEF IInv, TypeOK
  <2>2. users' # users
    OBVIOUS
  <2>3. ASSUME NEW w \in Workers, Enable(w)
        PROVE  users'[u].secret = users'[u].verified
    <3>1. /\ requests[w].op = "enable" /\ Active(requests[w].user)
          /\ users[requests[w].user].secret = requests[w].secret
      BY <1>1, <2>3 DEF Enable, IInv, FactorInv
    <3>2. u = requests[w].user
      BY <2>1, <2>3 DEF Enable
    <3> QED
      BY <2>1, <2>3, <3>1, <3>2 DEF Enable, User
  <2>4. ASSUME NEW w \in Workers, EraseUser(w) PROVE FALSE
    <3>1. u # requests[w].user => users'[u] = users[u]
      BY <2>1, <2>4 DEF EraseUser
    <3>2. u = requests[w].user => ~users'[u].enabled
      BY <2>1, <2>4 DEF EraseUser, NoAccount
    <3> QED
      BY <3>1, <3>2
  <2>5. ASSUME NEW x \in Users, \/ users' = [users EXCEPT ![x].status = "active"]
                                \/ users' = [users EXCEPT ![x].password = @ + 1]
                                \/ users' = [users EXCEPT ![x].secret = @ + 1]
        PROVE  FALSE
    BY <2>1, <2>5 DEF User
  <2>6. ASSUME NEW w \in Workers, \/ Register(w) \/ ChangePassword(w) \/ ConfirmReset(w)
                                  \/ Setup(w)
        PROVE  FALSE
    <3>1. requests[w].user \in Users
      BY <1>1, <2>6, RequestFacts
         DEF Register, ChangePassword, ConfirmReset, Setup, Ops
    <3> QED
      BY <2>5, <2>6, <3>1 DEF Register, ChangePassword, ConfirmReset, Setup, SetPassword
  <2>7. ASSUME NEW w \in Workers,
               \/ \E x \in Users : \/ RegisterStart(w, x) \/ LoginStart(w, x)
                                   \/ LogoutStart(w, x) \/ ChangePasswordStart(w, x)
                                   \/ RequestResetStart(w, x) \/ SetupStart(w, x)
                                   \/ EnableStart(w, x) \/ EraseUserStart(w, x)
               \/ \E r \in Rows : RefreshStart(w, r)
               \/ \E p \in Resets : ConfirmResetStart(w, p)
        PROVE  FALSE
    BY <2>2, <2>7 DEF RegisterStart, LoginStart, LogoutStart, ChangePasswordStart,
       RequestResetStart, SetupStart, EnableStart, EraseUserStart, RefreshStart,
       ConfirmResetStart, Begin
  <2>8. ASSUME NEW w \in Workers, \/ Login(w) \/ Refresh(w) \/ Logout(w)
                                  \/ RequestReset(w) \/ Abort(w)
        PROVE  FALSE
    BY <2>2, <2>8 DEF Login, Refresh, Logout, RequestReset, Abort
  <2>9. ASSUME \/ \E r \in Rows : ExpireRow(r)
               \/ \E p \in Resets : ExpireReset(p)
               \/ \E x \in Users : ExpireAccess(x)
               \/ UNCHANGED vars
        PROVE  FALSE
    BY <2>2, <2>9 DEF ExpireRow, ExpireReset, ExpireAccess, vars
  <2> QED
    BY <1>1, <2>3, <2>4, <2>6, <2>7, <2>8, <2>9
       DEF Next, Sessions, Passwords, TwoFactor, Erasure
<1>2. IInv /\ [Next]_vars => [Verified]_vars
  BY <1>1
<1>3. Spec => [][Verified]_vars
  BY <1>2, Invariance, PTL DEF Spec
<1> QED
  BY <1>3 DEF FactorStartsVerified

=============================================================================
