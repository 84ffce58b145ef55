------------------------------ MODULE KimiAuth ------------------------------
(***************************************************************************)
(* Accounts of the Kimi3 server: registration, refresh tokens, passwords,  *)
(* password resets and two-factor authentication                           *)
(* (services/auth_service.py, api/v1/auth.py, repositories), and the       *)
(* erasure of an account (services/compliance_service.py).                 *)
(*                                                                         *)
(* A request reads what is committed and then writes.  Its first write     *)
(* takes the database's one write lock, which get_db releases when it      *)
(* commits or rolls back: from the first write on the request is one step  *)
(* for the others.  No foreign key is enforced.  An access token is signed *)
(* and not stored; only the account it names is looked up.                 *)
(***************************************************************************)
EXTENDS Naturals, FiniteSets

CONSTANTS
    Users,        \* ids of accounts
    EmailOf,      \* the address each account id registers with
    Rows,         \* ids of refresh_tokens
    Resets,       \* ids of password_resets
    Workers,      \* requests that can be in flight together
    None,
    MaxPasswords, \* bound of the model on the passwords of an account
    MaxSecrets,   \* bound of the model on its two-factor secrets
    Regimes       \* operations clients issue, and those issued only alone

Ops == {"register", "login", "refresh", "logout", "change", "setup", "enable",
        "request", "confirm", "erase"}

ASSUME AuthAssumption ==
    /\ None \notin Users \cup Rows \cup Resets \cup Workers \cup Ops
    /\ IsFiniteSet(Workers)
    /\ MaxPasswords \in Nat /\ MaxSecrets \in Nat
    /\ Regimes \subseteq [issued : SUBSET Ops, alone : SUBSET Ops]

VARIABLES
    users,     \* committed rows of users
    rows,      \* committed rows of refresh_tokens
    resets,    \* committed rows of password_resets
    access,    \* users named by an access token that has not expired
    requests,  \* what each in-flight request has read
    ended,     \* ghost: logins whose sessions an answered request has ended
    regime     \* ghost: the operations clients issue, and issue alone, here

vars == <<users, rows, resets, access, requests, ended, regime>>

\* The n-th password of an account and the n-th secret, 0 being no secret;
\* verified (ghost): the secret of the last code that turned the factor on.
User == [status : {"unused", "active", "erased"}, password : 0 .. MaxPasswords,
         secret : 0 .. MaxSecrets, enabled : BOOLEAN, verified : 0 .. MaxSecrets]

\* Ghosts: the password the session was opened with, whether a change of the
\* password overlapped a request that opened or prolonged it, the row of the
\* login it descends from, and the rows issued in exchange for it.
RefreshToken == [status   : {"unused", "active", "revoked", "expired", "gone"},
                 user     : Users \cup {None},
                 password : 0 .. MaxPasswords,
                 late     : BOOLEAN,
                 login    : Rows \cup {None},
                 children : SUBSET Rows]

\* uses (ghost): the passwords set with the token.
PasswordReset == [status : {"unused", "valid", "used", "expired"},
                  user : Users \cup {None}, uses : 0 .. Cardinality(Workers)]

Request == [op       : Ops \cup {None},
            user     : Users \cup {None},
            password : 0 .. MaxPasswords,  \* the stored one, as read
            secret   : 0 .. MaxSecrets,
            row      : Rows \cup {None},
            reset    : Resets \cup {None},
            rows     : SUBSET Rows]        \* those a logout has selected

Idle == [op |-> None, user |-> None, password |-> 0, secret |-> 0, row |-> None,
         reset |-> None, rows |-> {}]

TypeOK ==
    /\ users \in [Users -> User]
    /\ rows \in [Rows -> RefreshToken]
    /\ resets \in [Resets -> PasswordReset]
    /\ access \subseteq Users
    /\ requests \in [Workers -> Request]
    /\ ended \subseteq Rows
    /\ regime \in Regimes

NoAccount == [status |-> "unused", password |-> 0, secret |-> 0,
              enabled |-> FALSE, verified |-> 0]

NoRow == [status |-> "unused", user |-> None, password |-> 0, late |-> FALSE,
          login |-> None, children |-> {}]

Init ==
    /\ users = [u \in Users |-> NoAccount]
    /\ rows = [r \in Rows |-> NoRow]
    /\ resets = [p \in Resets |-> [status |-> "unused", user |-> None, uses |-> 0]]
    /\ access = {} /\ ended = {}
    /\ requests = [w \in Workers |-> Idle]
    /\ regime \in Regimes

-----------------------------------------------------------------------------
(* A definition Bad... is a plausible mistake in the definition after it; no *)
(* specification uses it, it is there to show that a property notices it.  *)

Active(u) == users[u].status = "active"

\* get_current_user: a signed token, and an account that still exists.
CurrentUser(u) == u \in access /\ Active(u)

\* get_by_email.
Registered(email) == \E v \in Users : Active(v) /\ EmailOf[v] = email

\* The rows of an account, whatever their state.
RowsOf(u) == {r \in Rows : rows[r].user = u /\ rows[r].status # "gone"}

\* What revoke_all_for_user selects.
NotRevoked(u) == {r \in RowsOf(u) : rows[r].status \in {"active", "expired"}}

BadRevoked(of, chosen) == of

\* Rows chosen, once revoked.
Revoked(of, chosen) ==
    [r \in Rows |-> IF r \in chosen THEN [of[r] EXCEPT !.status = "revoked"] ELSE of[r]]

LoginsOf(chosen) == {rows[r].login : r \in chosen}

\* A request whose reads have let it pass; operations in regime.alone keep
\* the others out.
Begin(w, q) ==
    /\ requests[w] = Idle
    /\ q.op \in regime.issued
    /\ \A v \in Workers : requests[v].op \notin regime.alone
    /\ q.op \in regime.alone => \A v \in Workers : requests[v] = Idle
    /\ requests' = [requests EXCEPT ![w] = q]
    /\ UNCHANGED <<users, rows, resets, access, ended, regime>>

\* get_db commits, or rolls back and answers with the error.
End(w) == requests' = [requests EXCEPT ![w] = Idle]

-----------------------------------------------------------------------------
(* Accounts and sessions.                                                  *)

RegisterStart(w, u) ==
    /\ users[u].status = "unused" /\ ~Registered(EmailOf[u])
    /\ \A v \in Workers : requests[v].op = "register" => requests[v].user # u
    /\ Begin(w, [Idle EXCEPT !.op = "register", !.user = u])

BadAddressIsFree(u) == TRUE

\* The unique index on the address.
AddressIsFree(u) == ~Registered(EmailOf[u])

\* The row of a session of u, opened by a login that read the password.
Opened(r, u, password) ==
    [NoRow EXCEPT !.status = "active", !.user = u, !.password = password,
                  !.late = password # users[u].password, !.login = r]

\* The account, and the login that the route goes on with.
Register(w) ==
    LET u == requests[w].user IN
    /\ requests[w].op = "register"
    /\ AddressIsFree(u)
    /\ \E r \in Rows :
           /\ rows[r].status = "unused"
           /\ rows' = [rows EXCEPT ![r] = Opened(r, u, 0)]
    /\ users' = [users EXCEPT ![u].status = "active"]
    /\ access' = access \cup {u}
    /\ End(w)
    /\ UNCHANGED <<resets, ended, regime>>

\* The right password and, once the factor is on, a code of the secret.
LoginStart(w, u) ==
    /\ Active(u)
    /\ users[u].enabled => users[u].secret # 0
    /\ Begin(w, [Idle EXCEPT !.op = "login", !.user = u,
                             !.password = users[u].password])

Login(w) ==
    LET q == requests[w] IN
    /\ q.op = "login"
    /\ \E r \in Rows :
           /\ rows[r].status = "unused"
           /\ rows' = [rows EXCEPT ![r] = Opened(r, q.user, q.password)]
    /\ access' = access \cup {q.user}
    /\ End(w)
    /\ UNCHANGED <<users, resets, ended, regime>>

BadAccepted(r) == rows[r].status \in {"active", "revoked"}

\* What refresh accepts; the account is not looked up.
Accepted(r) == rows[r].status = "active"

RefreshStart(w, r) ==
    /\ Accepted(r)
    /\ Begin(w, [Idle EXCEPT !.op = "refresh", !.row = r, !.user = rows[r].user,
                             !.password = users[rows[r].user].password])

\* The UPDATE by primary key sets revoked, whatever it is by now; it fails if
\* an erasure has removed the row.
Refresh(w) ==
    LET q    == requests[w]
        late == rows[q.row].late \/ q.password # users[q.user].password
    IN
    /\ q.op = "refresh"
    /\ rows[q.row].status # "gone"
    /\ \E r \in Rows :
           /\ rows[r].status = "unused"
           /\ rows' = [Revoked(rows, {q.row}) EXCEPT
                          ![q.row].children = @ \cup {r},
                          ![r] = [rows[q.row] EXCEPT !.status = "active", !.late = late,
                                                     !.children = {}]]
    /\ access' = access \cup {q.user}
    /\ End(w)
    /\ UNCHANGED <<users, resets, ended, regime>>

\* logout selects the rows to revoke before it writes anything ...
LogoutStart(w, u) ==
    /\ CurrentUser(u)
    /\ Begin(w, [Idle EXCEPT !.op = "logout", !.user = u, !.rows = NotRevoked(u)])

\* ... and updates those, unless an erasure has removed one of them.
Logout(w) ==
    LET q == requests[w] IN
    /\ q.op = "logout"
    /\ \A r \in q.rows : rows[r].status # "gone"
    /\ rows' = Revoked(rows, q.rows)
    /\ ended' = ended \cup LoginsOf(q.rows)
    /\ End(w)
    /\ UNCHANGED <<users, resets, access, regime>>

-----------------------------------------------------------------------------
(* Passwords.                                                              *)

\* The UPDATE of the password is flushed before the rows are selected: the
\* write lock is held, and no session can be opened in between.
SetPassword(u) ==
    /\ Active(u)
    /\ users' = [users EXCEPT ![u].password = @ + 1]
    /\ rows' = Revoked(rows, NotRevoked(u))
    /\ ended' = ended \cup LoginsOf(NotRevoked(u))

ChangePasswordStart(w, u) ==
    /\ CurrentUser(u)
    /\ users[u].password < MaxPasswords
    /\ Begin(w, [Idle EXCEPT !.op = "change", !.user = u,
                             !.password = users[u].password])

ChangePassword(w) ==
    /\ requests[w].op = "change"
    /\ users[requests[w].user].password < MaxPasswords
    /\ SetPassword(requests[w].user)
    /\ End(w)
    /\ UNCHANGED <<resets, access, regime>>

RequestResetStart(w, u) ==
    /\ Active(u)
    /\ Begin(w, [Idle EXCEPT !.op = "request", !.user = u])

RequestReset(w) ==
    /\ requests[w].op = "request"
    /\ \E p \in Resets :
           /\ resets[p].status = "unused"
           /\ resets' = [resets EXCEPT ![p] = [@ EXCEPT !.status = "valid",
                                                        !.user = requests[w].user]]
    /\ End(w)
    /\ UNCHANGED <<users, rows, access, ended, regime>>

\* get_valid, and the account the row names.
ConfirmResetStart(w, p) ==
    /\ resets[p].status = "valid"
    /\ Active(resets[p].user)
    /\ users[resets[p].user].password < MaxPasswords
    /\ Begin(w, [Idle EXCEPT !.op = "confirm", !.user = resets[p].user, !.reset = p])

BadMarkedUsed(reset) == [reset EXCEPT !.uses = @ + 1]

MarkedUsed(reset) == [reset EXCEPT !.status = "used", !.uses = @ + 1]

ConfirmReset(w) ==
    LET p == requests[w].reset IN
    /\ requests[w].op = "confirm"
    /\ users[requests[w].user].password < MaxPasswords
    /\ SetPassword(requests[w].user)
    /\ resets' = [resets EXCEPT ![p] = MarkedUsed(@)]
    /\ End(w)
    /\ UNCHANGED <<access, regime>>

-----------------------------------------------------------------------------
(* Two-factor authentication.                                              *)

\* Also of an account whose factor is on, which stays on.
SetupStart(w, u) ==
    /\ CurrentUser(u)
    /\ users[u].secret < MaxSecrets
    /\ Begin(w, [Idle EXCEPT !.op = "setup", !.user = u])

Setup(w) ==
    LET u == requests[w].user IN
    /\ requests[w].op = "setup"
    /\ Active(u) /\ users[u].secret < MaxSecrets
    /\ users' = [users EXCEPT ![u].secret = @ + 1]
    /\ End(w)
    /\ UNCHANGED <<rows, resets, access, ended, regime>>

\* A code of any secret the user was shown.
BadMatches(shown, stored) == stored # 0

Matches(shown, stored) == stored # 0 /\ shown = stored

EnableStart(w, u) ==
    /\ CurrentUser(u)
    /\ \E shown \in 1 .. MaxSecrets :
           /\ Matches(shown, users[u].secret)
           /\ Begin(w, [Idle EXCEPT !.op = "enable", !.user = u, !.secret = shown])

\* Only the changed column is updated.
Enable(w) ==
    LET u == requests[w].user IN
    /\ requests[w].op = "enable"
    /\ Active(u)
    /\ users' = [users EXCEPT ![u] = [@ EXCEPT !.enabled = TRUE,
                                               !.verified = requests[w].secret]]
    /\ End(w)
    /\ UNCHANGED <<rows, resets, access, ended, regime>>

-----------------------------------------------------------------------------
(* Erasure of the account, and what happens around requests.               *)

EraseUserStart(w, u) ==
    /\ CurrentUser(u)
    /\ Begin(w, [Idle EXCEPT !.op = "erase", !.user = u])

\* The rows of password_resets stay.
EraseUser(w) ==
    LET u == requests[w].user IN
    /\ requests[w].op = "erase"
    /\ users' = [users EXCEPT ![u] = [NoAccount EXCEPT !.status = "erased",
                                                       !.password = users[u].password]]
    /\ rows' = [r \in Rows |-> IF r \in RowsOf(u) THEN [rows[r] EXCEPT !.status = "gone"]
                               ELSE rows[r]]
    /\ End(w)
    /\ UNCHANGED <<resets, access, ended, regime>>

\* An error, a lost client or a crash; also the refusal of a write that what
\* others have committed makes impossible.
Abort(w) ==
    /\ requests[w] # Idle
    /\ End(w)
    /\ UNCHANGED <<users, rows, resets, access, ended, regime>>

ExpireRow(r) ==
    /\ rows[r].status = "active"
    /\ rows' = [rows EXCEPT ![r].status = "expired"]
    /\ UNCHANGED <<users, resets, access, requests, ended, regime>>

ExpireReset(p) ==
    /\ resets[p].status = "valid"
    /\ resets' = [resets EXCEPT ![p].status = "expired"]
    /\ UNCHANGED <<users, rows, access, requests, ended, regime>>

ExpireAccess(u) ==
    /\ u \in access
    /\ access' = access \ {u}
    /\ UNCHANGED <<users, rows, resets, requests, ended, regime>>

Sessions(w) ==
    \/ \E u \in Users : RegisterStart(w, u) \/ LoginStart(w, u) \/ LogoutStart(w, u)
    \/ \E r \in Rows : RefreshStart(w, r)
    \/ Register(w) \/ Login(w) \/ Refresh(w) \/ Logout(w)

Passwords(w) ==
    \/ \E u \in Users : ChangePasswordStart(w, u) \/ RequestResetStart(w, u)
    \/ \E p \in Resets : ConfirmResetStart(w, p)
    \/ ChangePassword(w) \/ RequestReset(w) \/ ConfirmReset(w)

TwoFactor(w) ==
    \/ \E u \in Users : SetupStart(w, u) \/ EnableStart(w, u)
    \/ Setup(w) \/ Enable(w)

Erasure(w) == EraseUser(w) \/ \E u \in Users : EraseUserStart(w, u)

Next ==
    \/ \E w \in Workers : Sessions(w) \/ Passwords(w) \/ TwoFactor(w) \/ Erasure(w) \/ Abort(w)
    \/ \E r \in Rows : ExpireRow(r)
    \/ \E p \in Resets : ExpireReset(p)
    \/ \E u \in Users : ExpireAccess(u)

Spec == Init /\ [][Next]_vars

-----------------------------------------------------------------------------
(* Properties.                                                             *)

\* One account per address, however registrations overlap: the check at
\* auth_service.py:60 is made before the insert, the index decides.
EmailsAreUnique ==
    \A u, v \in Users : Active(u) /\ Active(v) /\ EmailOf[u] = EmailOf[v] => u = v

\* An erasure leaves no refresh token behind, as long as it overlaps nothing:
\* no foreign key keeps a login or a refresh in flight from adding one.
RowsHaveAccounts ==
    "erase" \in regime.alone =>
        \A r \in Rows : rows[r].status \in {"active", "revoked", "expired"} =>
            Active(rows[r].user)

AccountsAreConsistent == TypeOK /\ EmailsAreUnique /\ RowsHaveAccounts

\* "Revoke all sessions on password change" (auth_service.py:147, 200): a
\* session that can be prolonged was opened with the password that is stored,
\* whether a change or a reset set it; the only exception are sessions which
\* a request in flight during the change opened or prolonged.
SessionsFollowPassword ==
    \A r \in Rows :
        rows[r].status = "active" =>
            rows[r].late \/ rows[r].password = users[rows[r].user].password

\* "Revoke all refresh tokens (logout from all devices)" (auth_service.py:140):
\* what a logout or a new password has ended stays ended, through any chain of
\* rotations, as long as refreshes overlap nothing.
EndedSessionsStayEnded ==
    "refresh" \in regime.alone =>
        \A r \in Rows : rows[r].status = "active" => rows[r].login \notin ended

\* "Refresh token rotation" (auth_service.py:118) and "single use"
\* (api/v1/auth.py:83): a refresh token is exchanged once and a reset token
\* sets one password, as long as neither request overlaps another.
TokensWorkOnce ==
    {"refresh", "confirm"} \subseteq regime.alone =>
        /\ \A r \in Rows : Cardinality(rows[r].children) <= 1
        /\ \A p \in Resets : resets[p].uses <= 1

\* The factor is turned on with a code of the secret that is stored from then
\* on, as long as a setup overlaps nothing (auth_service.py:160).
FactorStartsVerified ==
    [][ "setup" \in regime.alone =>
        \A u \in Users :
            users'[u].enabled /\ users'[u].verified # users[u].verified =>
                users'[u].secret = users'[u].verified ]_vars
=============================================================================
