------------------------------ MODULE OpusAuth ------------------------------
(***************************************************************************)
(* Accounts, sessions, password resets and TOTP enrolment of the           *)
(* Claude_Opus4.8 VaultNote server: services/auth_service.py with          *)
(* repositories/user_repo.py and the get_current_user dependency.          *)
(*                                                                         *)
(* The database is SQLite in WAL mode (db/session.py): a SELECT runs in    *)
(* autocommit and sees the last commit; the first INSERT, UPDATE or DELETE *)
(* of a request takes the single write lock, which is held until the       *)
(* request commits or rolls back.  So a request is some reading steps,     *)
(* each atomic and with other requests between them, and one writing step. *)
(* What a request read stays in its ORM objects (requests[w].row): the     *)
(* writing step computes with those old values, and an UPDATE of an ORM    *)
(* object writes only the columns that differ from what was loaded.        *)
(***************************************************************************)
EXTENDS Naturals

CONSTANTS
    Users,            \* ids of rows of table users
    EmailOf,          \* the login e-mail of each id
    Passwords,        \* passwords clients may present or choose
    Secrets,          \* TOTP secrets generate_totp_secret may return
    Sids,             \* ids of rows of table sessions
    Rids,             \* ids of rows of table password_resets
    Workers,          \* requests that can be in flight together
    None,             \* SQL NULL, Python None
    MaxFailedLogins,  \* settings.max_failed_logins
    MaxEpoch,         \* bound of the model on token_epoch
    Workload          \* the operations clients issue

AuthedOps == {"logout", "logout_all", "change_password", "begin_totp",
              "confirm_totp", "disable_totp", "erase"}
Ops == AuthedOps \cup {"register", "login", "refresh", "request_reset",
                       "confirm_reset", "redeploy"}

ASSUME ConstantsAssumption ==
    /\ None \notin Users \cup Passwords \cup Secrets \cup Sids \cup Rids \cup Ops
    /\ MaxFailedLogins \in Nat \ {0}
    /\ MaxEpoch \in Nat
    /\ Workload \subseteq Ops

VARIABLES
    accounts,   \* table users
    sessions,   \* table sessions, with the ghost fields parent, born, proof
    resets,     \* table password_resets, with the ghost field uses
    requests,   \* what each in-flight request has done and read
    history     \* ghost: what clients were told about each account

vars == <<accounts, sessions, resets, requests, history>>

-----------------------------------------------------------------------------
(* Rows.                                                                   *)

\* A row of users.  "legacy" says the hash was made with Argon2 parameters
\* that have been strengthened since; "locked" is locked_until compared with
\* the clock: NULL, in the future, or in the past.
Account == [status   : {"absent", "active", "erased"},
            password : Passwords \cup {None},
            legacy   : BOOLEAN,
            failed   : 0 .. MaxFailedLogins - 1,
            locked   : {"no", "yes", "lapsed"},
            epoch    : 0 .. MaxEpoch,
            secret   : Secrets \cup {None},
            totp     : BOOLEAN]

NoAccount == [status |-> "absent", password |-> None, legacy |-> FALSE,
              failed |-> 0, locked |-> "no", epoch |-> 0,
              secret |-> None, totp |-> FALSE]

\* A row of sessions.  "lapsed" is unrevoked but past expires_at; "gone" is a
\* row deleted with its user.  parent is the session a refresh rotated, born
\* the user's token_epoch when the row was inserted, proof the token_epoch
\* when the request read the credential it was issued for.
Session == [status : {"unused", "live", "lapsed", "revoked", "gone"},
            user   : Users \cup {None},
            parent : Sids \cup {None},
            born   : 0 .. MaxEpoch,
            proof  : 0 .. MaxEpoch]

NoSession == [status |-> "unused", user |-> None, parent |-> None,
              born |-> 0, proof |-> 0]

Reset == [status : {"unused", "valid", "lapsed", "used", "gone"},
          user   : Users \cup {None},
          uses   : 0 .. 2]

NoReset == [status |-> "unused", user |-> None, uses |-> 0]

\* An in-flight request: "authenticated" after get_current_user accepted its
\* session, "checked" after the service read the rows it decides on, "refused"
\* a login whose password is right and whose TOTP code is wrong.
Request == [stage : {"idle", "authenticated", "checked", "refused"},
            op    : Ops \cup {None},
            user  : Users \cup {None},
            sid   : Sids \cup {None},
            rid   : Rids \cup {None},
            pw    : Passwords \cup {None},
            row   : Account]

Idle == [stage |-> "idle", op |-> None, user |-> None, sid |-> None,
         rid |-> None, pw |-> None, row |-> NoAccount]

\* What a client may count on: the last password it was told is set, the last
\* TOTP secret whose code was verified, and since the last lock or successful
\* login how many logins were answered "invalid credentials" for whatever reason
\* (refusals) and how many of them for a wrong password (strikes), each
\* saturating at MaxFailedLogins.
History == [chosen   : Passwords \cup {None},
            verified : Secrets \cup {None},
            strikes  : 0 .. MaxFailedLogins,
            refusals : 0 .. MaxFailedLogins]

NoHistory == [chosen |-> None, verified |-> None, strikes |-> 0, refusals |-> 0]

\* One more.
OneMore(count) == IF count < MaxFailedLogins THEN count + 1 ELSE count

TypeOK ==
    /\ accounts \in [Users -> Account]
    /\ sessions \in [Sids -> Session]
    /\ resets   \in [Rids -> Reset]
    /\ requests \in [Workers -> Request]
    /\ history  \in [Users -> History]

Init ==
    /\ accounts = [u \in Users |-> NoAccount]
    /\ sessions = [s \in Sids |-> NoSession]
    /\ resets   = [r \in Rids |-> NoReset]
    /\ requests = [w \in Workers |-> Idle]
    /\ history  = [u \in Users |-> NoHistory]

-----------------------------------------------------------------------------
(* Queries and updates shared by the handlers.  A definition Bad... is a    *)
(* plausible mistake in the definition that follows it; no specification   *)
(* uses it, it is there to show that the properties notice the mistake.    *)

Active(u) == accounts[u].status = "active"

EmailTaken(e) == \E u \in Users : Active(u) /\ EmailOf[u] = e

\* Rows that exist in the table and are not marked revoked.
Unrevoked(s) == sessions[s].status \in {"live", "lapsed"}

Start(w, request) ==
    /\ requests[w] = Idle
    /\ request.op \in Workload
    /\ requests' = [requests EXCEPT ![w] = request]

\* The request has left the given stage: w read on, keeping row and argument.
Checked(w, row, pw) ==
    requests' = [requests EXCEPT ![w] =
                    [@ EXCEPT !.stage = "checked", !.row = row, !.pw = pw]]

Finish(w) == requests' = [requests EXCEPT ![w] = Idle]

At(w, op, stage) == requests[w].op = op /\ requests[w].stage = stage

\* verify_password: Argon2 accepts exactly the password that was hashed.
Verifies(pw, row) == pw = row.password

\* login refuses while locked_until is in the future.
LockedOut(row) == row.locked = "yes"

\* register_failed_login: this failure reaches max_failures.
BadTrips(row) == row.failed + 1 > MaxFailedLogins
Trips(row) == row.failed + 1 >= MaxFailedLogins

\* users.email has a unique index; sessions and password_resets reference
\* users with foreign keys, which PRAGMA foreign_keys=ON enforces.
BadUniqueEmail(u) == TRUE
UniqueEmail(u) == ~EmailTaken(EmailOf[u])
BadForeignKey(u) == TRUE
ForeignKey(u) == Active(u)

\* SessionRepository.revoke: UPDATE by primary key, whatever the row holds.
BadRevoked(s) == sessions[s]
BadRevokedIfLive(s) ==
    IF sessions[s].status = "live"
    THEN [sessions[s] EXCEPT !.status = "revoked"] ELSE sessions[s]
Revoked(s) == [sessions[s] EXCEPT !.status = "revoked"]

\* revoke_all_for_user: UPDATE sessions SET revoked_at WHERE user_id AND
\* revoked_at IS NULL.
BadRevokedAllOf(u) ==
    [s \in Sids |->
        IF sessions[s].user = u /\ sessions[s].status = "live"
        THEN Revoked(s) ELSE sessions[s]]
BadRevokedNoneOf(u) == sessions
RevokedAllOf(u) ==
    [s \in Sids |->
        IF sessions[s].user = u /\ Unrevoked(s) THEN Revoked(s) ELSE sessions[s]]

\* PasswordResetRepository.mark_used.
MarkedUsed(r) ==
    [resets[r] EXCEPT !.status = "used", !.uses = IF @ < 2 THEN @ + 1 ELSE @]

\* The row _issue_session inserts.
Issued(u, parent, proof) ==
    [status |-> "live", user |-> u, parent |-> parent,
     born |-> accounts[u].epoch, proof |-> proof]

\* An ORM flush writes a column only when its new value differs from the one
\* the object was loaded with; otherwise the stored value stays.
Written(loaded, new, stored) == IF new = loaded THEN stored ELSE new

-----------------------------------------------------------------------------
(* Registration and login.                                                 *)

RegisterRead(w, u, pw) ==
    /\ accounts[u].status = "absent"
    /\ ~EmailTaken(EmailOf[u])
    /\ Start(w, [Idle EXCEPT !.stage = "checked", !.op = "register",
                             !.user = u, !.pw = pw])
    /\ UNCHANGED <<accounts, sessions, resets, history>>

\* The unique index ix_users_email makes the INSERT fail if another request
\* registered the address since the read.
RegisterCommit(w, s) ==
    LET u == requests[w].user IN
    /\ At(w, "register", "checked")
    /\ accounts[u].status = "absent"
    /\ UniqueEmail(u)
    /\ sessions[s].status = "unused"
    /\ accounts' = [accounts EXCEPT ![u] = [NoAccount EXCEPT
                        !.status = "active", !.password = requests[w].pw]]
    /\ sessions' = [sessions EXCEPT ![s] = Issued(u, None, 0)]
    /\ history'  = [history EXCEPT ![u] =
                        [NoHistory EXCEPT !.chosen = requests[w].pw]]
    /\ Finish(w)
    /\ UNCHANGED resets

\* verify_totp, asked only after the password was accepted (a code is
\* identified with the secret it was made from).
WrongCode(pw, code, row) == Verifies(pw, row) /\ row.totp /\ code # row.secret

\* Reads the user, refuses a locked account, verifies the password and, when
\* TOTP is enabled, the code.  A login that brings no code where one is required
\* is answered TwoFactorRequiredError and writes nothing: it is not a step.
LoginRead(w, u, pw, code) ==
    LET row == accounts[u] IN
    /\ Active(u)
    /\ ~LockedOut(row)
    /\ Verifies(pw, row) /\ row.totp => code # None
    /\ Start(w, [Idle EXCEPT !.stage = IF WrongCode(pw, code, row)
                                       THEN "refused" ELSE "checked",
                             !.op = "login", !.user = u, !.pw = pw, !.row = row])
    /\ UNCHANGED <<accounts, sessions, resets, history>>

\* The wrong code is audited (OpusAudit) and answered "invalid credentials", as
\* a wrong password is, but register_failed_login is not called: the account
\* neither counts this failure nor forgets those it counted.
LoginRefused(w) ==
    LET u == requests[w].user IN
    /\ At(w, "login", "refused")
    /\ history' = [history EXCEPT ![u].refusals = IF Active(u) THEN OneMore(@) ELSE @]
    /\ Finish(w)
    /\ UNCHANGED <<accounts, sessions, resets>>

\* register_failed_login: what is stored after counting from the loaded row.
Counted(row, stored) ==
    LET left == IF Trips(row) THEN 0 ELSE row.failed + 1 IN
    [stored EXCEPT !.failed = Written(row.failed, left, @),
                   !.locked = IF Trips(row) THEN "yes" ELSE @]

LoginFailed(w) ==
    LET u    == requests[w].user
        row  == requests[w].row
    IN
    /\ At(w, "login", "checked")
    /\ ~Verifies(requests[w].pw, row)
    /\ Active(u)
    /\ accounts' = [accounts EXCEPT ![u] = Counted(row, @)]
    /\ history'  = [history EXCEPT
                        ![u].strikes  = IF Trips(row) THEN 0 ELSE OneMore(@),
                        ![u].refusals = IF Trips(row) THEN 0 ELSE OneMore(@)]
    /\ Finish(w)
    /\ UNCHANGED <<sessions, resets>>

\* reset_failed_login and the opportunistic rehash of the presented password.
Admitted(row, stored, pw) ==
    [stored EXCEPT !.failed   = Written(row.failed, 0, @),
                   !.locked   = Written(row.locked, "no", @),
                   !.password = IF row.legacy THEN pw ELSE @,
                   !.legacy   = IF row.legacy THEN FALSE ELSE @]

\* The same transaction inserts the session.
LoginSucceeded(w, s) ==
    LET u   == requests[w].user
        row == requests[w].row
    IN
    /\ At(w, "login", "checked")
    /\ Verifies(requests[w].pw, row)
    /\ ForeignKey(u)
    /\ sessions[s].status = "unused"
    /\ accounts' = [accounts EXCEPT ![u] = Admitted(row, @, requests[w].pw)]
    /\ sessions' = [sessions EXCEPT ![s] = Issued(u, None, row.epoch)]
    /\ history'  = [history EXCEPT ![u].strikes = 0, ![u].refusals = 0]
    /\ Finish(w)
    /\ UNCHANGED resets

-----------------------------------------------------------------------------
(* Sessions: refresh-token rotation, get_current_user, logout.             *)

RefreshRead(w, s) ==
    LET u == sessions[s].user IN
    /\ sessions[s].status = "live"
    /\ Active(u)
    /\ Start(w, [Idle EXCEPT !.stage = "checked", !.op = "refresh",
                             !.user = u, !.sid = s, !.row = accounts[u]])
    /\ UNCHANGED <<accounts, sessions, resets, history>>

\* UPDATE ... SET revoked_at WHERE id: the row only has to exist, it is not
\* required to be unrevoked still.
RefreshCommit(w, t) ==
    LET u == requests[w].user
        s == requests[w].sid
    IN
    /\ At(w, "refresh", "checked")
    /\ sessions[s].status # "gone"
    /\ ForeignKey(u)
    /\ sessions[t].status = "unused"
    /\ sessions' = [sessions EXCEPT
                        ![s] = Revoked(s),
                        ![t] = Issued(u, s, requests[w].row.epoch)]
    /\ Finish(w)
    /\ UNCHANGED <<accounts, resets, history>>

\* get_current_user: the access token names its session, whose row must be
\* unrevoked and unexpired and whose user must exist.
Authenticate(w, op, s) ==
    /\ op \in AuthedOps
    /\ sessions[s].status = "live"
    /\ Active(sessions[s].user)
    /\ Start(w, [Idle EXCEPT !.stage = "authenticated", !.op = op,
                             !.user = sessions[s].user, !.sid = s])
    /\ UNCHANGED <<accounts, sessions, resets, history>>

\* The session is read again; if the row is gone only the audit is written.
Logout(w) ==
    LET s == requests[w].sid IN
    /\ At(w, "logout", "authenticated")
    /\ sessions' = [sessions EXCEPT ![s] =
                        IF @.status = "gone" THEN @ ELSE Revoked(s)]
    /\ Finish(w)
    /\ UNCHANGED <<accounts, resets, history>>

\* Both UPDATEs match no row once the user has been erased.
LogoutAll(w) ==
    LET u == requests[w].user IN
    /\ At(w, "logout_all", "authenticated")
    /\ accounts[u].epoch < MaxEpoch
    /\ sessions' = RevokedAllOf(u)
    /\ accounts' = [accounts EXCEPT ![u].epoch = IF Active(u) THEN @ + 1 ELSE @]
    /\ Finish(w)
    /\ UNCHANGED <<resets, history>>

-----------------------------------------------------------------------------
(* Password change and reset.                                              *)

ChangePasswordRead(w, current, new) ==
    LET u == requests[w].user IN
    /\ At(w, "change_password", "authenticated")
    /\ Active(u)
    /\ Verifies(current, accounts[u])
    /\ Checked(w, accounts[u], new)
    /\ UNCHANGED <<accounts, sessions, resets, history>>

\* The new hash has a fresh salt, so it is always written; then
\* revoke_all_for_user and bump_token_epoch in the same transaction.
Rekeyed(stored, new) ==
    [stored EXCEPT !.password = new, !.legacy = FALSE, !.epoch = @ + 1]

PasswordReplaced(u, new) ==
    /\ accounts[u].epoch < MaxEpoch
    /\ accounts' = [accounts EXCEPT ![u] = Rekeyed(@, new)]
    /\ sessions' = RevokedAllOf(u)
    /\ history'  = [history EXCEPT ![u].chosen = new]

ChangePasswordCommit(w) ==
    /\ At(w, "change_password", "checked")
    /\ Active(requests[w].user)
    /\ PasswordReplaced(requests[w].user, requests[w].pw)
    /\ Finish(w)
    /\ UNCHANGED resets

RequestResetRead(w, u) ==
    /\ Active(u)
    /\ Start(w, [Idle EXCEPT !.stage = "checked", !.op = "request_reset",
                             !.user = u, !.row = accounts[u]])
    /\ UNCHANGED <<accounts, sessions, resets, history>>

\* The INSERT needs the user row the foreign key names.
RequestResetCommit(w, r) ==
    LET u == requests[w].user IN
    /\ At(w, "request_reset", "checked")
    /\ ForeignKey(u)
    /\ resets[r].status = "unused"
    /\ resets' = [resets EXCEPT ![r] = [NoReset EXCEPT
                        !.status = "valid", !.user = u]]
    /\ Finish(w)
    /\ UNCHANGED <<accounts, sessions, history>>

ConfirmResetRead(w, r, new) ==
    LET u == resets[r].user IN
    /\ resets[r].status = "valid"
    /\ Active(u)
    /\ Start(w, [Idle EXCEPT !.stage = "checked", !.op = "confirm_reset",
                             !.user = u, !.rid = r, !.pw = new,
                             !.row = accounts[u]])
    /\ UNCHANGED <<accounts, sessions, resets, history>>

\* mark_used is an UPDATE by primary key: the row only has to exist.
ConfirmResetCommit(w) ==
    LET r == requests[w].rid IN
    /\ At(w, "confirm_reset", "checked")
    /\ resets[r].status # "gone"
    /\ Active(requests[w].user)
    /\ PasswordReplaced(requests[w].user, requests[w].pw)
    /\ resets' = [resets EXCEPT ![r] = MarkedUsed(r)]
    /\ Finish(w)

-----------------------------------------------------------------------------
(* TOTP enrolment.                                                         *)

TotpRead(w, op) ==
    LET u == requests[w].user IN
    /\ At(w, op, "authenticated")
    /\ Active(u)
    /\ Checked(w, accounts[u], None)
    /\ UNCHANGED <<accounts, sessions, resets, history>>

BeginTotpRead(w) == TotpRead(w, "begin_totp")

\* totp_enabled = False is written only if it was loaded as True.
BadEnrolled(row, stored, secret) == [stored EXCEPT !.secret = secret]
Enrolled(row, stored, secret) ==
    [stored EXCEPT !.secret = secret, !.totp = Written(row.totp, FALSE, @)]

BeginTotpCommit(w, secret) ==
    LET u == requests[w].user IN
    /\ At(w, "begin_totp", "checked")
    /\ Active(u)
    /\ accounts' = [accounts EXCEPT ![u] = Enrolled(requests[w].row, @, secret)]
    /\ Finish(w)
    /\ UNCHANGED <<sessions, resets, history>>

ConfirmTotpRead(w, code) ==
    LET u == requests[w].user IN
    /\ TotpRead(w, "confirm_totp")
    /\ accounts[u].secret # None
    /\ code = accounts[u].secret

ConfirmTotpCommit(w) ==
    LET u   == requests[w].user
        row == requests[w].row
    IN
    /\ At(w, "confirm_totp", "checked")
    /\ Active(u)
    /\ accounts' = [accounts EXCEPT ![u].totp = Written(row.totp, TRUE, @)]
    /\ history'  = [history EXCEPT ![u].verified = row.secret]
    /\ Finish(w)
    /\ UNCHANGED <<sessions, resets>>

DisableTotpRead(w, code) ==
    LET u == requests[w].user IN
    /\ TotpRead(w, "disable_totp")
    /\ accounts[u].totp
    /\ code = accounts[u].secret

Unenrolled(row, stored) ==
    [stored EXCEPT !.totp = Written(row.totp, FALSE, @),
                   !.secret = Written(row.secret, None, @)]

DisableTotpCommit(w) ==
    LET u   == requests[w].user
        row == requests[w].row
    IN
    /\ At(w, "disable_totp", "checked")
    /\ Active(u)
    /\ accounts' = [accounts EXCEPT ![u] = Unenrolled(row, @)]
    /\ Finish(w)
    /\ UNCHANGED <<sessions, resets, history>>

-----------------------------------------------------------------------------
(* Erasure (compliance_service.erase_user), time, failure.                 *)

\* DELETE FROM users cascades to sessions and password_resets.
Erase(w) ==
    LET u == requests[w].user IN
    /\ At(w, "erase", "authenticated")
    /\ Active(u)
    /\ accounts' = [accounts EXCEPT ![u] = [NoAccount EXCEPT !.status = "erased"]]
    /\ sessions' = [s \in Sids |->
                        IF sessions[s].user = u
                        THEN [sessions[s] EXCEPT !.status = "gone"]
                        ELSE sessions[s]]
    /\ resets'   = [r \in Rids |->
                        IF resets[r].user = u
                        THEN [resets[r] EXCEPT !.status = "gone"]
                        ELSE resets[r]]
    /\ history'  = [history EXCEPT ![u] = NoHistory]
    /\ Finish(w)

LapseSession(s) ==
    /\ sessions[s].status = "live"
    /\ sessions' = [sessions EXCEPT ![s].status = "lapsed"]
    /\ UNCHANGED <<accounts, resets, requests, history>>

LapseReset(r) ==
    /\ resets[r].status = "valid"
    /\ resets' = [resets EXCEPT ![r].status = "lapsed"]
    /\ UNCHANGED <<accounts, sessions, requests, history>>

LapseLock(u) ==
    /\ accounts[u].locked = "yes"
    /\ accounts' = [accounts EXCEPT ![u].locked = "lapsed"]
    /\ UNCHANGED <<sessions, resets, requests, history>>

\* A request ends without a commit: a check it made fails, the database
\* refuses its write, or its client or the process goes away.
Abort(w) ==
    /\ requests[w] # Idle
    /\ Finish(w)
    /\ UNCHANGED <<accounts, sessions, resets, history>>

\* A restart with stronger Argon2 parameters: every request in flight is lost
\* and needs_rehash becomes true of every stored hash.
Redeploy ==
    /\ "redeploy" \in Workload
    /\ accounts' = [u \in Users |->
                        IF Active(u) THEN [accounts[u] EXCEPT !.legacy = TRUE]
                        ELSE accounts[u]]
    /\ requests' = [w \in Workers |-> Idle]
    /\ UNCHANGED <<sessions, resets, history>>

-----------------------------------------------------------------------------
Step(w) ==
    \/ \E u \in Users, pw \in Passwords : RegisterRead(w, u, pw)
    \/ \E s \in Sids : RegisterCommit(w, s)
    \/ \E u \in Users, pw \in Passwords, code \in Secrets \cup {None} :
            LoginRead(w, u, pw, code)
    \/ LoginRefused(w)
    \/ LoginFailed(w)
    \/ \E s \in Sids : LoginSucceeded(w, s)
    \/ \E s \in Sids : RefreshRead(w, s)
    \/ \E s \in Sids : RefreshCommit(w, s)
    \/ \E op \in AuthedOps, s \in Sids : Authenticate(w, op, s)
    \/ Logout(w)
    \/ LogoutAll(w)
    \/ \E current, new \in Passwords : ChangePasswordRead(w, current, new)
    \/ ChangePasswordCommit(w)
    \/ \E u \in Users : RequestResetRead(w, u)
    \/ \E r \in Rids : RequestResetCommit(w, r)
    \/ \E r \in Rids, new \in Passwords : ConfirmResetRead(w, r, new)
    \/ ConfirmResetCommit(w)
    \/ BeginTotpRead(w)
    \/ \E secret \in Secrets : BeginTotpCommit(w, secret)
    \/ \E code \in Secrets : ConfirmTotpRead(w, code)
    \/ ConfirmTotpCommit(w)
    \/ \E code \in Secrets : DisableTotpRead(w, code)
    \/ DisableTotpCommit(w)
    \/ Erase(w)
    \/ Abort(w)

Clock ==
    \/ \E s \in Sids : LapseSession(s)
    \/ \E r \in Rids : LapseReset(r)
    \/ \E u \in Users : LapseLock(u)

Next == (\E w \in Workers : Step(w)) \/ Clock \/ Redeploy

Spec == Init /\ [][Next]_vars

-----------------------------------------------------------------------------
(* Properties that hold however requests interleave.                       *)

\* Revocation and token_epoch never part: while a session of a user is
\* unrevoked, the user's epoch is the one the session was inserted under, so
\* every transaction that bumps the epoch (logout_all, change_password,
\* confirm_password_reset) also revoked every session there was.
EpochAgreesWithRevocation ==
    \A s \in Sids : Unrevoked(s) =>
        sessions[s].born = accounts[sessions[s].user].epoch

\* A session a refresh rotated stays dead whatever raced the rotation, and its
\* successor belongs to the same user.
RotatedParentsStayDead ==
    \A s \in Sids : sessions[s].parent # None =>
        LET p == sessions[s].parent IN
        /\ sessions[p].status \in {"revoked", "gone"}
        /\ sessions[p].user = sessions[s].user

\* Erasure leaves nothing behind, even when logins, refreshes and reset
\* requests of the user were in flight: every stored session and reset
\* belongs to an existing account.
NoRowOutlivesItsUser ==
    /\ \A s \in Sids : sessions[s].status \notin {"unused", "gone"} =>
            Active(sessions[s].user)
    /\ \A r \in Rids : resets[r].status \notin {"unused", "gone"} =>
            Active(resets[r].user)

\* At most one account holds an e-mail address, also when two registrations
\* both saw the address free.
OneAccountPerEmail ==
    \A u, v \in Users : Active(u) /\ Active(v) /\ EmailOf[u] = EmailOf[v] => u = v

-----------------------------------------------------------------------------
(* Properties of requests that do not overlap; the code's documentation    *)
(* states them without that condition.                                     *)

\* "Invalidate all sessions on credential change": every live session was
\* issued for a credential read in the current epoch.
SessionsFollowCredentials ==
    \A s \in Sids : sessions[s].status = "live" =>
        sessions[s].proof = accounts[sessions[s].user].epoch

\* "Reusing the original (now rotated) refresh token must fail": a session is
\* rotated into at most one successor.
RotatedOnce ==
    \A s, t \in Sids :
        sessions[s].parent = sessions[t].parent /\ sessions[s].parent # None => s = t

\* "Opaque single-use secrets (password reset, share links)": a refresh token
\* is exchanged once and a reset token sets a password once.
TokensWorkOnce == RotatedOnce /\ \A r \in Rids : resets[r].uses <= 1

\* "Opportunistic rehash on login" re-encodes a password, it never replaces
\* it: the stored password is the last one a client was told is set.
StoredPasswordIsChosen ==
    \A u \in Users : Active(u) => accounts[u].password = history[u].chosen

\* "Per-account lockout after N failures", as far as login keeps it: N wrong
\* passwords are never refused without the account having been locked, whatever
\* else happens between them short of a successful login: a login refused for a
\* wrong TOTP code is not counted, and does not clear the count either.
WrongPasswordsLockAccount ==
    \A u \in Users : history[u].strikes < MaxFailedLogins

\* The same of every failed login, as the documentation has it.  It does not
\* hold: wrong codes after the right password are refused without end.
FailedLoginsLockAccount ==
    \A u \in Users : history[u].refusals < MaxFailedLogins

\* "not yet enabled until verified": TOTP is required only with a secret whose
\* code the user has shown.
EnabledSecretWasVerified ==
    \A u \in Users : accounts[u].totp =>
        /\ accounts[u].secret # None
        /\ accounts[u].secret = history[u].verified

\* The rows are well formed, and what protects an account is what its user was
\* told protects it.
CredentialsAreTheUsers ==
    TypeOK /\ StoredPasswordIsChosen /\ EnabledSecretWasVerified

=============================================================================
