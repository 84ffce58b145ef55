--------------------------- MODULE OpusAuthProofs ---------------------------
(***************************************************************************)
(* Theorems of OpusAuth, for every number of users, sessions, resets and   *)
(* concurrent requests and every value of the bounds.                      *)
(***************************************************************************)
EXTENDS OpusAuth, TLAPS

-----------------------------------------------------------------------------
(* The inductive invariant.                                                *)

\* The rows a request holds ids of are in the tables and belong to its user.
NamesRows(q) ==
    /\ q.stage # "idle" => q.user \in Users
    /\ q.sid # None => /\ sessions[q.sid].status # "unused"
                       /\ sessions[q.sid].user = q.user
    /\ q.rid # None => /\ resets[q.rid].status # "unused"
                       /\ resets[q.rid].user = q.user
    /\ (q.stage = "authenticated" \/ q.op = "refresh") => q.sid # None
    /\ q.op = "confirm_reset" => q.rid # None

RequestsNameRows == \A w \in Workers : NamesRows(requests[w])

\* A stored row has an owner, and an account starts in epoch 0.
RowsHaveOwners ==
    /\ \A s \in Sids : sessions[s].status # "unused" => sessions[s].user \in Users
    /\ \A r \in Rids : resets[r].status # "unused" => resets[r].user \in Users
    /\ \A u \in Users : accounts[u].status = "absent" => accounts[u].epoch = 0

IInv ==
    /\ TypeOK
    /\ RequestsNameRows
    /\ RowsHaveOwners
    /\ EpochAgreesWithRevocation
    /\ RotatedParentsStayDead
    /\ NoRowOutlivesItsUser
    /\ OneAccountPerEmail

LEMMA InitIInv == Init => IInv
<1> SUFFICES ASSUME Init PROVE IInv
  OBVIOUS
<1> USE ConstantsAssumption DEF Init
<1>1. TypeOK
  <2>1. NoAccount \in Account
    BY DEF NoAccount, Account
  <2>2. NoSession \in Session
    BY DEF NoSession, Session
  <2>3. NoReset \in Reset
    BY DEF NoReset, Reset
  <2>4. Idle \in Request
    BY <2>1 DEF Idle, Request
  <2>5. NoHistory \in History
    BY DEF NoHistory, History
  <2> QED
    BY <2>1, <2>2, <2>3, <2>4, <2>5 DEF TypeOK
<1>2. RequestsNameRows
  BY DEF RequestsNameRows, NamesRows, Idle, Ops, AuthedOps
<1>3. RowsHaveOwners
  BY DEF RowsHaveOwners, NoSession, NoReset, NoAccount
<1>4. EpochAgreesWithRevocation /\ RotatedParentsStayDead
  BY DEF EpochAgreesWithRevocation, RotatedParentsStayDead, Unrevoked, NoSession
<1>5. NoRowOutlivesItsUser /\ OneAccountPerEmail
  BY DEF NoRowOutlivesItsUser, OneAccountPerEmail, Active, NoSession, NoReset,
         NoAccount
<1> QED
  BY <1>1, <1>2, <1>3, <1>4, <1>5 DEF IInv

-----------------------------------------------------------------------------
(* Steps that only read: one request changes, the tables do not.           *)

LEMMA NoAccountIsAccount == NoAccount \in Account
  BY ConstantsAssumption DEF NoAccount, Account

LEMMA IdleIsRequest == Idle \in Request /\ NamesRows(Idle) /\ NamesRows(Idle)'
  BY ConstantsAssumption
  DEF Idle, Request, NamesRows, NoAccount, Account, Ops, AuthedOps

LEMMA ReadingStep ==
    ASSUME IInv, NEW w \in Workers, NEW q \in Request, NamesRows(q),
           requests' = [requests EXCEPT ![w] = q],
           UNCHANGED <<accounts, sessions, resets, history>>
    PROVE  IInv'
<1>1. TypeOK'
  BY DEF IInv, TypeOK
<1>2. RequestsNameRows'
  BY DEF IInv, TypeOK, RequestsNameRows, NamesRows
<1>3. RowsHaveOwners'
  BY DEF IInv, RowsHaveOwners
<1>4. EpochAgreesWithRevocation' /\ RotatedParentsStayDead'
  BY DEF IInv, EpochAgreesWithRevocation, RotatedParentsStayDead, Unrevoked
<1>5. NoRowOutlivesItsUser' /\ OneAccountPerEmail'
  BY DEF IInv, NoRowOutlivesItsUser, OneAccountPerEmail, Active
<1> QED
  BY <1>1, <1>2, <1>3, <1>4, <1>5 DEF IInv

\* A request is admitted only while the worker is free.
LEMMA StartedRequest ==
    ASSUME IInv, NEW w \in Workers, NEW q \in Request, NamesRows(q),
           Start(w, q), UNCHANGED <<accounts, sessions, resets, history>>
    PROVE  IInv'
  BY ReadingStep DEF Start

LEMMA CheckedRequest ==
    ASSUME IInv, NEW w \in Workers, NEW row \in Account,
           NEW pw \in Passwords \cup {None},
           requests[w].user \in Users,
           Checked(w, row, pw), UNCHANGED <<accounts, sessions, resets, history>>
    PROVE  IInv'
<1> DEFINE q == [requests[w] EXCEPT !.stage = "checked", !.row = row, !.pw = pw]
<1>1. q \in Request
  BY DEF IInv, TypeOK, Request
<1>2. NamesRows(q)
  BY DEF IInv, TypeOK, RequestsNameRows, NamesRows, Request
<1> QED
  BY <1>1, <1>2, ReadingStep DEF Checked

LEMMA ReadingSteps ==
    ASSUME IInv, NEW w \in Workers,
           \/ \E u \in Users, pw \in Passwords : RegisterRead(w, u, pw)
           \/ \E u \in Users, pw \in Passwords, code \in Secrets \cup {None} :
                    LoginRead(w, u, pw, code)
           \/ \E s \in Sids : RefreshRead(w, s)
           \/ \E op \in AuthedOps, s \in Sids : Authenticate(w, op, s)
           \/ \E current, new \in Passwords : ChangePasswordRead(w, current, new)
           \/ \E u \in Users : RequestResetRead(w, u)
           \/ \E r \in Rids, new \in Passwords : ConfirmResetRead(w, r, new)
           \/ BeginTotpRead(w)
           \/ \E code \in Secrets : ConfirmTotpRead(w, code)
           \/ \E code \in Secrets : DisableTotpRead(w, code)
           \/ Abort(w)
    PROVE  IInv'
<1> USE ConstantsAssumption
<1>0. Idle \in Request /\ NamesRows(Idle)
  BY IdleIsRequest
<1>1. CASE \E u \in Users, pw \in Passwords : RegisterRead(w, u, pw)
  <2> PICK u \in Users, pw \in Passwords : RegisterRead(w, u, pw)
    BY <1>1
  <2> DEFINE q == [Idle EXCEPT !.stage = "checked", !.op = "register",
                               !.user = u, !.pw = pw]
  <2>1. q \in Request /\ NamesRows(q)
    BY <1>0 DEF Idle, Request, NamesRows, Ops, AuthedOps
  <2> QED
    BY <2>1, StartedRequest DEF RegisterRead
<1>2. CASE \E u \in Users, pw \in Passwords, code \in Secrets \cup {None} :
              LoginRead(w, u, pw, code)
  <2> PICK u \in Users, pw \in Passwords, code \in Secrets \cup {None} :
              LoginRead(w, u, pw, code)
    BY <1>2
  <2> DEFINE stage == IF WrongCode(pw, code, accounts[u])
                      THEN "refused" ELSE "checked"
             q == [Idle EXCEPT !.stage = stage, !.op = "login",
                               !.user = u, !.pw = pw, !.row = accounts[u]]
  <2>0. stage \in {"refused", "checked"}
    OBVIOUS
  <2> HIDE DEF stage
  <2>1. q \in Request /\ NamesRows(q)
    BY <1>0, <2>0 DEF Idle, Request, NamesRows, Ops, AuthedOps, IInv, TypeOK
  <2> QED
    BY <2>1, StartedRequest DEF LoginRead, stage
<1>3. CASE \E s \in Sids : RefreshRead(w, s)
  <2> PICK s \in Sids : RefreshRead(w, s)
    BY <1>3
  <2> DEFINE u == sessions[s].user
             q == [Idle EXCEPT !.stage = "checked", !.op = "refresh",
                               !.user = u, !.sid = s, !.row = accounts[u]]
  <2>1. u \in Users /\ sessions[s].status # "unused"
    BY DEF RefreshRead, IInv, RowsHaveOwners
  <2>2. q \in Request /\ NamesRows(q)
    BY <1>0, <2>1 DEF Idle, Request, NamesRows, Ops, AuthedOps, IInv, TypeOK
  <2> QED
    BY <2>2, StartedRequest DEF RefreshRead
<1>4. CASE \E op \in AuthedOps, s \in Sids : Authenticate(w, op, s)
  <2> PICK op \in AuthedOps, s \in Sids : Authenticate(w, op, s)
    BY <1>4
  <2> DEFINE u == sessions[s].user
             q == [Idle EXCEPT !.stage = "authenticated", !.op = op,
                               !.user = u, !.sid = s]
  <2>1. u \in Users /\ sessions[s].status # "unused"
    BY DEF Authenticate, IInv, RowsHaveOwners
  <2>2. q \in Request /\ NamesRows(q)
    BY <1>0, <2>1 DEF Idle, Request, NamesRows, Ops, AuthedOps
  <2> QED
    BY <2>2, StartedRequest DEF Authenticate
<1>5. CASE \E current, new \in Passwords : ChangePasswordRead(w, current, new)
  <2> PICK current \in Passwords, new \in Passwords :
              ChangePasswordRead(w, current, new)
    BY <1>5
  <2>1. requests[w].user \in Users /\ accounts[requests[w].user] \in Account
    BY DEF ChangePasswordRead, At, IInv, RequestsNameRows, NamesRows, TypeOK
  <2> QED
    BY <2>1, CheckedRequest DEF ChangePasswordRead
<1>6. CASE \E u \in Users : RequestResetRead(w, u)
  <2> PICK u \in Users : RequestResetRead(w, u)
    BY <1>6
  <2> DEFINE q == [Idle EXCEPT !.stage = "checked", !.op = "request_reset",
                               !.user = u, !.row = accounts[u]]
  <2>1. q \in Request /\ NamesRows(q)
    BY <1>0 DEF Idle, Request, NamesRows, Ops, AuthedOps, IInv, TypeOK
  <2> QED
    BY <2>1, StartedRequest DEF RequestResetRead
<1>7. CASE \E r \in Rids, new \in Passwords : ConfirmResetRead(w, r, new)
  <2> PICK r \in Rids, new \in Passwords : ConfirmResetRead(w, r, new)
    BY <1>7
  <2> DEFINE u == resets[r].user
             q == [Idle EXCEPT !.stage = "checked", !.op = "confirm_reset",
                               !.user = u, !.rid = r, !.pw = new,
                               !.row = accounts[u]]
  <2>1. u \in Users /\ resets[r].status # "unused"
    BY DEF ConfirmResetRead, IInv, RowsHaveOwners
  <2>2. q \in Request /\ NamesRows(q)
    BY <1>0, <2>1 DEF Idle, Request, NamesRows, Ops, AuthedOps, IInv, TypeOK
  <2> QED
    BY <2>2, StartedRequest DEF ConfirmResetRead
<1>8. CASE \/ BeginTotpRead(w)
           \/ \E code \in Secrets : ConfirmTotpRead(w, code)
           \/ \E code \in Secrets : DisableTotpRead(w, code)
  <2>1. PICK op \in AuthedOps : TotpRead(w, op)
    BY <1>8 DEF BeginTotpRead, ConfirmTotpRead, DisableTotpRead, AuthedOps
  <2>2. requests[w].user \in Users /\ accounts[requests[w].user] \in Account
    BY <2>1 DEF TotpRead, At, IInv, RequestsNameRows, NamesRows, TypeOK
  <2> QED
    BY <2>1, <2>2, CheckedRequest DEF TotpRead
<1>9. CASE Abort(w)
  BY <1>9, <1>0, ReadingStep DEF Abort, Finish
<1> QED
  BY <1>1, <1>2, <1>3, <1>4, <1>5, <1>6, <1>7, <1>8, <1>9

-----------------------------------------------------------------------------
(* Steps that write.                                                       *)

\* Ids stay valid: rows are only marked, never recycled or handed over.
RowsKept ==
    /\ \A s \in Sids : sessions[s].status # "unused" =>
            /\ sessions'[s].status # "unused"
            /\ sessions'[s].user = sessions[s].user
    /\ \A r \in Rids : resets[r].status # "unused" =>
            /\ resets'[r].status # "unused"
            /\ resets'[r].user = resets[r].user

RequestsEnd == /\ requests' \in [Workers -> Request]
               /\ \A w \in Workers : requests'[w] \in {requests[w], Idle}

LEMMA FinishEnds ==
    ASSUME IInv, NEW w \in Workers, Finish(w)
    PROVE  RequestsEnd
  BY IdleIsRequest DEF Finish, RequestsEnd, IInv, TypeOK

LEMMA RequestsStayNamed ==
    ASSUME IInv, RowsKept, RequestsEnd
    PROVE  RequestsNameRows'
<1> SUFFICES ASSUME NEW w \in Workers PROVE NamesRows(requests[w])'
  BY DEF RequestsNameRows
<1>1. CASE requests'[w] = Idle
  BY <1>1, IdleIsRequest DEF NamesRows
<1>2. CASE requests'[w] = requests[w]
  <2>1. requests[w] \in Request /\ NamesRows(requests[w])
    BY DEF IInv, TypeOK, RequestsNameRows
  <2>2. requests[w].sid \in Sids \cup {None} /\ requests[w].rid \in Rids \cup {None}
    BY <2>1 DEF Request
  <2> QED
    BY <1>2, <2>1, <2>2 DEF NamesRows, RowsKept
<1> QED
  BY <1>1, <1>2 DEF RequestsEnd

\* Steps that change only columns of users no property depends on.
LEMMA ColumnStep ==
    ASSUME IInv, RequestsEnd,
           accounts' \in [Users -> Account], history' \in [Users -> History],
           \A u \in Users : /\ accounts'[u].status = accounts[u].status
                            /\ accounts'[u].epoch = accounts[u].epoch,
           UNCHANGED <<sessions, resets>>
    PROVE  IInv'
<1>1. TypeOK'
  BY DEF IInv, TypeOK, RequestsEnd
<1>2. RequestsNameRows'
  BY RequestsStayNamed DEF RowsKept
<1>3. RowsHaveOwners'
  BY DEF IInv, RowsHaveOwners
<1>4. EpochAgreesWithRevocation'
  BY DEF IInv, EpochAgreesWithRevocation, Unrevoked, RowsHaveOwners
<1>5. RotatedParentsStayDead'
  BY DEF IInv, RotatedParentsStayDead
<1>6. NoRowOutlivesItsUser' /\ OneAccountPerEmail'
  BY DEF IInv, NoRowOutlivesItsUser, OneAccountPerEmail, Active, RowsHaveOwners
<1> QED
  BY <1>1, <1>2, <1>3, <1>4, <1>5, <1>6 DEF IInv

LEMMA ColumnWrite ==
    ASSUME IInv, NEW w \in Workers, Finish(w),
           NEW u \in Users, NEW new \in Account,
           accounts' = [accounts EXCEPT ![u] = new],
           new.status = accounts[u].status, new.epoch = accounts[u].epoch,
           history' \in [Users -> History],
           UNCHANGED <<sessions, resets>>
    PROVE  IInv'
<1>1. accounts' \in [Users -> Account]
  BY DEF IInv, TypeOK
<1>2. \A v \in Users : /\ accounts'[v].status = accounts[v].status
                       /\ accounts'[v].epoch = accounts[v].epoch
  BY DEF IInv, TypeOK
<1> QED
  BY <1>1, <1>2, ColumnStep, FinishEnds

LEMMA ColumnSteps ==
    ASSUME IInv, NEW w \in Workers,
           \/ LoginRefused(w)
           \/ LoginFailed(w)
           \/ \E secret \in Secrets : BeginTotpCommit(w, secret)
           \/ ConfirmTotpCommit(w)
           \/ DisableTotpCommit(w)
    PROVE  IInv'
<1> DEFINE u   == requests[w].user
           row == requests[w].row
           old == accounts[u]
<1> USE ConstantsAssumption
<1>1. requests[w] \in Request /\ u \in Users
  BY DEF IInv, TypeOK, RequestsNameRows, NamesRows, LoginRefused, LoginFailed,
         BeginTotpCommit, ConfirmTotpCommit, DisableTotpCommit, At
<1>2. row \in Account /\ old \in Account
  BY <1>1 DEF Request, IInv, TypeOK
<1>3. history \in [Users -> History]
  BY DEF IInv, TypeOK
<1>4. CASE LoginFailed(w)
  <2> DEFINE new == Counted(row, old)
  <2>1. accounts' = [accounts EXCEPT ![u] = new]
    BY <1>4 DEF LoginFailed
  <2>2. new \in Account /\ new.status = old.status /\ new.epoch = old.epoch
    <3> DEFINE left == IF Trips(row) THEN 0 ELSE row.failed + 1
    <3>1. row.failed \in 0 .. MaxFailedLogins - 1
      BY <1>2 DEF Account
    <3>2. left \in 0 .. MaxFailedLogins - 1
      BY <3>1 DEF Trips
    <3>3. Written(row.failed, left, old.failed) \in 0 .. MaxFailedLogins - 1
      BY <1>2, <3>2 DEF Written, Account
    <3>4. (IF Trips(row) THEN "yes" ELSE old.locked) \in {"no", "yes", "lapsed"}
      BY <1>2 DEF Account
    <3>5. new = [old EXCEPT !.failed = Written(row.failed, left, old.failed),
                            !.locked = IF Trips(row) THEN "yes" ELSE old.locked]
      BY <1>2 DEF Counted, Account
    <3> HIDE DEF left, new
    <3> QED
      BY <1>2, <3>3, <3>4, <3>5 DEF Account
  <2>3. history' \in [Users -> History]
    <3>1. \A n \in 0 .. MaxFailedLogins : OneMore(n) \in 0 .. MaxFailedLogins
      BY DEF OneMore
    <3>2. PICK strikes \in 0 .. MaxFailedLogins, refusals \in 0 .. MaxFailedLogins :
              history' = [history EXCEPT ![u].strikes = strikes,
                                         ![u].refusals = refusals]
      <4>1. history[u] \in History
        BY <1>1, <1>3
      <4> QED
        BY SMTT(30), <1>1, <1>3, <1>4, <3>1, <4>1 DEF LoginFailed, History
    <3> QED
      BY <1>1, <1>3, <3>2 DEF History
  <2> HIDE DEF new
  <2> QED
    BY <1>1, <1>4, <2>1, <2>2, <2>3, ColumnWrite DEF LoginFailed
<1>5. CASE \E secret \in Secrets : BeginTotpCommit(w, secret)
  <2> PICK secret \in Secrets : BeginTotpCommit(w, secret)
    BY <1>5
  <2> DEFINE new == Enrolled(row, old, secret)
  <2>1. accounts' = [accounts EXCEPT ![u] = new]
    BY DEF BeginTotpCommit
  <2>2. Written(row.totp, FALSE, old.totp) \in BOOLEAN
    BY <1>2 DEF Written, Account
  <2>3. new \in Account /\ new.status = old.status /\ new.epoch = old.epoch
    <3>1. PICK totp \in BOOLEAN : new = [old EXCEPT !.secret = secret, !.totp = totp]
      BY <2>2 DEF Enrolled
    <3> HIDE DEF new
    <3>2. new \in Account
      BY <1>2, <3>1 DEF Account
    <3> QED
      BY <1>2, <3>1, <3>2 DEF Account
  <2> HIDE DEF new
  <2> QED
    BY <1>1, <1>3, <2>1, <2>3, ColumnWrite DEF BeginTotpCommit
<1>6. CASE ConfirmTotpCommit(w)
  <2> DEFINE new == [old EXCEPT !.totp = Written(row.totp, TRUE, old.totp)]
  <2>1. accounts' = [accounts EXCEPT ![u] = new]
    BY <1>6 DEF ConfirmTotpCommit
  <2>2. Written(row.totp, TRUE, old.totp) \in BOOLEAN
    BY <1>2 DEF Written, Account
  <2>3. new \in Account /\ new.status = old.status /\ new.epoch = old.epoch
    BY <1>2, <2>2 DEF Account
  <2>4. history' \in [Users -> History]
    BY <1>1, <1>2, <1>3, <1>6 DEF ConfirmTotpCommit, History, Account
  <2> HIDE DEF new
  <2> QED
    BY <1>1, <1>6, <2>1, <2>3, <2>4, ColumnWrite DEF ConfirmTotpCommit
<1>7. CASE DisableTotpCommit(w)
  <2> DEFINE new == Unenrolled(row, old)
  <2>1. accounts' = [accounts EXCEPT ![u] = new]
    BY <1>7 DEF DisableTotpCommit
  <2>3. new \in Account /\ new.status = old.status /\ new.epoch = old.epoch
    BY <1>2, ZenonT(40) DEF Unenrolled, Written, Account
  <2> HIDE DEF new
  <2> QED
    BY <1>1, <1>3, <1>7, <2>1, <2>3, ColumnWrite DEF DisableTotpCommit
<1>8. CASE LoginRefused(w)
  <2>1. accounts' = [accounts EXCEPT ![u] = old] /\ Finish(w)
    BY <1>8, <1>1 DEF LoginRefused, IInv, TypeOK
  <2>2. history' \in [Users -> History]
    <3>1. \A n \in 0 .. MaxFailedLogins : OneMore(n) \in 0 .. MaxFailedLogins
      BY DEF OneMore
    <3>2. history[u] \in History
      BY <1>1, <1>3
    <3>3. PICK refusals \in 0 .. MaxFailedLogins :
              history' = [history EXCEPT ![u].refusals = refusals]
      BY <1>1, <1>3, <1>8, <3>1, <3>2 DEF LoginRefused, History
    <3> QED
      BY <1>1, <1>3, <3>3 DEF History
  <2> QED
    BY <1>1, <1>2, <1>8, <2>1, <2>2, ColumnWrite DEF LoginRefused
<1> QED
  BY <1>4, <1>5, <1>6, <1>7, <1>8

-----------------------------------------------------------------------------
(* Steps that write sessions or resets.  Each leaves owners alone, so the  *)
(* parts of the invariant are shown one by one from what the step does to  *)
(* accounts and to the statuses of rows.                                   *)

LEMMA RegisterStep ==
    ASSUME IInv, NEW w \in Workers, NEW t \in Sids, RegisterCommit(w, t)
    PROVE  IInv'
<1> DEFINE u   == requests[w].user
           pw  == requests[w].pw
           new == [NoAccount EXCEPT !.status = "active", !.password = pw]
           row == Issued(u, None, 0)
<1> USE ConstantsAssumption
<1>1. /\ u \in Users /\ pw \in Passwords \cup {None}
      /\ accounts[u].status = "absent" /\ accounts[u].epoch = 0
      /\ sessions[t].status = "unused"
  BY DEF RegisterCommit, At, IInv, RequestsNameRows, NamesRows, TypeOK, Request,
         RowsHaveOwners
<1>2. /\ accounts' = [accounts EXCEPT ![u] = new]
      /\ sessions' = [sessions EXCEPT ![t] = row]
      /\ history' = [history EXCEPT ![u] = [NoHistory EXCEPT !.chosen = pw]]
      /\ resets' = resets
  BY DEF RegisterCommit
<1>3. new \in Account /\ new.status = "active" /\ new.epoch = 0
  <2>1. new \in Account
    BY <1>1, NoAccountIsAccount DEF Account
  <2>2. new.status = "active" /\ new.epoch = 0
    BY DEF NoAccount
  <2> QED
    BY <2>1, <2>2
<1>4. /\ row \in Session /\ row.status = "live" /\ row.user = u
      /\ row.parent = None /\ row.born = 0
  BY <1>1 DEF Issued, Session, IInv, TypeOK, Account
<1> HIDE DEF new, row
<1>5. TypeOK'
  <2>1. [NoHistory EXCEPT !.chosen = pw] \in History
    BY <1>1 DEF NoHistory, History
  <2>2. requests' \in [Workers -> Request]
    BY FinishEnds DEF RegisterCommit, RequestsEnd
  <2> QED
    BY <1>1, <1>2, <1>3, <1>4, <2>1, <2>2 DEF IInv, TypeOK
<1>6. /\ \A s \in Sids : sessions'[s] = IF s = t THEN row ELSE sessions[s]
      /\ \A v \in Users : accounts'[v] = IF v = u THEN new ELSE accounts[v]
  BY <1>1, <1>2 DEF IInv, TypeOK
<1>7. RequestsNameRows'
  BY <1>1, <1>2, <1>6, FinishEnds, RequestsStayNamed DEF RowsKept, RegisterCommit
<1>8. RowsHaveOwners'
  BY <1>1, <1>2, <1>3, <1>4, <1>6 DEF IInv, RowsHaveOwners
<1>9. \A s \in Sids : sessions[s].status \notin {"unused", "gone"} => sessions[s].user # u
  BY <1>1 DEF IInv, NoRowOutlivesItsUser, Active
<1>10. EpochAgreesWithRevocation'
  BY <1>1, <1>3, <1>4, <1>6, <1>9
  DEF IInv, EpochAgreesWithRevocation, Unrevoked, RowsHaveOwners
<1>11. RotatedParentsStayDead'
  BY <1>1, <1>4, <1>6 DEF IInv, RotatedParentsStayDead, TypeOK, Session
<1>12. NoRowOutlivesItsUser'
  BY <1>1, <1>2, <1>3, <1>4, <1>6 DEF IInv, NoRowOutlivesItsUser, Active, RowsHaveOwners
<1>13. OneAccountPerEmail'
  BY <1>1, <1>3, <1>6
  DEF IInv, OneAccountPerEmail, RegisterCommit, UniqueEmail, EmailTaken, Active
<1> QED
  BY <1>5, <1>7, <1>8, <1>10, <1>11, <1>12, <1>13 DEF IInv

LEMMA LoginStep ==
    ASSUME IInv, NEW w \in Workers, NEW t \in Sids, LoginSucceeded(w, t)
    PROVE  IInv'
<1> DEFINE u    == requests[w].user
           pw   == requests[w].pw
           seen == requests[w].row
           new  == Admitted(seen, accounts[u], pw)
           row  == Issued(u, None, seen.epoch)
<1> USE ConstantsAssumption
<1>1. /\ u \in Users /\ pw \in Passwords \cup {None}
      /\ accounts[u] \in Account /\ seen \in Account
      /\ accounts[u].status = "active" /\ sessions[t].status = "unused"
  BY DEF LoginSucceeded, At, IInv, RequestsNameRows, NamesRows, TypeOK, Request,
         ForeignKey, Active
<1>2. /\ accounts' = [accounts EXCEPT ![u] = new]
      /\ sessions' = [sessions EXCEPT ![t] = row]
      /\ history' = [history EXCEPT ![u].strikes = 0, ![u].refusals = 0]
      /\ resets' = resets
  BY DEF LoginSucceeded
<1>3. new \in Account /\ new.status = "active" /\ new.epoch = accounts[u].epoch
  <2> DEFINE old == accounts[u]
  <2>1. Written(seen.failed, 0, old.failed) \in 0 .. MaxFailedLogins - 1
    BY <1>1 DEF Written, Account
  <2>2. Written(seen.locked, "no", old.locked) \in {"no", "yes", "lapsed"}
    BY <1>1 DEF Written, Account
  <2>3. /\ (IF seen.legacy THEN pw ELSE old.password) \in Passwords \cup {None}
        /\ (IF seen.legacy THEN FALSE ELSE old.legacy) \in BOOLEAN
    BY <1>1 DEF Account
  <2>4. new = [old EXCEPT
                  !.failed   = Written(seen.failed, 0, old.failed),
                  !.locked   = Written(seen.locked, "no", old.locked),
                  !.password = IF seen.legacy THEN pw ELSE old.password,
                  !.legacy   = IF seen.legacy THEN FALSE ELSE old.legacy]
    BY <1>1 DEF Admitted, Account
  <2> HIDE DEF new, old
  <2>5. old \in Account /\ old.status = "active"
    BY <1>1 DEF old
  <2>6. new \in Account /\ new.status = "active" /\ new.epoch = old.epoch
    BY ZenonT(40), <2>1, <2>2, <2>3, <2>4, <2>5 DEF Account
  <2> QED
    BY <2>6 DEF old
<1>4. /\ row \in Session /\ row.status = "live" /\ row.user = u
      /\ row.parent = None /\ row.born = accounts[u].epoch
  BY <1>1 DEF Issued, Session, Account
<1> HIDE DEF new, row
<1>5. TypeOK'
  <2>1. history' \in [Users -> History]
    <3> DEFINE heard == [history[u] EXCEPT !.strikes = 0, !.refusals = 0]
    <3>1. history \in [Users -> History] /\ history[u] \in History
      BY <1>1 DEF IInv, TypeOK
    <3>2. heard \in History
      <4>1. 0 \in 0 .. MaxFailedLogins
        OBVIOUS
      <4>2. PICK told \in History : told = history[u]
        BY <3>1
      <4> QED
        BY <4>1, <4>2 DEF History
    <3>3. history' = [history EXCEPT ![u] = heard]
      BY <1>1, <1>2, <3>1 DEF History
    <3> HIDE DEF heard
    <3> QED
      BY <1>1, <3>1, <3>2, <3>3
  <2>2. requests' \in [Workers -> Request]
    BY FinishEnds DEF LoginSucceeded, RequestsEnd
  <2> QED
    BY <1>1, <1>2, <1>3, <1>4, <2>1, <2>2 DEF IInv, TypeOK
<1>6. /\ \A s \in Sids : sessions'[s] = IF s = t THEN row ELSE sessions[s]
      /\ \A v \in Users : accounts'[v] = IF v = u THEN new ELSE accounts[v]
  BY <1>1, <1>2 DEF IInv, TypeOK
<1>7. RequestsNameRows'
  BY <1>1, <1>2, <1>6, FinishEnds, RequestsStayNamed DEF RowsKept, LoginSucceeded
<1>8. RowsHaveOwners'
  BY <1>1, <1>2, <1>3, <1>4, <1>6 DEF IInv, RowsHaveOwners
<1>9. EpochAgreesWithRevocation'
  BY <1>1, <1>3, <1>4, <1>6 DEF IInv, EpochAgreesWithRevocation, Unrevoked, RowsHaveOwners
<1>10. RotatedParentsStayDead'
  BY <1>1, <1>4, <1>6 DEF IInv, RotatedParentsStayDead, TypeOK, Session
<1>11. NoRowOutlivesItsUser'
  BY <1>1, <1>2, <1>3, <1>4, <1>6 DEF IInv, NoRowOutlivesItsUser, Active, RowsHaveOwners
<1>12. OneAccountPerEmail'
  BY <1>1, <1>3, <1>6 DEF IInv, OneAccountPerEmail, Active
<1> QED
  BY <1>5, <1>7, <1>8, <1>9, <1>10, <1>11, <1>12 DEF IInv

LEMMA RefreshStep ==
    ASSUME IInv, NEW w \in Workers, NEW t \in Sids, RefreshCommit(w, t)
    PROVE  IInv'
<1> DEFINE u    == requests[w].user
           s    == requests[w].sid
           seen == requests[w].row
           row  == Issued(u, s, seen.epoch)
           old  == [sessions[s] EXCEPT !.status = "revoked"]
<1> USE ConstantsAssumption
<1>1. /\ u \in Users /\ accounts[u] \in Account /\ seen \in Account
      /\ accounts[u].status = "active" /\ sessions[t].status = "unused"
      /\ s \in Sids /\ sessions[s].status \notin {"unused", "gone"}
      /\ sessions[s].user = u /\ sessions[s] \in Session
  BY DEF RefreshCommit, At, IInv, RequestsNameRows, NamesRows, TypeOK, Request,
         ForeignKey, Active
<1>2. sessions' = [sessions EXCEPT ![s] = old, ![t] = row]
  BY DEF RefreshCommit, Revoked
<1>0. UNCHANGED <<accounts, resets, history>>
  BY DEF RefreshCommit
<1>3. /\ old \in Session /\ old.status = "revoked" /\ old.user = u
      /\ old.parent = sessions[s].parent
  BY <1>1 DEF Session
<1>4. /\ row \in Session /\ row.status = "live" /\ row.user = u
      /\ row.parent = s /\ row.born = accounts[u].epoch
  BY <1>1 DEF Issued, Session, Account
<1> HIDE DEF old, row
<1>5. TypeOK'
  <2>1. requests' \in [Workers -> Request]
    BY FinishEnds DEF RefreshCommit, RequestsEnd
  <2> QED
    BY <1>0, <1>1, <1>2, <1>3, <1>4, <2>1 DEF IInv, TypeOK
<1>6. /\ s # t /\ sessions'[s] = old /\ sessions'[t] = row
      /\ \A x \in Sids \ {s, t} : sessions'[x] = sessions[x]
  BY <1>1, <1>2 DEF IInv, TypeOK
<1>7. RequestsNameRows'
  BY <1>0, <1>1, <1>3, <1>6, FinishEnds, RequestsStayNamed DEF RowsKept, RefreshCommit
<1>8. RowsHaveOwners'
  BY <1>0, <1>1, <1>3, <1>4, <1>6 DEF IInv, RowsHaveOwners
<1>9. EpochAgreesWithRevocation'
  BY <1>0, <1>1, <1>3, <1>4, <1>6 DEF IInv, EpochAgreesWithRevocation, Unrevoked, RowsHaveOwners
<1>10. RotatedParentsStayDead'
  BY <1>1, <1>3, <1>4, <1>6 DEF IInv, RotatedParentsStayDead, TypeOK, Session
<1>11. NoRowOutlivesItsUser'
  BY <1>0, <1>1, <1>3, <1>4, <1>6 DEF IInv, NoRowOutlivesItsUser, Active, RowsHaveOwners
<1>12. OneAccountPerEmail'
  BY <1>0 DEF IInv, OneAccountPerEmail, Active
<1> QED
  BY <1>5, <1>7, <1>8, <1>9, <1>10, <1>11, <1>12 DEF IInv

LEMMA LogoutStep ==
    ASSUME IInv, NEW w \in Workers, Logout(w)
    PROVE  IInv'
<1> DEFINE s   == requests[w].sid
           old == IF sessions[s].status = "gone" THEN sessions[s] ELSE Revoked(s)
<1> USE ConstantsAssumption
<1>1. /\ s \in Sids /\ sessions[s].status # "unused"
      /\ sessions[s] \in Session
  BY DEF Logout, At, IInv, RequestsNameRows, NamesRows, TypeOK, Request
<1>2. sessions' = [sessions EXCEPT ![s] = old]
  BY DEF Logout
<1>3. UNCHANGED <<accounts, resets, history>>
  BY DEF Logout
<1>4. /\ old \in Session /\ old.user = sessions[s].user
      /\ old.parent = sessions[s].parent
      /\ old.status \in {"revoked", "gone"}
      /\ old.status = "revoked" => sessions[s].status # "gone"
  BY <1>1 DEF Session, Revoked
<1> HIDE DEF old
<1>5. TypeOK'
  <2>1. requests' \in [Workers -> Request]
    BY FinishEnds DEF Logout, RequestsEnd
  <2> QED
    BY <1>1, <1>2, <1>3, <1>4, <2>1 DEF IInv, TypeOK
<1>6. sessions'[s] = old /\ \A x \in Sids \ {s} : sessions'[x] = sessions[x]
  BY <1>1, <1>2 DEF IInv, TypeOK
<1>7. RequestsNameRows'
  BY <1>1, <1>3, <1>4, <1>6, FinishEnds, RequestsStayNamed DEF RowsKept, Logout
<1>8. RowsHaveOwners'
  BY <1>1, <1>3, <1>4, <1>6 DEF IInv, RowsHaveOwners
<1>9. EpochAgreesWithRevocation'
  BY <1>1, <1>3, <1>4, <1>6 DEF IInv, EpochAgreesWithRevocation, Unrevoked
<1>10. RotatedParentsStayDead'
  BY <1>1, <1>4, <1>6 DEF IInv, RotatedParentsStayDead, TypeOK, Session
<1>11. NoRowOutlivesItsUser'
  BY <1>1, <1>3, <1>4, <1>6 DEF IInv, NoRowOutlivesItsUser, Active
<1>12. OneAccountPerEmail'
  BY <1>3 DEF IInv, OneAccountPerEmail, Active
<1> QED
  BY <1>5, <1>7, <1>8, <1>9, <1>10, <1>11, <1>12 DEF IInv

\* What logout_all, change_password and confirm_password_reset share: all
\* sessions of u are revoked in the step that changes the epoch of u.
LEMMA RevokeAllStep ==
    ASSUME IInv, RequestsEnd, NEW u \in Users,
           sessions' = RevokedAllOf(u),
           accounts' \in [Users -> Account],
           \A v \in Users : accounts'[v].status = accounts[v].status,
           \A v \in Users \ {u} : accounts'[v] = accounts[v],
           accounts[u].status = "absent" => accounts'[u] = accounts[u],
           resets' \in [Rids -> Reset],
           \A r \in Rids : /\ resets'[r].user = resets[r].user
                           /\ \/ resets'[r] = resets[r]
                              \/ /\ resets[r].status \notin {"unused", "gone"}
                                 /\ resets'[r].status = "used",
           history' \in [Users -> History]
    PROVE  IInv'
<1>1. \A s \in Sids : sessions[s] \in Session
  BY DEF IInv, TypeOK
<1>2. \A s \in Sids :
        /\ sessions'[s] \in Session
        /\ sessions'[s].user = sessions[s].user
        /\ sessions'[s].parent = sessions[s].parent
        /\ sessions'[s].born = sessions[s].born
        /\ \/ sessions'[s].status = sessions[s].status
           \/ /\ sessions[s].status \in {"live", "lapsed"}
              /\ sessions'[s].status = "revoked"
        /\ sessions[s].user = u => sessions'[s].status \notin {"live", "lapsed"}
  <2> SUFFICES ASSUME NEW s \in Sids
               PROVE  /\ sessions'[s] \in Session
                      /\ sessions'[s].user = sessions[s].user
                      /\ sessions'[s].parent = sessions[s].parent
                      /\ sessions'[s].born = sessions[s].born
                      /\ \/ sessions'[s].status = sessions[s].status
                         \/ /\ sessions[s].status \in {"live", "lapsed"}
                            /\ sessions'[s].status = "revoked"
                      /\ sessions[s].user = u =>
                            sessions'[s].status \notin {"live", "lapsed"}
    OBVIOUS
  <2>1. sessions'[s] = IF sessions[s].user = u /\ Unrevoked(s)
                       THEN Revoked(s) ELSE sessions[s]
    BY DEF RevokedAllOf
  <2> QED
    BY <1>1, <2>1 DEF Revoked, Unrevoked, Session
<1>3. TypeOK'
  <2>1. sessions' \in [Sids -> Session]
    BY <1>2 DEF RevokedAllOf
  <2> QED
    BY <2>1 DEF TypeOK, RequestsEnd
<1>4. RequestsNameRows'
  BY <1>2, RequestsStayNamed DEF RowsKept
<1>5. RowsHaveOwners'
  BY <1>2 DEF IInv, RowsHaveOwners
<1>6. EpochAgreesWithRevocation'
  BY <1>2 DEF IInv, EpochAgreesWithRevocation, Unrevoked, RowsHaveOwners
<1>7. RotatedParentsStayDead'
  <2> SUFFICES ASSUME NEW s \in Sids, sessions'[s].parent # None
               PROVE  /\ sessions'[sessions'[s].parent].status \in {"revoked", "gone"}
                      /\ sessions'[sessions'[s].parent].user = sessions'[s].user
    BY DEF RotatedParentsStayDead
  <2>1. sessions[s].parent \in Sids
    BY <1>1, <1>2 DEF Session
  <2> QED
    BY <1>2, <2>1 DEF IInv, RotatedParentsStayDead
<1>8. NoRowOutlivesItsUser'
  BY <1>2 DEF IInv, NoRowOutlivesItsUser, Active, RowsHaveOwners
<1>9. OneAccountPerEmail'
  BY DEF IInv, OneAccountPerEmail, Active
<1> QED
  BY <1>3, <1>4, <1>5, <1>6, <1>7, <1>8, <1>9 DEF IInv

LEMMA RevokeAllSteps ==
    ASSUME IInv, NEW w \in Workers,
           LogoutAll(w) \/ ChangePasswordCommit(w) \/ ConfirmResetCommit(w)
    PROVE  IInv'
<1> DEFINE u == requests[w].user
<1> USE ConstantsAssumption
<1>1. /\ u \in Users /\ accounts[u] \in Account
      /\ requests[w].pw \in Passwords \cup {None}
      /\ accounts \in [Users -> Account] /\ history \in [Users -> History]
      /\ resets \in [Rids -> Reset]
  BY DEF LogoutAll, ChangePasswordCommit, ConfirmResetCommit, At, IInv,
         RequestsNameRows, NamesRows, TypeOK, Request
<1>2. RequestsEnd
  BY FinishEnds DEF LogoutAll, ChangePasswordCommit, ConfirmResetCommit
<1>3. ASSUME accounts[u].epoch < MaxEpoch
      PROVE  accounts[u].epoch + 1 \in 0 .. MaxEpoch
  BY <1>1, <1>3 DEF Account
<1>4. CASE LogoutAll(w)
  <2>1. accounts' = [accounts EXCEPT ![u].epoch =
                        IF Active(u) THEN accounts[u].epoch + 1 ELSE accounts[u].epoch]
    BY <1>4 DEF LogoutAll
  <2>2. accounts[u].epoch + 1 \in 0 .. MaxEpoch
    BY <1>3, <1>4 DEF LogoutAll
  <2>3. /\ accounts' \in [Users -> Account]
        /\ \A v \in Users : accounts'[v].status = accounts[v].status
        /\ \A v \in Users \ {u} : accounts'[v] = accounts[v]
        /\ accounts[u].status = "absent" => accounts'[u] = accounts[u]
    <3>1. PICK epoch \in 0 .. MaxEpoch :
             epoch = IF Active(u) THEN accounts[u].epoch + 1 ELSE accounts[u].epoch
      BY <1>1, <2>2 DEF Account
    <3>2. PICK new : new = [accounts[u] EXCEPT !.epoch = epoch]
      OBVIOUS
    <3>3. accounts' = [accounts EXCEPT ![u] = new]
      BY <2>1, <3>1, <3>2
    <3>4. /\ new \in Account /\ new.status = accounts[u].status
          /\ accounts[u].status = "absent" => new = accounts[u]
      BY <1>1, <3>1, <3>2 DEF Account, Active
    <3> QED
      BY <1>1, <3>3, <3>4
  <2> QED
    BY <1>1, <1>2, <1>4, <2>3, RevokeAllStep DEF LogoutAll
<1>5. ASSUME Active(u), PasswordReplaced(u, requests[w].pw)
      PROVE  /\ accounts' \in [Users -> Account]
             /\ \A v \in Users : accounts'[v].status = accounts[v].status
             /\ \A v \in Users \ {u} : accounts'[v] = accounts[v]
             /\ accounts[u].status # "absent"
             /\ history' \in [Users -> History]
             /\ sessions' = RevokedAllOf(u)
  <2>1. accounts[u].epoch + 1 \in 0 .. MaxEpoch
    BY <1>3, <1>5 DEF PasswordReplaced
  <2> DEFINE new == Rekeyed(accounts[u], requests[w].pw)
  <2>2. new \in Account /\ new.status = accounts[u].status
    BY <1>1, <2>1 DEF Rekeyed, Account
  <2>3. accounts' = [accounts EXCEPT ![u] = new]
    BY <1>5 DEF PasswordReplaced
  <2>4. history' \in [Users -> History]
    BY SMTT(30), <1>1, <1>5 DEF PasswordReplaced, History
  <2> HIDE DEF new
  <2> QED
    BY <1>1, <1>5, <2>2, <2>3, <2>4 DEF PasswordReplaced, Active
<1>6. CASE ChangePasswordCommit(w)
  BY <1>1, <1>2, <1>5, <1>6, RevokeAllStep DEF ChangePasswordCommit
<1>7. CASE ConfirmResetCommit(w)
  <2> DEFINE r == requests[w].rid
  <2>1. r \in Rids /\ resets[r].status \notin {"unused", "gone"}
    BY <1>7 DEF ConfirmResetCommit, At, IInv, RequestsNameRows, NamesRows, TypeOK,
                Request
  <2>2. resets' = [resets EXCEPT ![r] = MarkedUsed(r)]
    BY <1>7 DEF ConfirmResetCommit
  <2>3. /\ MarkedUsed(r) \in Reset /\ MarkedUsed(r).status = "used"
        /\ MarkedUsed(r).user = resets[r].user
    <3> DEFINE n == IF resets[r].uses < 2 THEN resets[r].uses + 1
                    ELSE resets[r].uses
    <3>1. resets[r] \in Reset /\ resets[r].uses \in 0 .. 2
      BY <1>1, <2>1 DEF Reset
    <3>2. n \in 0 .. 2
      BY <3>1
    <3>3. MarkedUsed(r) = [resets[r] EXCEPT !.status = "used", !.uses = n]
      BY <3>1 DEF MarkedUsed, Reset
    <3> HIDE DEF n
    <3> QED
      BY <3>1, <3>2, <3>3 DEF Reset
  <2>4. /\ resets' \in [Rids -> Reset]
        /\ \A x \in Rids : /\ resets'[x].user = resets[x].user
                            /\ \/ resets'[x] = resets[x]
                               \/ /\ resets[x].status \notin {"unused", "gone"}
                                  /\ resets'[x].status = "used"
    BY <1>1, <2>1, <2>2, <2>3
  <2> QED
    BY <1>1, <1>2, <1>5, <1>7, <2>4, RevokeAllStep DEF ConfirmResetCommit
<1> QED
  BY <1>4, <1>6, <1>7

LEMMA RequestResetStep ==
    ASSUME IInv, NEW w \in Workers, NEW r \in Rids, RequestResetCommit(w, r)
    PROVE  IInv'
<1> DEFINE u   == requests[w].user
           row == [NoReset EXCEPT !.status = "valid", !.user = u]
<1> USE ConstantsAssumption
<1>1. u \in Users /\ accounts[u].status = "active" /\ resets[r].status = "unused"
  BY DEF RequestResetCommit, At, IInv, RequestsNameRows, NamesRows, TypeOK,
         ForeignKey, Active
<1>2. /\ resets' = [resets EXCEPT ![r] = row]
      /\ UNCHANGED <<accounts, sessions, history>>
  BY DEF RequestResetCommit
<1>3. row \in Reset /\ row.status = "valid" /\ row.user = u
  <2>1. NoReset \in Reset
    BY DEF NoReset, Reset
  <2> QED
    BY <1>1, <2>1 DEF Reset
<1> HIDE DEF row
<1>4. TypeOK'
  BY <1>1, <1>2, <1>3, FinishEnds DEF RequestResetCommit, RequestsEnd, IInv, TypeOK
<1>5. \A x \in Rids : resets'[x] = IF x = r THEN row ELSE resets[x]
  BY <1>1, <1>2 DEF IInv, TypeOK
<1>6. RequestsNameRows'
  BY <1>1, <1>2, <1>5, FinishEnds, RequestsStayNamed DEF RowsKept, RequestResetCommit
<1>7. RowsHaveOwners'
  BY <1>1, <1>2, <1>3, <1>5 DEF IInv, RowsHaveOwners
<1>8. EpochAgreesWithRevocation' /\ RotatedParentsStayDead'
  BY <1>2 DEF IInv, EpochAgreesWithRevocation, RotatedParentsStayDead, Unrevoked
<1>9. NoRowOutlivesItsUser' /\ OneAccountPerEmail'
  BY <1>1, <1>2, <1>3, <1>5 DEF IInv, NoRowOutlivesItsUser, OneAccountPerEmail, Active
<1> QED
  BY <1>4, <1>6, <1>7, <1>8, <1>9 DEF IInv

LEMMA EraseStep ==
    ASSUME IInv, NEW w \in Workers, Erase(w)
    PROVE  IInv'
<1> DEFINE u   == requests[w].user
           new == [NoAccount EXCEPT !.status = "erased"]
<1> USE ConstantsAssumption
<1>1. u \in Users /\ accounts[u].status = "active"
  BY DEF Erase, At, IInv, RequestsNameRows, NamesRows, TypeOK, Active
<1>2. new \in Account /\ new.status = "erased"
  BY NoAccountIsAccount DEF Account, NoAccount
<1>3. \A v \in Users : accounts'[v] = IF v = u THEN new ELSE accounts[v]
  BY <1>1 DEF Erase, IInv, TypeOK
<1>4. \A s \in Sids :
        /\ sessions[s] \in Session /\ sessions'[s] \in Session
        /\ sessions'[s].user = sessions[s].user
        /\ sessions'[s].parent = sessions[s].parent
        /\ sessions'[s].born = sessions[s].born
        /\ sessions'[s].status = IF sessions[s].user = u THEN "gone"
                                 ELSE sessions[s].status
  BY DEF Erase, IInv, TypeOK, Session
<1>5. \A r \in Rids :
        /\ resets'[r] \in Reset
        /\ resets'[r].user = resets[r].user
        /\ resets'[r].status = IF resets[r].user = u THEN "gone"
                               ELSE resets[r].status
  BY DEF Erase, IInv, TypeOK, Reset
<1>6. TypeOK'
  <2>1. accounts' \in [Users -> Account]
    BY <1>2, <1>3 DEF Erase, IInv, TypeOK
  <2>2. sessions' \in [Sids -> Session] /\ resets' \in [Rids -> Reset]
    BY <1>4, <1>5 DEF Erase
  <2>3. history' \in [Users -> History]
    <3>1. NoHistory \in History
      BY DEF NoHistory, History
    <3> QED
      BY <3>1 DEF Erase, IInv, TypeOK
  <2>4. requests' \in [Workers -> Request]
    BY FinishEnds DEF Erase, RequestsEnd
  <2> QED
    BY <2>1, <2>2, <2>3, <2>4 DEF TypeOK
<1>7. RequestsNameRows'
  BY <1>4, <1>5, FinishEnds, RequestsStayNamed DEF RowsKept, Erase
<1> HIDE DEF new
<1>8. RowsHaveOwners'
  <2>1. \A s \in Sids : sessions'[s].status # "unused" => sessions'[s].user \in Users
    BY <1>1, <1>4 DEF IInv, RowsHaveOwners
  <2>2. \A r \in Rids : resets'[r].status # "unused" => resets'[r].user \in Users
    BY <1>1, <1>5 DEF IInv, RowsHaveOwners
  <2>3. \A v \in Users : accounts'[v].status = "absent" => accounts'[v].epoch = 0
    BY <1>2, <1>3 DEF IInv, RowsHaveOwners
  <2> QED
    BY <2>1, <2>2, <2>3 DEF RowsHaveOwners
<1>9. EpochAgreesWithRevocation'
  BY <1>3, <1>4 DEF IInv, EpochAgreesWithRevocation, Unrevoked, RowsHaveOwners
<1>10. RotatedParentsStayDead'
  <2> SUFFICES ASSUME NEW s \in Sids, sessions'[s].parent # None
               PROVE  /\ sessions'[sessions'[s].parent].status \in {"revoked", "gone"}
                      /\ sessions'[sessions'[s].parent].user = sessions'[s].user
    BY DEF RotatedParentsStayDead
  <2>1. sessions[s].parent \in Sids
    BY <1>4 DEF Session
  <2> QED
    BY <1>4, <2>1 DEF IInv, RotatedParentsStayDead
<1>11. NoRowOutlivesItsUser'
  BY <1>3, <1>4, <1>5 DEF IInv, NoRowOutlivesItsUser, Active, RowsHaveOwners
<1>12. OneAccountPerEmail'
  BY <1>2, <1>3 DEF IInv, OneAccountPerEmail, Active
<1> QED
  BY <1>6, <1>7, <1>8, <1>9, <1>10, <1>11, <1>12 DEF IInv

LEMMA ClockStep ==
    ASSUME IInv, Clock
    PROVE  IInv'
<1> USE ConstantsAssumption
<1>0. requests' = requests /\ RequestsEnd
  BY DEF Clock, LapseSession, LapseReset, LapseLock, RequestsEnd, IInv, TypeOK
<1>1. CASE \E s \in Sids : LapseSession(s)
  <2> PICK s \in Sids : LapseSession(s)
    BY <1>1
  <2> DEFINE row == [sessions[s] EXCEPT !.status = "lapsed"]
  <2>1. /\ row \in Session /\ row.status = "lapsed"
        /\ row.user = sessions[s].user /\ row.parent = sessions[s].parent
        /\ row.born = sessions[s].born /\ sessions[s].status = "live"
    BY DEF LapseSession, IInv, TypeOK, Session
  <2>2. sessions' = [sessions EXCEPT ![s] = row]
    BY DEF LapseSession
  <2>3. UNCHANGED <<accounts, resets, history>>
    BY DEF LapseSession
  <2> HIDE DEF row
  <2>4. sessions'[s] = row /\ \A x \in Sids \ {s} : sessions'[x] = sessions[x]
    BY <2>2 DEF IInv, TypeOK
  <2>5. TypeOK'
    BY <1>0, <2>1, <2>2, <2>3 DEF IInv, TypeOK
  <2>6. RequestsNameRows'
    BY <1>0, <2>1, <2>3, <2>4, RequestsStayNamed DEF RowsKept
  <2>7. RowsHaveOwners'
    BY <2>1, <2>3, <2>4 DEF IInv, RowsHaveOwners
  <2>8. EpochAgreesWithRevocation'
    BY <2>1, <2>3, <2>4 DEF IInv, EpochAgreesWithRevocation, Unrevoked
  <2>9. RotatedParentsStayDead'
    BY <2>1, <2>4 DEF IInv, RotatedParentsStayDead, TypeOK, Session
  <2>10. NoRowOutlivesItsUser' /\ OneAccountPerEmail'
    BY <2>1, <2>3, <2>4 DEF IInv, NoRowOutlivesItsUser, OneAccountPerEmail, Active
  <2> QED
    BY <2>5, <2>6, <2>7, <2>8, <2>9, <2>10 DEF IInv
<1>2. CASE \E r \in Rids : LapseReset(r)
  <2> PICK r \in Rids : LapseReset(r)
    BY <1>2
  <2> DEFINE row == [resets[r] EXCEPT !.status = "lapsed"]
  <2>1. /\ row \in Reset /\ row.status = "lapsed"
        /\ row.user = resets[r].user /\ resets[r].status = "valid"
    BY DEF LapseReset, IInv, TypeOK, Reset
  <2>2. resets' = [resets EXCEPT ![r] = row]
    BY DEF LapseReset
  <2>3. UNCHANGED <<accounts, sessions, history>>
    BY DEF LapseReset
  <2> HIDE DEF row
  <2>4. resets'[r] = row /\ \A x \in Rids \ {r} : resets'[x] = resets[x]
    BY <2>2 DEF IInv, TypeOK
  <2>5. TypeOK'
    BY <1>0, <2>1, <2>2, <2>3 DEF IInv, TypeOK
  <2>6. RequestsNameRows'
    BY <1>0, <2>1, <2>3, <2>4, RequestsStayNamed DEF RowsKept
  <2>7. RowsHaveOwners'
    BY <2>1, <2>3, <2>4 DEF IInv, RowsHaveOwners
  <2>8. EpochAgreesWithRevocation' /\ RotatedParentsStayDead'
    BY <2>3 DEF IInv, EpochAgreesWithRevocation, RotatedParentsStayDead, Unrevoked
  <2>9. NoRowOutlivesItsUser' /\ OneAccountPerEmail'
    BY <2>1, <2>3, <2>4 DEF IInv, NoRowOutlivesItsUser, OneAccountPerEmail, Active
  <2> QED
    BY <2>5, <2>6, <2>7, <2>8, <2>9 DEF IInv
<1>3. CASE \E u \in Users : LapseLock(u)
  <2> PICK u \in Users : LapseLock(u)
    BY <1>3
  <2>1. /\ accounts' \in [Users -> Account]
        /\ \A v \in Users : /\ accounts'[v].status = accounts[v].status
                            /\ accounts'[v].epoch = accounts[v].epoch
    <3>1. accounts \in [Users -> Account] /\ accounts[u] \in Account
      BY DEF IInv, TypeOK
    <3>2. accounts' = [accounts EXCEPT ![u] = [accounts[u] EXCEPT !.locked = "lapsed"]]
      BY DEF LapseLock
    <3>3. PICK new : new = [accounts[u] EXCEPT !.locked = "lapsed"]
      OBVIOUS
    <3>4. /\ new \in Account /\ new.status = accounts[u].status
          /\ new.epoch = accounts[u].epoch
      BY <3>1, <3>3 DEF Account
    <3> QED
      BY <3>1, <3>2, <3>3, <3>4
  <2>2. history' \in [Users -> History] /\ UNCHANGED <<sessions, resets>>
    BY DEF LapseLock, IInv, TypeOK
  <2> QED
    BY <1>0, <2>1, <2>2, ColumnStep
<1> QED
  BY <1>1, <1>2, <1>3 DEF Clock

LEMMA RedeployStep ==
    ASSUME IInv, Redeploy
    PROVE  IInv'
<1>1. RequestsEnd
  BY IdleIsRequest DEF Redeploy, RequestsEnd
<1>2. /\ accounts' \in [Users -> Account]
      /\ \A v \in Users : /\ accounts'[v].status = accounts[v].status
                          /\ accounts'[v].epoch = accounts[v].epoch
  <2>1. \A v \in Users : accounts[v] \in Account
    BY DEF IInv, TypeOK
  <2>2. \A v \in Users : [accounts[v] EXCEPT !.legacy = TRUE] \in Account
    BY <2>1 DEF Account
  <2>3. \A v \in Users :
           LET new == [accounts[v] EXCEPT !.legacy = TRUE]
           IN  new.status = accounts[v].status /\ new.epoch = accounts[v].epoch
    BY <2>1 DEF Account
  <2>4. accounts' = [v \in Users |-> IF Active(v) THEN [accounts[v] EXCEPT !.legacy = TRUE]
                                      ELSE accounts[v]]
    BY DEF Redeploy
  <2> QED
    BY <2>1, <2>2, <2>3, <2>4
<1>3. history' \in [Users -> History] /\ UNCHANGED <<sessions, resets>>
  BY DEF Redeploy, IInv, TypeOK
<1> QED
  BY <1>1, <1>2, <1>3, ColumnStep

-----------------------------------------------------------------------------
(* The theorems.                                                           *)

LEMMA NextIInv == IInv /\ [Next]_vars => IInv'
<1> SUFFICES ASSUME IInv, [Next]_vars PROVE IInv'
  OBVIOUS
<1>1. ASSUME NEW w \in Workers, Step(w) PROVE IInv'
  BY <1>1, ReadingSteps, ColumnSteps, RegisterStep, LoginStep, RefreshStep,
     LogoutStep, RevokeAllSteps, RequestResetStep, EraseStep DEF Step
<1>2. CASE UNCHANGED vars
  BY <1>2 DEF vars, IInv, TypeOK, RequestsNameRows, NamesRows, RowsHaveOwners,
     EpochAgreesWithRevocation, RotatedParentsStayDead, NoRowOutlivesItsUser,
     OneAccountPerEmail, Unrevoked, Active
<1> QED
  BY <1>1, <1>2, ClockStep, RedeployStep DEF Next

LEMMA Invariance == Spec => []IInv
  BY InitIInv, NextIInv, PTL DEF Spec

\* Every reachable state is well typed: no column of a row, no request in
\* flight and no bounded counter leaves its range, whatever interleaves.
THEOREM TypeCorrect == Spec => []TypeOK
<1>1. IInv => TypeOK
  BY DEF IInv
<1> QED
  BY <1>1, Invariance, PTL

\* logout_all, change_password and confirm_password_reset each revoke every
\* stored session in the transaction that bumps token_epoch.
THEOREM RevocationFollowsEpoch == Spec => []EpochAgreesWithRevocation
<1>1. IInv => EpochAgreesWithRevocation
  BY DEF IInv
<1> QED
  BY <1>1, Invariance, PTL

\* refresh never leaves the presented session usable, even when it expired or
\* was revoked between the read and the write.
THEOREM RotationKillsParents == Spec => []RotatedParentsStayDead
<1>1. IInv => RotatedParentsStayDead
  BY DEF IInv
<1> QED
  BY <1>1, Invariance, PTL

\* erase_user removes every session and reset of the user, including those a
\* request in flight would insert afterwards.
THEOREM ErasureIsComplete == Spec => []NoRowOutlivesItsUser
<1>1. IInv => NoRowOutlivesItsUser
  BY DEF IInv
<1> QED
  BY <1>1, Invariance, PTL

\* register never creates a second account for an address.
THEOREM EmailsAreUnique == Spec => []OneAccountPerEmail
<1>1. IInv => OneAccountPerEmail
  BY DEF IInv
<1> QED
  BY <1>1, Invariance, PTL

-----------------------------------------------------------------------------
(* One request at a time.  What the documentation says of credentials is   *)
(* false of requests that overlap; it holds of a server that finishes each *)
(* request before it begins the next, whatever their order and whatever    *)
(* fails, lapses or is redeployed in between.                              *)

OneAtATime == \A v, w \in Workers : v = w

\* What a request has read is still so when it writes.
UpToDate(q) ==
    /\ q.stage = "checked" /\ q.op # "register" =>
        /\ Active(q.user)
        /\ q.row.password = accounts[q.user].password
        /\ q.row.failed = accounts[q.user].failed
        /\ q.row.epoch = accounts[q.user].epoch
        /\ q.row.secret = accounts[q.user].secret
        /\ q.row.totp = accounts[q.user].totp
    /\ q.op = "refresh" => Unrevoked(q.sid)
    /\ q.op = "confirm_reset" => resets[q.rid].uses = 0
    /\ q.op = "confirm_totp" /\ q.stage = "checked" => q.row.secret # None

\* An account is protected as its user was told; strikes are counted in it.
KeepsPromises(u) ==
    /\ Active(u) => accounts[u].password = history[u].chosen
    /\ history[u].strikes <= accounts[u].failed
    /\ accounts[u].totp => /\ accounts[u].secret # None
                           /\ accounts[u].secret = history[u].verified

ResetsWorkOnce ==
    \A r \in Rids : /\ resets[r].uses <= 1
                    /\ resets[r].status \in {"valid", "lapsed"} => resets[r].uses = 0

SequentialInv ==
    /\ \A u \in Users : KeepsPromises(u)
    /\ SessionsFollowCredentials /\ RotatedOnce /\ ResetsWorkOnce
    /\ \A w \in Workers : UpToDate(requests[w])

LEMMA InitSequential == Init => SequentialInv
<1> SUFFICES ASSUME Init PROVE SequentialInv
  OBVIOUS
<1> USE ConstantsAssumption DEF Init
<1>1. ASSUME NEW u \in Users PROVE KeepsPromises(u)
  <2>1. /\ accounts[u].status = "absent" /\ accounts[u].failed = 0
        /\ accounts[u].totp = FALSE /\ history[u].strikes = 0
    BY DEF NoAccount, NoHistory
  <2> QED
    BY <2>1 DEF KeepsPromises, Active
<1>2. SessionsFollowCredentials /\ RotatedOnce /\ ResetsWorkOnce
  BY DEF SessionsFollowCredentials, RotatedOnce, ResetsWorkOnce, NoSession, NoReset
<1>3. \A w \in Workers : UpToDate(requests[w])
  BY DEF UpToDate, Idle, Ops, AuthedOps
<1> QED
  BY <1>1, <1>2, <1>3 DEF SequentialInv

\* A request that has read what is there finds it so.
LEMMA SequentialRead ==
    ASSUME OneAtATime, IInv, SequentialInv, NEW w \in Workers, NEW q, UpToDate(q),
           requests' = [requests EXCEPT ![w] = q],
           UNCHANGED <<accounts, sessions, resets, history>>
    PROVE  SequentialInv'
<1>1. \A u \in Users : KeepsPromises(u)'
  BY DEF SequentialInv, KeepsPromises, Active
<1>2. SessionsFollowCredentials' /\ RotatedOnce' /\ ResetsWorkOnce'
  BY DEF SequentialInv, SessionsFollowCredentials, RotatedOnce, ResetsWorkOnce
<1>3. ASSUME NEW v \in Workers PROVE UpToDate(requests[v])'
  <2>1. requests'[v] = q
    BY DEF OneAtATime, IInv, TypeOK
  <2> QED
    BY <2>1 DEF UpToDate, Active, Unrevoked
<1> QED
  BY <1>1, <1>2, <1>3 DEF SequentialInv

LEMMA SequentialReads ==
    ASSUME OneAtATime, IInv, SequentialInv, NEW w \in Workers,
           \/ \E u \in Users, pw \in Passwords : RegisterRead(w, u, pw)
           \/ \E u \in Users, pw \in Passwords, code \in Secrets \cup {None} :
                    LoginRead(w, u, pw, code)
           \/ \E s \in Sids : RefreshRead(w, s)
           \/ \E op \in AuthedOps, s \in Sids : Authenticate(w, op, s)
           \/ \E current, new \in Passwords : ChangePasswordRead(w, current, new)
           \/ \E u \in Users : RequestResetRead(w, u)
           \/ \E r \in Rids, new \in Passwords : ConfirmResetRead(w, r, new)
           \/ BeginTotpRead(w)
           \/ \E code \in Secrets : ConfirmTotpRead(w, code)
           \/ \E code \in Secrets : DisableTotpRead(w, code)
           \/ Abort(w)
    PROVE  SequentialInv'
<1> USE ConstantsAssumption
<1>1. CASE \E u \in Users, pw \in Passwords : RegisterRead(w, u, pw)
  <2> PICK u \in Users, pw \in Passwords : RegisterRead(w, u, pw)
    BY <1>1
  <2> DEFINE q == [Idle EXCEPT !.stage = "checked", !.op = "register",
                               !.user = u, !.pw = pw]
  <2>1. UpToDate(q)
    BY DEF UpToDate, Idle
  <2>2. requests' = [requests EXCEPT ![w] = q]
    BY DEF RegisterRead, Start
  <2> HIDE DEF q
  <2> QED
    BY <2>1, <2>2, SequentialRead DEF RegisterRead
<1>2. CASE \E u \in Users, pw \in Passwords, code \in Secrets \cup {None} :
              LoginRead(w, u, pw, code)
  <2> PICK u \in Users, pw \in Passwords, code \in Secrets \cup {None} :
              LoginRead(w, u, pw, code)
    BY <1>2
  <2> DEFINE stage == IF WrongCode(pw, code, accounts[u])
                      THEN "refused" ELSE "checked"
             q == [Idle EXCEPT !.stage = stage, !.op = "login",
                               !.user = u, !.pw = pw, !.row = accounts[u]]
  <2>0. stage \in {"refused", "checked"}
    OBVIOUS
  <2> HIDE DEF stage
  <2>1. UpToDate(q)
    BY <2>0 DEF UpToDate, Idle, LoginRead
  <2>2. requests' = [requests EXCEPT ![w] = q]
    BY DEF LoginRead, Start, stage
  <2> HIDE DEF q
  <2> QED
    BY <2>1, <2>2, SequentialRead DEF LoginRead
<1>3. CASE \E s \in Sids : RefreshRead(w, s)
  <2> PICK s \in Sids : RefreshRead(w, s)
    BY <1>3
  <2> DEFINE u == sessions[s].user
             q == [Idle EXCEPT !.stage = "checked", !.op = "refresh",
                               !.user = u, !.sid = s, !.row = accounts[u]]
  <2>1. UpToDate(q)
    BY DEF UpToDate, Idle, RefreshRead, Unrevoked
  <2>2. requests' = [requests EXCEPT ![w] = q]
    BY DEF RefreshRead, Start
  <2> HIDE DEF q
  <2> QED
    BY <2>1, <2>2, SequentialRead DEF RefreshRead
<1>4. CASE \E op \in AuthedOps, s \in Sids : Authenticate(w, op, s)
  <2> PICK op \in AuthedOps, s \in Sids : Authenticate(w, op, s)
    BY <1>4
  <2> DEFINE q == [Idle EXCEPT !.stage = "authenticated", !.op = op,
                               !.user = sessions[s].user, !.sid = s]
  <2>1. UpToDate(q)
    BY DEF UpToDate, Idle, AuthedOps
  <2>2. requests' = [requests EXCEPT ![w] = q]
    BY DEF Authenticate, Start
  <2> HIDE DEF q
  <2> QED
    BY <2>1, <2>2, SequentialRead DEF Authenticate
<1>5. ASSUME NEW op \in AuthedOps, NEW pw, requests[w].op = op, Active(requests[w].user),
             op = "confirm_totp" => accounts[requests[w].user].secret # None,
             Checked(w, accounts[requests[w].user], pw),
             UNCHANGED <<accounts, sessions, resets, history>>
      PROVE  SequentialInv'
  <2> DEFINE u == requests[w].user
             q == [requests[w] EXCEPT !.stage = "checked", !.row = accounts[u],
                                      !.pw = pw]
  <2>0. requests[w] \in Request
    BY DEF IInv, TypeOK
  <2>1. q.stage = "checked" /\ q.op = op /\ q.user = u /\ q.row = accounts[u]
    BY <1>5, <2>0 DEF Request
  <2>2. requests' = [requests EXCEPT ![w] = q]
    BY <1>5 DEF Checked
  <2> HIDE DEF q
  <2>3. UpToDate(q)
    BY <1>5, <2>1 DEF UpToDate, AuthedOps
  <2> QED
    BY <1>5, <2>2, <2>3, SequentialRead
<1>6. CASE \E current, new \in Passwords : ChangePasswordRead(w, current, new)
  <2> PICK current \in Passwords, new \in Passwords :
              ChangePasswordRead(w, current, new)
    BY <1>6
  <2> QED
    BY <1>5 DEF ChangePasswordRead, At, AuthedOps
<1>7. CASE \E u \in Users : RequestResetRead(w, u)
  <2> PICK u \in Users : RequestResetRead(w, u)
    BY <1>7
  <2> DEFINE q == [Idle EXCEPT !.stage = "checked", !.op = "request_reset",
                               !.user = u, !.row = accounts[u]]
  <2>1. UpToDate(q)
    BY DEF UpToDate, Idle, RequestResetRead
  <2>2. requests' = [requests EXCEPT ![w] = q]
    BY DEF RequestResetRead, Start
  <2> HIDE DEF q
  <2> QED
    BY <2>1, <2>2, SequentialRead DEF RequestResetRead
<1>8. CASE \E r \in Rids, new \in Passwords : ConfirmResetRead(w, r, new)
  <2> PICK r \in Rids, new \in Passwords : ConfirmResetRead(w, r, new)
    BY <1>8
  <2> DEFINE u == resets[r].user
             q == [Idle EXCEPT !.stage = "checked", !.op = "confirm_reset",
                               !.user = u, !.rid = r, !.pw = new,
                               !.row = accounts[u]]
  <2>1. UpToDate(q)
    BY DEF UpToDate, Idle, ConfirmResetRead, SequentialInv, ResetsWorkOnce
  <2>2. requests' = [requests EXCEPT ![w] = q]
    BY DEF ConfirmResetRead, Start
  <2> HIDE DEF q
  <2> QED
    BY <2>1, <2>2, SequentialRead DEF ConfirmResetRead
<1>9. CASE \/ BeginTotpRead(w)
           \/ \E code \in Secrets : ConfirmTotpRead(w, code)
           \/ \E code \in Secrets : DisableTotpRead(w, code)
  <2>1. PICK op \in AuthedOps :
            /\ TotpRead(w, op)
            /\ op = "confirm_totp" => accounts[requests[w].user].secret # None
    BY <1>9 DEF BeginTotpRead, ConfirmTotpRead, DisableTotpRead, AuthedOps
  <2> QED
    BY <1>5, <2>1 DEF TotpRead, At
<1>10. CASE Abort(w)
  <2>1. UpToDate(Idle)
    BY DEF UpToDate, Idle, Ops, AuthedOps
  <2> QED
    BY <1>10, <2>1, SequentialRead DEF Abort, Finish
<1> QED
  BY <1>1, <1>2, <1>3, <1>4, <1>6, <1>7, <1>8, <1>9, <1>10

\* The step that writes ends the only request there is.
LEMMA SequentialWrite ==
    ASSUME OneAtATime, IInv, NEW w \in Workers, Finish(w),
           \A u \in Users : KeepsPromises(u)',
           SessionsFollowCredentials', RotatedOnce', ResetsWorkOnce'
    PROVE  SequentialInv'
<1>1. ASSUME NEW v \in Workers PROVE UpToDate(requests[v])'
  <2>1. requests'[v] = Idle
    BY DEF OneAtATime, IInv, TypeOK, Finish
  <2> QED
    BY <2>1, ConstantsAssumption DEF UpToDate, Idle, Ops, AuthedOps
<1> QED
  BY <1>1 DEF SequentialInv

\* Steps that write columns of one account: its epoch stays.
LEMMA SequentialColumns ==
    ASSUME OneAtATime, IInv, SequentialInv, NEW w \in Workers,
           \/ LoginRefused(w)
           \/ LoginFailed(w)
           \/ \E secret \in Secrets : BeginTotpCommit(w, secret)
           \/ ConfirmTotpCommit(w)
           \/ DisableTotpCommit(w)
    PROVE  SequentialInv'
<1> DEFINE u   == requests[w].user
           row == requests[w].row
           old == accounts[u]
           told == history[u]
<1> USE ConstantsAssumption
<1>1. /\ requests[w] \in Request /\ u \in Users
      /\ requests[w].op # "register"
      /\ requests[w].stage # "checked" => LoginRefused(w)
  BY DEF IInv, TypeOK, RequestsNameRows, NamesRows, LoginRefused, LoginFailed,
         BeginTotpCommit, ConfirmTotpCommit, DisableTotpCommit, At
<1>2. /\ row \in Account /\ old \in Account /\ told \in History
      /\ accounts \in [Users -> Account] /\ history \in [Users -> History]
  BY <1>1 DEF Request, IInv, TypeOK
<1>3. requests[w].stage = "checked" =>
      /\ Active(u) /\ row.failed = old.failed /\ row.password = old.password
      /\ row.secret = old.secret /\ row.totp = old.totp
      /\ requests[w].op = "confirm_totp" => row.secret # None
  BY <1>1 DEF SequentialInv, UpToDate
<1>4. /\ Active(u) => old.password = told.chosen
      /\ told.strikes <= old.failed
      /\ old.totp => old.secret # None /\ old.secret = told.verified
  BY <1>1 DEF SequentialInv, KeepsPromises
<1>5. ASSUME NEW new, NEW heard, Finish(w), UNCHANGED <<sessions, resets>>,
             accounts' = [accounts EXCEPT ![u] = new],
             history' = [history EXCEPT ![u] = heard],
             new.status = old.status, new.epoch = old.epoch,
             Active(u) => new.password = heard.chosen, heard.strikes <= new.failed,
             new.totp => new.secret # None /\ new.secret = heard.verified
      PROVE  SequentialInv'
  <2>1. \A v \in Users : /\ accounts'[v] = IF v = u THEN new ELSE accounts[v]
                         /\ history'[v] = IF v = u THEN heard ELSE history[v]
    BY <1>1, <1>2, <1>5
  <2>2. ASSUME NEW v \in Users PROVE KeepsPromises(v)'
    BY <1>5, <2>1 DEF SequentialInv, KeepsPromises, Active
  <2>3. SessionsFollowCredentials'
    BY <1>5, <2>1 DEF SequentialInv, SessionsFollowCredentials, IInv, RowsHaveOwners
  <2>4. RotatedOnce' /\ ResetsWorkOnce'
    BY <1>5 DEF SequentialInv, RotatedOnce, ResetsWorkOnce
  <2> QED
    BY <1>5, <2>2, <2>3, <2>4, SequentialWrite
<1>6. CASE LoginFailed(w)
  <2> DEFINE left == IF Trips(row) THEN 0 ELSE row.failed + 1
             said == IF Trips(row) THEN 0 ELSE OneMore(told.strikes)
             more == IF Trips(row) THEN 0 ELSE OneMore(told.refusals)
             new == Counted(row, old)
             heard == [told EXCEPT !.strikes = said, !.refusals = more]
  <2>0. requests[w].stage = "checked"
    BY <1>6 DEF LoginFailed, At
  <2>1. said <= left
    BY <1>2, <1>3, <1>4, <2>0 DEF Account, History, OneMore
  <2>2. accounts' = [accounts EXCEPT ![u] = new]
    BY <1>6 DEF LoginFailed
  <2>3. history' = [history EXCEPT ![u] = heard]
    BY <1>1, <1>2, <1>6 DEF LoginFailed
  <2>4. Written(row.failed, left, old.failed) = left
    BY <1>3, <2>0 DEF Written
  <2>5. new = [old EXCEPT !.failed = Written(row.failed, left, old.failed),
                          !.locked = IF Trips(row) THEN "yes" ELSE old.locked]
    BY <1>2 DEF Counted, Account
  <2>6. /\ heard.strikes = said /\ heard.chosen = told.chosen
        /\ heard.verified = told.verified
    BY <1>2 DEF History
  <2> HIDE DEF left, said, more, new, heard
  <2>7. /\ new.failed = left /\ new.status = old.status /\ new.epoch = old.epoch
        /\ new.password = old.password /\ new.totp = old.totp
        /\ new.secret = old.secret
    BY <1>2, <2>4, <2>5 DEF Account
  <2> QED
    BY <1>4, <1>5, <1>6, <2>1, <2>2, <2>3, <2>6, <2>7 DEF LoginFailed
<1>7. CASE \E secret \in Secrets : BeginTotpCommit(w, secret)
  <2> PICK secret \in Secrets : BeginTotpCommit(w, secret)
    BY <1>7
  <2> DEFINE new == Enrolled(row, old, secret)
  <2>1. accounts' = [accounts EXCEPT ![u] = new]
    BY DEF BeginTotpCommit
  <2>2. history' = [history EXCEPT ![u] = told]
    BY <1>2 DEF BeginTotpCommit
  <2>3. /\ new.failed = old.failed /\ new.status = old.status
        /\ new.epoch = old.epoch /\ new.password = old.password /\ new.totp = FALSE
    BY <1>2, <1>3 DEF Enrolled, Written, Account, BeginTotpCommit, At
  <2> HIDE DEF new
  <2> QED
    BY <1>4, <1>5, <2>1, <2>2, <2>3 DEF BeginTotpCommit
<1>8. CASE ConfirmTotpCommit(w)
  <2> DEFINE new == [old EXCEPT !.totp = Written(row.totp, TRUE, old.totp)]
             heard == [told EXCEPT !.verified = row.secret]
  <2>1. accounts' = [accounts EXCEPT ![u] = new]
    BY <1>8 DEF ConfirmTotpCommit
  <2>2. history' = [history EXCEPT ![u] = heard]
    BY <1>1, <1>2, <1>8 DEF ConfirmTotpCommit
  <2>3. /\ new.failed = old.failed /\ new.status = old.status
        /\ new.epoch = old.epoch /\ new.password = old.password
        /\ new.secret = old.secret
    BY <1>2 DEF Account
  <2>4. /\ heard.strikes = told.strikes /\ heard.chosen = told.chosen
        /\ heard.verified = row.secret
    BY <1>2 DEF History
  <2>5. old.secret # None
    BY <1>3, <1>8 DEF ConfirmTotpCommit, At
  <2> HIDE DEF new, heard
  <2>6. new.totp => new.secret # None /\ new.secret = heard.verified
    BY <1>3, <1>8, <2>3, <2>4, <2>5 DEF ConfirmTotpCommit, At
  <2>7. Finish(w) /\ UNCHANGED <<sessions, resets>>
    BY <1>8 DEF ConfirmTotpCommit
  <2>8. (Active(u) => new.password = heard.chosen) /\ heard.strikes <= new.failed
    BY <1>4, <2>3, <2>4
  <2> QED
    BY <1>5, <2>1, <2>2, <2>3, <2>6, <2>7, <2>8
<1>9. CASE DisableTotpCommit(w)
  <2> DEFINE new == Unenrolled(row, old)
  <2>1. accounts' = [accounts EXCEPT ![u] = new]
    BY <1>9 DEF DisableTotpCommit
  <2>2. history' = [history EXCEPT ![u] = told]
    BY <1>2, <1>9 DEF DisableTotpCommit
  <2>3. /\ new.failed = old.failed /\ new.status = old.status
        /\ new.epoch = old.epoch /\ new.password = old.password /\ new.totp = FALSE
    BY <1>2, <1>3, <1>9 DEF Unenrolled, Written, Account, DisableTotpCommit, At
  <2> HIDE DEF new
  <2> QED
    BY <1>4, <1>5, <1>9, <2>1, <2>2, <2>3 DEF DisableTotpCommit
<1>10. CASE LoginRefused(w)
  <2> DEFINE more == IF Active(u) THEN OneMore(told.refusals) ELSE told.refusals
             heard == [told EXCEPT !.refusals = more]
  <2>1. accounts' = [accounts EXCEPT ![u] = old]
    BY <1>1, <1>2, <1>10 DEF LoginRefused
  <2>2. history' = [history EXCEPT ![u] = heard]
    BY <1>1, <1>2, <1>10 DEF LoginRefused
  <2>3. /\ heard.strikes = told.strikes /\ heard.chosen = told.chosen
        /\ heard.verified = told.verified
    BY <1>2 DEF History
  <2> HIDE DEF more, heard
  <2> QED
    BY <1>4, <1>5, <1>10, <2>1, <2>2, <2>3 DEF LoginRefused
<1> QED
  BY <1>6, <1>7, <1>8, <1>9, <1>10

LEMMA SequentialRegister ==
    ASSUME OneAtATime, IInv, SequentialInv, NEW w \in Workers, NEW t \in Sids,
           RegisterCommit(w, t)
    PROVE  SequentialInv'
<1> DEFINE u     == requests[w].user
           pw    == requests[w].pw
           new   == [NoAccount EXCEPT !.status = "active", !.password = pw]
           heard == [NoHistory EXCEPT !.chosen = pw]
           row   == Issued(u, None, 0)
<1> USE ConstantsAssumption
<1>1. /\ u \in Users /\ Finish(w) /\ resets' = resets
      /\ accounts[u].status = "absent" /\ accounts[u].epoch = 0
  BY DEF RegisterCommit, At, IInv, RequestsNameRows, NamesRows, RowsHaveOwners
<1>2. /\ \A v \in Users : /\ accounts'[v] = IF v = u THEN new ELSE accounts[v]
                          /\ history'[v] = IF v = u THEN heard ELSE history[v]
      /\ \A s \in Sids : sessions'[s] = IF s = t THEN row ELSE sessions[s]
  BY DEF RegisterCommit, IInv, TypeOK
<1>3. /\ new.password = pw /\ new.failed = 0 /\ new.totp = FALSE /\ new.epoch = 0
      /\ heard.chosen = pw /\ heard.strikes = 0
      /\ row.user = u /\ row.parent = None /\ row.proof = 0
  BY DEF NoAccount, NoHistory, Issued
<1> HIDE DEF new, heard, row
<1>4. ASSUME NEW v \in Users PROVE KeepsPromises(v)'
  BY <1>2, <1>3 DEF SequentialInv, KeepsPromises, Active
<1>5. \A s \in Sids : sessions[s].status = "live" => /\ sessions[s].user \in Users
                                                     /\ sessions[s].user # u
  BY <1>1 DEF IInv, NoRowOutlivesItsUser, Active, RowsHaveOwners
<1>6. SessionsFollowCredentials'
  BY <1>1, <1>2, <1>3, <1>5 DEF SequentialInv, SessionsFollowCredentials
<1>7. RotatedOnce' /\ ResetsWorkOnce'
  BY <1>1, <1>2, <1>3 DEF SequentialInv, RotatedOnce, ResetsWorkOnce
<1> QED
  BY <1>1, <1>4, <1>6, <1>7, SequentialWrite

LEMMA SequentialLogin ==
    ASSUME OneAtATime, IInv, SequentialInv, NEW w \in Workers, NEW t \in Sids,
           LoginSucceeded(w, t)
    PROVE  SequentialInv'
<1> DEFINE u     == requests[w].user
           pw    == requests[w].pw
           seen  == requests[w].row
           old   == accounts[u]
           new   == Admitted(seen, old, pw)
           heard == [history[u] EXCEPT !.strikes = 0, !.refusals = 0]
           row   == Issued(u, None, seen.epoch)
<1> USE ConstantsAssumption
<1>1. /\ u \in Users /\ Finish(w) /\ resets' = resets /\ pw = seen.password
      /\ requests[w].stage = "checked" /\ requests[w].op = "login"
      /\ old \in Account /\ history[u] \in History
  BY DEF LoginSucceeded, At, Verifies, IInv, TypeOK, RequestsNameRows, NamesRows
<1>2. /\ \A v \in Users : /\ accounts'[v] = IF v = u THEN new ELSE accounts[v]
                          /\ history'[v] = IF v = u THEN heard ELSE history[v]
      /\ \A s \in Sids : sessions'[s] = IF s = t THEN row ELSE sessions[s]
  BY DEF LoginSucceeded, IInv, TypeOK
<1>3. /\ Active(u) /\ seen.failed = old.failed /\ seen.password = old.password
      /\ seen.epoch = old.epoch
  BY <1>1 DEF SequentialInv, UpToDate
<1>4. /\ old.password = history[u].chosen
      /\ old.totp => old.secret # None /\ old.secret = history[u].verified
  BY <1>1, <1>3 DEF SequentialInv, KeepsPromises
<1>5. /\ new.status = old.status /\ new.epoch = old.epoch
      /\ new.totp = old.totp /\ new.secret = old.secret
      /\ new.failed = Written(seen.failed, 0, old.failed)
      /\ new.password = IF seen.legacy THEN pw ELSE old.password
  BY <1>1 DEF Admitted, Account
<1>6. new.failed = 0 /\ new.password = old.password
  BY <1>1, <1>3, <1>5 DEF Written
<1>7. /\ heard.strikes = 0 /\ heard.chosen = history[u].chosen
      /\ heard.verified = history[u].verified
      /\ row.user = u /\ row.parent = None /\ row.proof = old.epoch
  BY <1>1, <1>3 DEF History, Issued
<1> HIDE DEF new, heard, row
<1>8. ASSUME NEW v \in Users PROVE KeepsPromises(v)'
  <2>1. CASE v = u
    BY <2>1, <1>2, <1>4, <1>5, <1>6, <1>7 DEF KeepsPromises
  <2>2. CASE v # u
    BY <2>2, <1>2 DEF SequentialInv, KeepsPromises, Active
  <2> QED
    BY <2>1, <2>2
<1>9. SessionsFollowCredentials'
  BY <1>1, <1>2, <1>5, <1>7
  DEF SequentialInv, SessionsFollowCredentials, IInv, RowsHaveOwners
<1>10. RotatedOnce' /\ ResetsWorkOnce'
  BY <1>1, <1>2, <1>7 DEF SequentialInv, RotatedOnce, ResetsWorkOnce
<1> QED
  BY <1>1, <1>8, <1>9, <1>10, SequentialWrite

LEMMA SequentialRefresh ==
    ASSUME OneAtATime, IInv, SequentialInv, NEW w \in Workers, NEW t \in Sids,
           RefreshCommit(w, t)
    PROVE  SequentialInv'
<1> DEFINE u    == requests[w].user
           s    == requests[w].sid
           seen == requests[w].row
           row  == Issued(u, s, seen.epoch)
           old  == [sessions[s] EXCEPT !.status = "revoked"]
<1> USE ConstantsAssumption
<1>1. /\ u \in Users /\ s \in Sids /\ Finish(w)
      /\ UNCHANGED <<accounts, resets, history>>
      /\ requests[w].stage = "checked" /\ requests[w].op = "refresh"
      /\ sessions[s] \in Session
  BY DEF RefreshCommit, At, IInv, TypeOK, RequestsNameRows, NamesRows, Request
<1>2. Unrevoked(s) /\ seen.epoch = accounts[u].epoch
  BY <1>1 DEF SequentialInv, UpToDate
<1>3. /\ s # t /\ sessions'[s] = old /\ sessions'[t] = row
      /\ \A x \in Sids \ {s, t} : sessions'[x] = sessions[x]
  BY <1>1, <1>2 DEF RefreshCommit, Revoked, Unrevoked, IInv, TypeOK
<1>4. /\ old.status = "revoked" /\ old.parent = sessions[s].parent
      /\ row.user = u /\ row.parent = s /\ row.proof = accounts[u].epoch
  BY <1>1, <1>2 DEF Session, Issued
<1> HIDE DEF old, row
<1>5. \A v \in Users : KeepsPromises(v)'
  BY <1>1 DEF SequentialInv, KeepsPromises, Active
<1>6. SessionsFollowCredentials'
  BY <1>1, <1>3, <1>4 DEF SequentialInv, SessionsFollowCredentials
<1>7. \A x \in Sids : sessions[x].parent # s
  BY <1>1, <1>2 DEF IInv, RotatedParentsStayDead, Unrevoked
<1>8. RotatedOnce'
  BY <1>3, <1>4, <1>7 DEF SequentialInv, RotatedOnce
<1>9. ResetsWorkOnce'
  BY <1>1 DEF SequentialInv, ResetsWorkOnce
<1> QED
  BY <1>1, <1>5, <1>6, <1>8, <1>9, SequentialWrite

LEMMA SequentialLogout ==
    ASSUME OneAtATime, IInv, SequentialInv, NEW w \in Workers, Logout(w)
    PROVE  SequentialInv'
<1> USE ConstantsAssumption
<1>1. Finish(w) /\ UNCHANGED <<accounts, resets, history>>
  BY DEF Logout
<1>2. \A s \in Sids : /\ sessions'[s].status = "live" => sessions'[s] = sessions[s]
                      /\ sessions'[s].parent = sessions[s].parent
  BY DEF Logout, Revoked, IInv, TypeOK, Session
<1>3. \A v \in Users : KeepsPromises(v)'
  BY <1>1 DEF SequentialInv, KeepsPromises, Active
<1>4. SessionsFollowCredentials' /\ RotatedOnce' /\ ResetsWorkOnce'
  BY <1>1, <1>2
  DEF SequentialInv, SessionsFollowCredentials, RotatedOnce, ResetsWorkOnce
<1> QED
  BY <1>1, <1>3, <1>4, SequentialWrite

LEMMA SequentialRevocation ==
    ASSUME OneAtATime, IInv, SequentialInv, NEW w \in Workers,
           LogoutAll(w) \/ ChangePasswordCommit(w) \/ ConfirmResetCommit(w)
    PROVE  SequentialInv'
<1> DEFINE u == requests[w].user
<1> USE ConstantsAssumption
<1>1. /\ u \in Users /\ accounts[u] \in Account /\ history[u] \in History
      /\ accounts \in [Users -> Account] /\ history \in [Users -> History]
      /\ resets \in [Rids -> Reset] /\ sessions \in [Sids -> Session]
  BY DEF LogoutAll, ChangePasswordCommit, ConfirmResetCommit, At, IInv,
         RequestsNameRows, NamesRows, TypeOK
<1>2. Finish(w) /\ sessions' = RevokedAllOf(u)
  BY DEF LogoutAll, ChangePasswordCommit, ConfirmResetCommit, PasswordReplaced
<1>3. ASSUME NEW s \in Sids
      PROVE  /\ sessions'[s].parent = sessions[s].parent
             /\ sessions'[s].status = "live" => /\ sessions'[s] = sessions[s]
                                                /\ sessions[s].user # u
  <2>1. sessions'[s] = IF sessions[s].user = u /\ Unrevoked(s)
                       THEN Revoked(s) ELSE sessions[s]
    BY <1>2 DEF RevokedAllOf
  <2> QED
    BY <1>1, <2>1 DEF Revoked, Unrevoked, Session
<1>4. RotatedOnce'
  BY <1>3 DEF SequentialInv, RotatedOnce
<1>5. ASSUME \A v \in Users \ {u} : accounts'[v] = accounts[v]
      PROVE  SessionsFollowCredentials'
  BY <1>3, <1>5 DEF SequentialInv, SessionsFollowCredentials, IInv, RowsHaveOwners
<1>6. CASE LogoutAll(w)
  <2>1. accounts' = [accounts EXCEPT ![u].epoch =
                        IF Active(u) THEN accounts[u].epoch + 1 ELSE accounts[u].epoch]
    BY <1>6 DEF LogoutAll
  <2>2. /\ \A v \in Users : /\ accounts'[v].status = accounts[v].status
                            /\ accounts'[v].password = accounts[v].password
                            /\ accounts'[v].failed = accounts[v].failed
                            /\ accounts'[v].secret = accounts[v].secret
                            /\ accounts'[v].totp = accounts[v].totp
        /\ \A v \in Users \ {u} : accounts'[v] = accounts[v]
    BY <1>1, <2>1 DEF Account
  <2>3. UNCHANGED <<resets, history>>
    BY <1>6 DEF LogoutAll
  <2>4. ASSUME NEW v \in Users PROVE KeepsPromises(v)'
    BY <2>2, <2>3 DEF SequentialInv, KeepsPromises, Active
  <2>5. ResetsWorkOnce'
    BY <2>3 DEF SequentialInv, ResetsWorkOnce
  <2> QED
    BY <1>2, <1>4, <1>5, <2>2, <2>4, <2>5, SequentialWrite
<1>7. ASSUME Active(u), PasswordReplaced(u, requests[w].pw)
      PROVE  /\ \A v \in Users : KeepsPromises(v)'
             /\ SessionsFollowCredentials'
  <2> DEFINE new == Rekeyed(accounts[u], requests[w].pw)
             heard == [history[u] EXCEPT !.chosen = requests[w].pw]
  <2>1. \A v \in Users : /\ accounts'[v] = IF v = u THEN new ELSE accounts[v]
                         /\ history'[v] = IF v = u THEN heard ELSE history[v]
    BY <1>1, <1>7 DEF PasswordReplaced
  <2>2. /\ new.password = requests[w].pw /\ new.failed = accounts[u].failed
        /\ new.secret = accounts[u].secret /\ new.totp = accounts[u].totp
        /\ heard.chosen = requests[w].pw /\ heard.strikes = history[u].strikes
        /\ heard.verified = history[u].verified
    BY <1>1 DEF Rekeyed, Account, History
  <2> HIDE DEF new, heard
  <2>3. ASSUME NEW v \in Users PROVE KeepsPromises(v)'
    BY <2>1, <2>2 DEF SequentialInv, KeepsPromises, Active
  <2> QED
    BY <1>5, <2>1, <2>3
<1>8. CASE ChangePasswordCommit(w)
  <2>1. ResetsWorkOnce'
    BY <1>8 DEF ChangePasswordCommit, SequentialInv, ResetsWorkOnce
  <2> QED
    BY <1>2, <1>4, <1>7, <1>8, <2>1, SequentialWrite DEF ChangePasswordCommit
<1>9. CASE ConfirmResetCommit(w)
  <2> DEFINE r == requests[w].rid
             used == MarkedUsed(r)
  <2>1. r \in Rids /\ requests[w].op = "confirm_reset" /\ resets[r] \in Reset
    BY <1>1, <1>9 DEF ConfirmResetCommit, At, IInv, RequestsNameRows, NamesRows,
                      TypeOK, Request
  <2>2. resets[r].uses = 0
    BY <2>1 DEF SequentialInv, UpToDate
  <2>3. used.status = "used" /\ used.uses = 1
    BY <2>1, <2>2 DEF MarkedUsed, Reset
  <2>4. \A x \in Rids : resets'[x] = IF x = r THEN used ELSE resets[x]
    BY <1>1, <1>9, <2>1 DEF ConfirmResetCommit
  <2> HIDE DEF used
  <2>5. ResetsWorkOnce'
    BY <2>3, <2>4 DEF SequentialInv, ResetsWorkOnce
  <2> QED
    BY <1>2, <1>4, <1>7, <1>9, <2>5, SequentialWrite DEF ConfirmResetCommit
<1> QED
  BY <1>6, <1>8, <1>9

LEMMA SequentialRequestReset ==
    ASSUME OneAtATime, IInv, SequentialInv, NEW w \in Workers, NEW r \in Rids,
           RequestResetCommit(w, r)
    PROVE  SequentialInv'
<1> DEFINE row == [NoReset EXCEPT !.status = "valid", !.user = requests[w].user]
<1>1. Finish(w) /\ UNCHANGED <<accounts, sessions, history>>
  BY DEF RequestResetCommit
<1>2. /\ row.uses = 0
      /\ \A x \in Rids : resets'[x] = IF x = r THEN row ELSE resets[x]
  BY DEF RequestResetCommit, NoReset, IInv, TypeOK
<1> HIDE DEF row
<1>3. \A v \in Users : KeepsPromises(v)'
  BY <1>1 DEF SequentialInv, KeepsPromises, Active
<1>4. SessionsFollowCredentials' /\ RotatedOnce'
  BY <1>1 DEF SequentialInv, SessionsFollowCredentials, RotatedOnce
<1>5. ResetsWorkOnce'
  BY <1>2 DEF SequentialInv, ResetsWorkOnce
<1> QED
  BY <1>1, <1>3, <1>4, <1>5, SequentialWrite

LEMMA SequentialErase ==
    ASSUME OneAtATime, IInv, SequentialInv, NEW w \in Workers, Erase(w)
    PROVE  SequentialInv'
<1> DEFINE u   == requests[w].user
           new == [NoAccount EXCEPT !.status = "erased"]
<1> USE ConstantsAssumption
<1>1. u \in Users /\ Finish(w)
  BY DEF Erase, At, IInv, RequestsNameRows, NamesRows
<1>2. \A v \in Users : /\ accounts'[v] = IF v = u THEN new ELSE accounts[v]
                       /\ history'[v] = IF v = u THEN NoHistory ELSE history[v]
  BY DEF Erase, IInv, TypeOK
<1>3. /\ new.status = "erased" /\ new.failed = 0 /\ new.totp = FALSE
      /\ NoHistory.strikes = 0
  BY DEF NoAccount, NoHistory
<1> HIDE DEF new
<1>4. ASSUME NEW v \in Users PROVE KeepsPromises(v)'
  <2>1. CASE v = u
    BY <2>1, <1>2, <1>3 DEF KeepsPromises, Active
  <2>2. CASE v # u
    BY <2>2, <1>2 DEF SequentialInv, KeepsPromises, Active
  <2> QED
    BY <2>1, <2>2
<1>5. \A s \in Sids : /\ sessions'[s].parent = sessions[s].parent
                      /\ sessions'[s].status = "live" =>
                            sessions'[s] = sessions[s] /\ sessions[s].user # u
  BY DEF Erase, IInv, TypeOK, Session
<1>6. \A r \in Rids : /\ resets'[r].uses = resets[r].uses
                      /\ resets'[r].status \in {resets[r].status, "gone"}
  BY DEF Erase, IInv, TypeOK, Reset
<1>7. SessionsFollowCredentials'
  BY <1>2, <1>5 DEF SequentialInv, SessionsFollowCredentials, IInv, RowsHaveOwners
<1>8. RotatedOnce' /\ ResetsWorkOnce'
  BY <1>5, <1>6 DEF SequentialInv, RotatedOnce, ResetsWorkOnce
<1> QED
  BY <1>1, <1>4, <1>7, <1>8, SequentialWrite

\* Time passes in the middle of a request; what it has read stays true, except
\* whether the lock of its account is over, which no write compares.
LEMMA SequentialClock ==
    ASSUME OneAtATime, IInv, SequentialInv, Clock
    PROVE  SequentialInv'
<1> USE ConstantsAssumption
<1>1. requests' = requests /\ history' = history
  BY DEF Clock, LapseSession, LapseReset, LapseLock
<1>2. \A u \in Users : /\ accounts'[u].status = accounts[u].status
                       /\ accounts'[u].password = accounts[u].password
                       /\ accounts'[u].failed = accounts[u].failed
                       /\ accounts'[u].epoch = accounts[u].epoch
                       /\ accounts'[u].secret = accounts[u].secret
                       /\ accounts'[u].totp = accounts[u].totp
  BY DEF Clock, LapseSession, LapseReset, LapseLock, IInv, TypeOK, Account
<1>3. \A s \in Sids : /\ sessions'[s].parent = sessions[s].parent
                      /\ sessions'[s].status = "live" => sessions'[s] = sessions[s]
                      /\ Unrevoked(s) => Unrevoked(s)'
  BY DEF Clock, LapseSession, LapseReset, LapseLock, IInv, TypeOK, Session, Unrevoked
<1>4. \A r \in Rids : /\ resets'[r].uses = resets[r].uses
                      /\ \/ resets'[r].status = resets[r].status
                         \/ resets[r].status = "valid"
  BY DEF Clock, LapseSession, LapseReset, LapseLock, IInv, TypeOK, Reset
<1>5. ASSUME NEW v \in Users PROVE KeepsPromises(v)'
  BY <1>1, <1>2 DEF SequentialInv, KeepsPromises, Active
<1>6. SessionsFollowCredentials' /\ RotatedOnce' /\ ResetsWorkOnce'
  BY <1>2, <1>3, <1>4
  DEF SequentialInv, SessionsFollowCredentials, RotatedOnce, ResetsWorkOnce,
      IInv, RowsHaveOwners
<1>7. ASSUME NEW w \in Workers PROVE UpToDate(requests[w])'
  <2> DEFINE q == requests[w]
  <2>1. /\ q \in Request /\ NamesRows(q) /\ UpToDate(q)
    BY DEF IInv, TypeOK, RequestsNameRows, SequentialInv
  <2>2. /\ q.stage = "checked" => q.user \in Users
        /\ q.op = "refresh" => q.sid \in Sids
        /\ q.op = "confirm_reset" => q.rid \in Rids
    BY <2>1 DEF NamesRows, Request
  <2> QED
    BY <1>1, <1>2, <1>3, <1>4, <2>1, <2>2 DEF UpToDate, Active
<1> QED
  BY <1>5, <1>6, <1>7 DEF SequentialInv

LEMMA SequentialRedeploy ==
    ASSUME OneAtATime, IInv, SequentialInv, Redeploy
    PROVE  SequentialInv'
<1>1. \A u \in Users : /\ accounts'[u].status = accounts[u].status
                       /\ accounts'[u].password = accounts[u].password
                       /\ accounts'[u].failed = accounts[u].failed
                       /\ accounts'[u].epoch = accounts[u].epoch
                       /\ accounts'[u].secret = accounts[u].secret
                       /\ accounts'[u].totp = accounts[u].totp
  BY DEF Redeploy, IInv, TypeOK, Account
<1>2. UNCHANGED <<sessions, resets, history>>
  BY DEF Redeploy
<1>3. ASSUME NEW v \in Users PROVE KeepsPromises(v)'
  BY <1>1, <1>2 DEF SequentialInv, KeepsPromises, Active
<1>4. SessionsFollowCredentials' /\ RotatedOnce' /\ ResetsWorkOnce'
  BY <1>1, <1>2
  DEF SequentialInv, SessionsFollowCredentials, RotatedOnce, ResetsWorkOnce,
      IInv, RowsHaveOwners
<1>5. ASSUME NEW w \in Workers PROVE UpToDate(requests[w])'
  <2>1. requests'[w] = Idle
    BY DEF Redeploy
  <2> QED
    BY <2>1, ConstantsAssumption DEF UpToDate, Idle, Ops, AuthedOps
<1> QED
  BY <1>3, <1>4, <1>5 DEF SequentialInv

LEMMA NextSequential ==
    ASSUME OneAtATime
    PROVE  IInv /\ SequentialInv /\ [Next]_vars => SequentialInv'
<1> SUFFICES ASSUME IInv, SequentialInv, [Next]_vars PROVE SequentialInv'
  OBVIOUS
<1>1. ASSUME NEW w \in Workers, Step(w) PROVE SequentialInv'
  BY <1>1, SequentialReads, SequentialColumns, SequentialRegister,
     SequentialLogin, SequentialRefresh, SequentialLogout, SequentialRevocation,
     SequentialRequestReset, SequentialErase DEF Step
<1>2. CASE UNCHANGED vars
  BY <1>2 DEF vars, SequentialInv, KeepsPromises, UpToDate, Active, Unrevoked,
     SessionsFollowCredentials, RotatedOnce, ResetsWorkOnce
<1> QED
  BY <1>1, <1>2, SequentialClock, SequentialRedeploy DEF Next

LEMMA SequentialInvariance == ASSUME OneAtATime PROVE Spec => []SequentialInv
<1>1. IInv /\ SequentialInv /\ [Next]_vars => SequentialInv'
  BY NextSequential
<1> QED
  BY <1>1, InitSequential, Invariance, PTL DEF Spec

\* change_password and confirm_password_reset leave no session that was issued
\* for the password they replaced, while requests come one at a time.
THEOREM SessionsEndWithCredentials ==
    ASSUME OneAtATime
    PROVE  Spec => []SessionsFollowCredentials
<1>1. SequentialInv => SessionsFollowCredentials
  BY DEF SequentialInv
<1> QED
  BY <1>1, SequentialInvariance, PTL

\* refresh rotates a session once and confirm_password_reset accepts a token
\* once, while requests come one at a time.
THEOREM TokensServeOnce ==
    ASSUME OneAtATime
    PROVE  Spec => []TokensWorkOnce
<1>1. SequentialInv => TokensWorkOnce
  BY DEF SequentialInv, TokensWorkOnce, ResetsWorkOnce
<1> QED
  BY <1>1, SequentialInvariance, PTL

\* login locks the account on the wrong password that makes max_failed_logins,
\* also when logins with the right password and a wrong TOTP code, which are not
\* counted, come between, while requests come one at a time.
THEOREM WrongPasswordsAreCounted ==
    ASSUME OneAtATime
    PROVE  Spec => []WrongPasswordsLockAccount
<1>1. IInv /\ SequentialInv => WrongPasswordsLockAccount
  <2> SUFFICES ASSUME IInv, SequentialInv, NEW u \in Users
               PROVE  history[u].strikes < MaxFailedLogins
    BY DEF WrongPasswordsLockAccount
  <2>1. accounts[u].failed \in 0 .. MaxFailedLogins - 1 /\ history[u].strikes \in Nat
    BY ConstantsAssumption DEF IInv, TypeOK, Account, History
  <2> QED
    BY <2>1, ConstantsAssumption DEF SequentialInv, KeepsPromises
<1> QED
  BY <1>1, Invariance, SequentialInvariance, PTL

\* Logins that rehash, and TOTP enrolment and its withdrawal, keep the password
\* and the verified secret the user was told of, while requests come one at a
\* time.
THEOREM CredentialsStayTheUsers ==
    ASSUME OneAtATime
    PROVE  Spec => []CredentialsAreTheUsers
<1>1. IInv /\ SequentialInv => CredentialsAreTheUsers
  BY DEF IInv, SequentialInv, KeepsPromises, CredentialsAreTheUsers,
         StoredPasswordIsChosen, EnabledSecretWasVerified
<1> QED
  BY <1>1, Invariance, SequentialInvariance, PTL

=============================================================================
