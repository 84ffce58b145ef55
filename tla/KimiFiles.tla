----------------------------- MODULE KimiFiles ------------------------------
(***************************************************************************)
(* Files of the Kimi3 server: rows in the database, encrypted blobs on     *)
(* disk and download tokens (services/file_service.py), and the erasure of *)
(* users and tenants and the retention purge that remove them              *)
(* (services/compliance_service.py, main.py).                              *)
(*                                                                         *)
(* A blob is written and unlinked outside the transaction of the request.  *)
(* SELECTs see what is committed; the first INSERT, UPDATE or DELETE takes *)
(* the one write lock, which get_db releases when it commits or rolls back *)
(* at the end of the request.  SQLite enforces no foreign key here.        *)
(* A crash of the process is the abort of every request in flight.         *)
(***************************************************************************)
EXTENDS Naturals, FiniteSets

CONSTANTS
    Files,      \* ids of files; each has a blob path of its own
    Users, Orgs, Tokens,
    OwnerOf,    \* the user each file id is uploaded by
    OrgOf,      \* the tenant each user is a member of
    RoleOf,     \* the role of each member
    Workers,    \* requests that can be in flight together
    System,     \* the retention loop of main.py, one of Workers
    None,
    MaxFaults,  \* bound of the model on aborted requests
    Regimes     \* sets of operations issued only while nothing else runs

Ops == {"upload", "delete", "token", "download", "eraseUser", "eraseOrg", "purge",
        "changePlan"}

ASSUME FilesAssumption ==
    /\ OwnerOf \in [Files -> Users]
    /\ OrgOf \in [Users -> Orgs]
    /\ RoleOf \in [Users -> {"owner", "admin", "member", "viewer"}]
    /\ System \in Workers /\ IsFiniteSet(Workers)
    /\ None \notin Files \cup Users \cup Tokens \cup Workers \cup Ops
    /\ MaxFaults \in Nat
    /\ Regimes \subseteq SUBSET Ops

VARIABLES
    rows,      \* committed rows of file_assets
    blobs,     \* files whose blob is on disk
    users,     \* users with an account
    orgs,      \* tenants that exist
    plan,      \* plan of each tenant's subscription
    tokens,    \* committed rows of download_tokens
    lock,      \* holder of the database's write lock
    requests,  \* what each in-flight request has done and read
    faults,    \* aborts so far
    loop,      \* the retention loop is alive
    alone,     \* ghost: the operations that no other request overlaps here
    lost       \* ghost: live files whose blob a request unlinked and then aborted

vars == <<rows, blobs, users, orgs, plan, tokens, lock, requests, faults, loop, alone, lost>>

\* age of a deleted row: how many of the two retention windows have passed.
Row == [status : {"unused", "live", "deleted", "gone"}, age : 0 .. 2]

\* uses (ghost): the downloads answered for the token.
Token == [status : {"unused", "valid", "used", "gone"}, file : Files \cup {None},
          uses : 0 .. Cardinality(Workers)]

Request == [op    : Ops \cup {None},
            stage : {"idle", "started", "written", "read", "flushed", "unlinking"},
            user  : Users \cup {None},
            file  : Files \cup {None},
            token : Tokens \cup {None},
            todo  : SUBSET Orgs,    \* tenants a purge has still to visit
            paths : SUBSET Files,   \* blobs still to unlink
            rows  : SUBSET Files]   \* rows deleted in the transaction

Idle == [op |-> None, stage |-> "idle", user |-> None, file |-> None,
         token |-> None, todo |-> {}, paths |-> {}, rows |-> {}]

TypeOK ==
    /\ rows \in [Files -> Row]
    /\ blobs \subseteq Files
    /\ users \subseteq Users
    /\ orgs \subseteq Orgs
    /\ plan \in [Orgs -> {"free", "paid"}]
    /\ tokens \in [Tokens -> Token]
    /\ lock \in Workers \cup {None}
    /\ requests \in [Workers -> Request]
    /\ faults \in 0 .. MaxFaults
    /\ loop \in BOOLEAN
    /\ alone \in Regimes
    /\ lost \subseteq Files

Init ==
    /\ rows = [f \in Files |-> [status |-> "unused", age |-> 0]]
    /\ blobs = {}
    /\ users = Users
    /\ orgs = Orgs
    /\ plan = [o \in Orgs |-> "free"]
    /\ tokens = [t \in Tokens |-> [status |-> "unused", file |-> None, uses |-> 0]]
    /\ lock = None
    /\ requests = [w \in Workers |-> Idle]
    /\ faults = 0
    /\ loop = TRUE
    /\ alone \in Regimes
    /\ lost = {}

-----------------------------------------------------------------------------
(* A definition Bad... is a plausible mistake in the definition after it; no *)
(* specification uses it, it is there to show that a property notices it.  *)

Stored(f) == rows[f].status \in {"live", "deleted"}

Admin(u) == RoleOf[u] \in {"owner", "admin"}

\* A member of an existing tenant: what get_tenant_context lets pass.
Member(u) == u \in users /\ OrgOf[u] \in orgs

\* get_by_id_and_org and the deleted_at check, for a request of user u.
Readable(u, f) == rows[f].status = "live" /\ OrgOf[OwnerOf[f]] = OrgOf[u]

\* Rows the DELETE statements of an erasure match.
BadFilesOf(u) == {f \in Files : rows[f].status = "live" /\ OwnerOf[f] = u}
FilesOf(u) == {f \in Files : Stored(f) /\ OwnerOf[f] = u}
FilesIn(o) == {f \in Files : Stored(f) /\ OrgOf[OwnerOf[f]] = o}

\* retention_days_for_plan, as the age a row must have reached.
Window(o) == IF plan[o] = "free" THEN 1 ELSE 2

\* Deleted rows past their tenant's own window.
BadExpired(o) == {f \in FilesIn(o) : rows[f].status = "deleted" /\ rows[f].age >= 1}
Expired(o) == {f \in FilesIn(o) : rows[f].status = "deleted" /\ rows[f].age >= Window(o)}

Begin(w, q) ==
    /\ requests[w] = Idle
    /\ \A v \in Workers : requests[v].op \notin alone
    /\ q.op \in alone => \A v \in Workers : requests[v] = Idle
    /\ requests' = [requests EXCEPT ![w] = q]

At(w, op, stage) == requests[w].op = op /\ requests[w].stage = stage

Advance(w, stage) == requests' = [requests EXCEPT ![w].stage = stage]

TakeLock(w) == lock \in {None, w} /\ lock' = w

\* get_db commits and the request is answered.
Finish(w) ==
    /\ requests' = [requests EXCEPT ![w] = Idle]
    /\ lock' = IF lock = w THEN None ELSE lock

-----------------------------------------------------------------------------
(* upload_file                                                             *)

UploadStart(w, f) ==
    /\ w # System
    /\ Member(OwnerOf[f]) /\ RoleOf[OwnerOf[f]] # "viewer"
    /\ rows[f].status = "unused" /\ f \notin blobs
    /\ \A v \in Workers : requests[v].file # f
    /\ Begin(w, [Idle EXCEPT !.op = "upload", !.stage = "started",
                             !.user = OwnerOf[f], !.file = f])
    /\ UNCHANGED <<rows, blobs, users, orgs, plan, tokens, lock, faults, loop, alone, lost>>

\* _tenant_kek, then _write_blob in a thread.
UploadWrite(w) ==
    /\ At(w, "upload", "started")
    /\ OrgOf[requests[w].user] \in orgs
    /\ blobs' = blobs \cup {requests[w].file}
    /\ Advance(w, "written")
    /\ UNCHANGED <<rows, users, orgs, plan, tokens, lock, faults, loop, alone, lost>>

UploadFlush(w) ==
    /\ At(w, "upload", "written")
    /\ TakeLock(w)
    /\ Advance(w, "flushed")
    /\ UNCHANGED <<rows, blobs, users, orgs, plan, tokens, faults, loop, alone, lost>>

UploadCommit(w) ==
    /\ At(w, "upload", "flushed")
    /\ rows' = [rows EXCEPT ![requests[w].file].status = "live"]
    /\ Finish(w)
    /\ UNCHANGED <<blobs, users, orgs, plan, tokens, faults, loop, alone, lost>>

-----------------------------------------------------------------------------
(* delete_file: the uploader or an admin of the tenant.                     *)

DeleteStart(w, u, f) ==
    /\ w # System
    /\ Member(u) /\ Readable(u, f)
    /\ u = OwnerOf[f] \/ Admin(u)
    /\ Begin(w, [Idle EXCEPT !.op = "delete", !.stage = "started",
                             !.user = u, !.file = f])
    /\ UNCHANGED <<rows, blobs, users, orgs, plan, tokens, lock, faults, loop, alone, lost>>

\* The UPDATE of a row that an erasure has removed matches nothing and raises.
DeleteFlush(w) ==
    LET q == requests[w] IN
    /\ At(w, "delete", "started")
    /\ Stored(q.file)
    /\ TakeLock(w)
    /\ requests' = [requests EXCEPT ![w] =
                        [@ EXCEPT !.stage = "unlinking", !.paths = {q.file}]]
    /\ UNCHANGED <<rows, blobs, users, orgs, plan, tokens, faults, loop, alone, lost>>

\* Nothing is answered before every blob is unlinked.
UnlinkedAll(w) == requests[w].stage = "unlinking" /\ requests[w].paths = {}

DeleteCommit(w) ==
    /\ requests[w].op = "delete" /\ UnlinkedAll(w)
    /\ rows' = [rows EXCEPT ![requests[w].file] = [status |-> "deleted", age |-> 0]]
    /\ Finish(w)
    /\ UNCHANGED <<blobs, users, orgs, plan, tokens, faults, loop, alone, lost>>

\* delete_blob, for a deletion, an erasure or a purge; idempotent.
Unlink(w, f) ==
    /\ requests[w].stage = "unlinking"
    /\ f \in requests[w].paths
    /\ blobs' = blobs \ {f}
    /\ requests' = [requests EXCEPT ![w].paths = @ \ {f}]
    /\ UNCHANGED <<rows, users, orgs, plan, tokens, lock, faults, loop, alone, lost>>

-----------------------------------------------------------------------------
(* create_download_token and download_file                                  *)

TokenStart(w, u, t, f) ==
    /\ w # System
    /\ Member(u) /\ Readable(u, f)
    /\ tokens[t].status = "unused"
    /\ \A v \in Workers : requests[v].token # t
    /\ Begin(w, [Idle EXCEPT !.op = "token", !.stage = "started", !.user = u,
                             !.file = f, !.token = t])
    /\ UNCHANGED <<rows, blobs, users, orgs, plan, tokens, lock, faults, loop, alone, lost>>

TokenCommit(w) ==
    LET q == requests[w] IN
    /\ At(w, "token", "started")
    /\ lock = None
    /\ tokens' = [tokens EXCEPT ![q.token] = [@ EXCEPT !.status = "valid", !.file = q.file]]
    /\ Finish(w)
    /\ UNCHANGED <<rows, blobs, users, orgs, plan, faults, loop, alone, lost>>

\* The path's {file_id} is not used: the token names the file.
DownloadStart(w, u, t) ==
    /\ w # System
    /\ Member(u)
    /\ tokens[t].status = "valid"
    /\ Readable(u, tokens[t].file)
    /\ Begin(w, [Idle EXCEPT !.op = "download", !.stage = "started", !.user = u,
                             !.file = tokens[t].file, !.token = t])
    /\ UNCHANGED <<rows, blobs, users, orgs, plan, tokens, lock, faults, loop, alone, lost>>

DownloadRead(w) ==
    /\ At(w, "download", "started")
    /\ requests[w].file \in blobs
    /\ OrgOf[requests[w].user] \in orgs
    /\ Advance(w, "read")
    /\ UNCHANGED <<rows, blobs, users, orgs, plan, tokens, lock, faults, loop, alone, lost>>

DownloadFlush(w) ==
    /\ At(w, "download", "read")
    /\ tokens[requests[w].token].status # "gone"
    /\ TakeLock(w)
    /\ Advance(w, "flushed")
    /\ UNCHANGED <<rows, blobs, users, orgs, plan, tokens, faults, loop, alone, lost>>

BadSpent(token) == token
Spent(token) == [token EXCEPT !.status = "used"]

DownloadCommit(w) ==
    LET token == tokens[requests[w].token] IN
    /\ At(w, "download", "flushed")
    /\ tokens' = [tokens EXCEPT ![requests[w].token] =
                      [Spent(token) EXCEPT !.uses = token.uses + 1]]
    /\ Finish(w)
    /\ UNCHANGED <<rows, blobs, users, orgs, plan, faults, loop, alone, lost>>

-----------------------------------------------------------------------------
(* erase_user: collect the paths, unlink, then delete the rows.             *)

EraseUserStart(w, u) ==
    /\ w # System
    /\ Member(u)
    /\ Begin(w, [Idle EXCEPT !.op = "eraseUser", !.stage = "unlinking",
                             !.user = u, !.paths = FilesOf(u)])
    /\ UNCHANGED <<rows, blobs, users, orgs, plan, tokens, lock, faults, loop, alone, lost>>

EraseUserFlush(w) ==
    /\ requests[w].op = "eraseUser" /\ UnlinkedAll(w)
    /\ TakeLock(w)
    /\ requests' = [requests EXCEPT ![w] =
                        [@ EXCEPT !.stage = "flushed", !.rows = FilesOf(requests[w].user)]]
    /\ UNCHANGED <<rows, blobs, users, orgs, plan, tokens, faults, loop, alone, lost>>

BadRowsRemoved(removed) ==
    rows' = [f \in Files |-> IF f \in removed /\ rows[f].status = "deleted"
                             THEN [status |-> "gone", age |-> 0] ELSE rows[f]]
RowsRemoved(removed) ==
    rows' = [f \in Files |-> IF f \in removed THEN [status |-> "gone", age |-> 0]
                             ELSE rows[f]]

TokensRemoved(removed) ==
    tokens' = [t \in Tokens |-> IF tokens[t].file \in removed
                                THEN [tokens[t] EXCEPT !.status = "gone"] ELSE tokens[t]]

EraseUserCommit(w) ==
    LET q == requests[w] IN
    /\ At(w, "eraseUser", "flushed")
    /\ RowsRemoved(q.rows) /\ TokensRemoved(q.rows)
    /\ users' = users \ {q.user}
    /\ Finish(w)
    /\ UNCHANGED <<blobs, orgs, plan, faults, loop, alone, lost>>

(* erase_organization: collect the paths, delete the rows, unlink, commit.  *)

EraseOrgStart(w, u) ==
    /\ w # System
    /\ Member(u) /\ RoleOf[u] = "owner"
    /\ Begin(w, [Idle EXCEPT !.op = "eraseOrg", !.stage = "started",
                             !.user = u, !.paths = FilesIn(OrgOf[u])])
    /\ UNCHANGED <<rows, blobs, users, orgs, plan, tokens, lock, faults, loop, alone, lost>>

EraseOrgFlush(w) ==
    /\ At(w, "eraseOrg", "started")
    /\ TakeLock(w)
    /\ requests' = [requests EXCEPT ![w] =
                        [@ EXCEPT !.stage = "unlinking", !.rows = FilesIn(OrgOf[requests[w].user])]]
    /\ UNCHANGED <<rows, blobs, users, orgs, plan, tokens, faults, loop, alone, lost>>

EraseOrgCommit(w) ==
    LET q == requests[w] IN
    /\ q.op = "eraseOrg" /\ UnlinkedAll(w)
    /\ RowsRemoved(q.rows) /\ TokensRemoved(q.rows)
    /\ orgs' = orgs \ {OrgOf[q.user]}
    /\ Finish(w)
    /\ UNCHANGED <<blobs, users, plan, faults, loop, alone, lost>>

-----------------------------------------------------------------------------
(* purge_expired_data of one tenant by its admin, purge_all_tenants by the  *)
(* retention loop: one transaction over all tenants.                       *)

PurgeStart(w, todo) ==
    /\ Begin(w, [Idle EXCEPT !.op = "purge", !.stage = "unlinking", !.todo = todo])
    /\ UNCHANGED <<rows, blobs, users, orgs, plan, tokens, lock, faults, loop, alone, lost>>

PurgeTenant(w, u) == w # System /\ Member(u) /\ Admin(u) /\ PurgeStart(w, {OrgOf[u]})

PurgeAll == loop /\ PurgeStart(System, orgs)

PurgeSelect(w, o) ==
    LET q == requests[w] IN
    /\ q.op = "purge" /\ UnlinkedAll(w)
    /\ o \in q.todo
    /\ requests' = [requests EXCEPT ![w] =
                        [q EXCEPT !.stage = "started", !.todo = q.todo \ {o},
                                  !.paths = Expired(o), !.rows = q.rows \cup Expired(o)]]
    /\ UNCHANGED <<rows, blobs, users, orgs, plan, tokens, lock, faults, loop, alone, lost>>

PurgeFlush(w) ==
    /\ At(w, "purge", "started")
    /\ IF requests[w].rows = {} THEN UNCHANGED lock ELSE TakeLock(w)
    /\ Advance(w, "unlinking")
    /\ UNCHANGED <<rows, blobs, users, orgs, plan, tokens, faults, loop, alone, lost>>

PurgeCommit(w) ==
    /\ requests[w].op = "purge" /\ UnlinkedAll(w)
    /\ requests[w].todo = {}
    /\ RowsRemoved(requests[w].rows)
    /\ Finish(w)
    /\ UNCHANGED <<blobs, users, orgs, plan, tokens, faults, loop, alone, lost>>

-----------------------------------------------------------------------------
\* _retention_enforcement_loop logs an exception and goes on.
BadSurvives(w) == w # System
Survives(w) == TRUE

\* w may have unlinked the blob of f, whose row it deletes when it commits.
Removes(w, f) ==
    LET q == requests[w] IN
    \/ At(w, "delete", "unlinking") /\ q.file = f
    \/ q.op = "eraseUser" /\ q.user = OwnerOf[f]
    \/ At(w, "eraseOrg", "unlinking") /\ OrgOf[q.user] = OrgOf[OwnerOf[f]]

Bare(f) == rows[f].status = "live" /\ f \notin blobs

\* An error, a busy timeout, a lost client or the end of the process: the
\* transaction is rolled back, what was unlinked is not.
Abort(w) ==
    /\ requests[w] # Idle
    /\ faults < MaxFaults
    /\ faults' = faults + 1
    /\ loop' = (loop /\ Survives(w))
    /\ lost' = lost \cup {f \in Files : Bare(f) /\ Removes(w, f)}
    /\ Finish(w)
    /\ UNCHANGED <<rows, blobs, users, orgs, plan, tokens, alone>>

\* A request whose next step raises because of what others have committed.
Refused(w) ==
    LET q == requests[w] IN
    \/ At(w, "upload", "started") /\ OrgOf[q.user] \notin orgs
    \/ At(w, "delete", "started") /\ ~Stored(q.file)
    \/ At(w, "download", "started") /\ (q.file \notin blobs \/ OrgOf[q.user] \notin orgs)
    \/ At(w, "download", "read") /\ tokens[q.token].status = "gone"

Fail(w) ==
    /\ Refused(w)
    /\ Finish(w)
    /\ UNCHANGED <<rows, blobs, users, orgs, plan, tokens, faults, loop, alone, lost>>

Expire(t) ==
    /\ tokens[t].status = "valid"
    /\ tokens' = [tokens EXCEPT ![t].status = "used"]
    /\ UNCHANGED <<rows, blobs, users, orgs, plan, lock, requests, faults, loop, alone, lost>>

\* A retention window lasts for days: no request on the file spans one.
Age(f) ==
    /\ rows[f].status = "deleted" /\ rows[f].age < 2
    /\ \A w \in Workers : requests[w].file # f
    /\ rows' = [rows EXCEPT ![f].age = @ + 1]
    /\ UNCHANGED <<blobs, users, orgs, plan, tokens, lock, requests, faults, loop, alone, lost>>

\* change_plan, as one step: it touches nothing else here.
ChangePlan(o) ==
    /\ o \in orgs
    /\ lock = None
    /\ "changePlan" \in alone => \A w \in Workers : requests[w] = Idle
    /\ plan' = [plan EXCEPT ![o] = IF @ = "free" THEN "paid" ELSE "free"]
    /\ UNCHANGED <<rows, blobs, users, orgs, tokens, lock, requests, faults, loop, alone, lost>>

Continue(w) ==
    \/ UploadWrite(w) \/ UploadFlush(w) \/ UploadCommit(w)
    \/ DeleteFlush(w) \/ DeleteCommit(w)
    \/ TokenCommit(w)
    \/ DownloadRead(w) \/ DownloadFlush(w) \/ DownloadCommit(w)
    \/ EraseUserFlush(w) \/ EraseUserCommit(w)
    \/ EraseOrgFlush(w) \/ EraseOrgCommit(w)
    \/ \E o \in Orgs : PurgeSelect(w, o)
    \/ PurgeFlush(w) \/ PurgeCommit(w)
    \/ \E f \in Files : Unlink(w, f)
    \/ Fail(w)

Start(w) ==
    \/ \E f \in Files : UploadStart(w, f)
    \/ \E u \in Users, f \in Files : DeleteStart(w, u, f)
    \/ \E u \in Users, t \in Tokens, f \in Files : TokenStart(w, u, t, f)
    \/ \E u \in Users, t \in Tokens : DownloadStart(w, u, t)
    \/ \E u \in Users : EraseUserStart(w, u) \/ EraseOrgStart(w, u) \/ PurgeTenant(w, u)

Next ==
    \/ \E w \in Workers : Start(w) \/ Continue(w) \/ Abort(w)
    \/ PurgeAll
    \/ \E t \in Tokens : Expire(t)
    \/ \E f \in Files : Age(f)
    \/ \E o \in Orgs : ChangePlan(o)

Spec == Init /\ [][Next]_vars

\* The event loop runs every request whose next step can be taken, and the
\* retention loop wakes up again and again.  SQLite lets a waiting writer in
\* eventually: clients are fewer than the waits it would lose for ever.
FairSpec ==
    /\ Spec
    /\ \A w \in Workers : SF_vars(Continue(w))
    /\ WF_vars(PurgeAll)

-----------------------------------------------------------------------------
(* Properties that hold however requests interleave.                       *)

\* "GDPR Art. 17: deletion must include the stored bytes, not just the database
\* record": once a file is answered as deleted its blob is off the disk, and no
\* upload, download or abort in flight leaves or puts it there.
DeletedFilesLeaveNoBytes ==
    \A f \in Files : rows[f].status = "deleted" => f \notin blobs

\* A file that can be listed can be read: its blob goes only when a request in
\* flight is about to delete its row, and stays away from a live row only where
\* such a request aborted after it had unlinked.
LiveFilesHaveBytes ==
    \A f \in Files : Bare(f) => f \in lost \/ \E w \in Workers : Removes(w, f)

RowsAndBytesAgree == TypeOK /\ DeletedFilesLeaveNoBytes /\ LiveFilesHaveBytes

\* Not checked, for it does not hold: compliance_service.py says "Physical blobs
\* are unlinked only after the DB transaction succeeded".  They are unlinked after
\* a flush (in erase_user before it), and get_db commits after the audit entry is
\* written: others see the row without its blob, and after an abort it stays so.
BytesOutliveTheirRow == \A f \in Files : ~Bare(f)

-----------------------------------------------------------------------------
(* Properties that hold as long as some operations overlap nothing.        *)

Remains(f) == OwnerOf[f] \in users /\ OrgOf[OwnerOf[f]] \in orgs

\* Erasure includes "the physical encrypted blobs of files the user uploaded":
\* no row and no blob of a user or a tenant that was erased.
NothingOutlivesItsOwner ==
    \A f \in Files : ~Remains(f) => ~Stored(f) /\ f \notin blobs

\* It is so while nothing overlaps an erasure and no upload was aborted between
\* its blob and its row.
ErasureIsComplete ==
    {"eraseUser", "eraseOrg"} \subseteq alone /\ faults = 0 => NothingOutlivesItsOwner

\* A download token is good for one download while downloads do not overlap.
TokensAreUsedOnce ==
    "download" \in alone => \A t \in Tokens : tokens[t].uses <= 1

\* A purge, of one tenant or of all, removes a row of a user and a tenant that
\* still exist only when it was deleted for as long as the tenant's own plan
\* says, while plans do not change during a purge.
RetentionRespected ==
    [][ "changePlan" \in alone =>
        \A f \in Files :
            Stored(f) /\ rows'[f].status = "gone" /\ Remains(f)' =>
                rows[f].status = "deleted" /\ rows[f].age >= Window(OrgOf[OwnerOf[f]]) ]_vars

-----------------------------------------------------------------------------
\* "Automatic GDPR Art. 5(1)(e) storage-limitation enforcement": what is deleted
\* for longer than any plan keeps it does go, whatever fails now and then, unless
\* its tenant is erased first.
RetentionEnforced ==
    \A f \in Files :
        rows[f].status = "deleted" /\ rows[f].age = 2 ~>
            rows[f].status = "gone" \/ OrgOf[OwnerOf[f]] \notin orgs

=============================================================================
