------------------------------ MODULE OpusFiles -----------------------------
(***************************************************************************)
(* Files of the Opus server: rows in the database and encrypted blobs on   *)
(* disk (services/file_service.py, utils/files.py), and what removes them: *)
(* the erasure of a user or of a tenant and the retention purge            *)
(* (services/compliance_service.py).                                       *)
(*                                                                         *)
(* A blob is written and unlinked outside the transaction.  A request      *)
(* under /organizations/{id} holds the database's one write lock from the  *)
(* metering of the call to its commit.  A download by token and the        *)
(* erasure of an account are no such requests: they take the lock with     *)
(* their first write.  A crash is the abort of every request in flight.    *)
(***************************************************************************)
EXTENDS AccessLevels, FiniteSets

CONSTANTS
    Files,      \* ids of files; each has a storage key of its own
    Users, Orgs,
    OwnerOf,    \* the user each file id is uploaded by
    OrgOf,      \* the tenant each user is a member of at the start
    RoleOf,     \* and in which role
    Workers,    \* requests that can be in flight together
    None,
    Quota,      \* how many files a plan stores; every file is of size one
    Window,     \* the retention window of a plan: 1 or 2
    MaxFaults,  \* bound of the model on aborted requests
    MaxTokens,  \* bound of the model on tokens that are valid together
    Regimes     \* operations clients issue, and those issued only alone

PlanNames == {"free", "paid"}

Ops == {"upload", "delete", "download", "purge", "eraseOrg", "eraseUser"}

ASSUME FilesAssumption ==
    /\ OwnerOf \in [Files -> Users] /\ OrgOf \in [Users -> Orgs]
    /\ RoleOf \in [Users -> Roles]
    /\ None \notin Files \cup Users \cup Workers \cup Roles \cup Ops
    /\ Quota \in [PlanNames -> Nat] /\ Window \in [PlanNames -> 1 .. 2]
    /\ MaxFaults \in Nat /\ MaxTokens \in Nat
    /\ Regimes \subseteq [issued : SUBSET Ops, alone : SUBSET Ops]

VARIABLES
    rows,      \* committed rows of files
    blobs,     \* files whose blob is on disk
    users,     \* accounts
    members,   \* users that are still members of their tenant
    plan,      \* the plan of each tenant, or None once erased
    tokens,    \* signed download tokens that have not expired
    lock,      \* holder of the database's write lock
    requests,  \* what each in-flight request has done and read
    faults,    \* aborts so far
    stray,     \* ghost: blobs of uploads that were aborted
    lost,      \* ghost: live files whose bytes an aborted erasure has removed
    regime     \* ghost: the operations clients issue, and issue alone, here

vars == <<rows, blobs, users, members, plan, tokens, lock, requests, faults,
          stray, lost, regime>>

\* age of a deleted row: how many of the two retention windows have passed.
Row == [status : {"unused", "live", "deleted", "gone"}, age : 0 .. 2]

Token == [file : Files, user : Users]

Request == [op    : Ops \cup {None},
            stage : {"idle", "entered", "locked", "unlinking", "unlinked",
                     "resolved", "read", "written"},
            user  : Users \cup {None},
            role  : Roles \cup {None},  \* as get_tenant_context read it
            file  : Files \cup {None},
            keys  : SUBSET Files,       \* blobs still to unlink
            rows  : SUBSET Files,       \* rows deleted in the transaction
            orgs  : SUBSET Orgs]        \* tenants listed, then those doomed

Idle == [op |-> None, stage |-> "idle", user |-> None, role |-> None,
         file |-> None, keys |-> {}, rows |-> {}, orgs |-> {}]

TypeOK ==
    /\ rows \in [Files -> Row]
    /\ blobs \subseteq Files
    /\ users \subseteq Users /\ members \subseteq users
    /\ plan \in [Orgs -> PlanNames \cup {None}]
    /\ tokens \subseteq Token
    /\ lock \in Workers \cup {None}
    /\ requests \in [Workers -> Request]
    /\ faults \in 0 .. MaxFaults
    /\ stray \subseteq Files /\ lost \subseteq Files
    /\ regime \in Regimes

Init ==
    /\ rows = [f \in Files |-> [status |-> "unused", age |-> 0]]
    /\ blobs = {} /\ tokens = {}
    /\ users = Users /\ members = Users
    /\ plan = [o \in Orgs |-> "free"]
    /\ lock = None
    /\ requests = [w \in Workers |-> Idle]
    /\ faults = 0 /\ stray = {} /\ lost = {}
    /\ regime \in Regimes

-----------------------------------------------------------------------------
(* Rows.                                                                   *)

Stored(f)  == rows[f].status \in {"live", "deleted"}
TenantOf(f) == OrgOf[OwnerOf[f]]
LiveIn(o)  == {f \in Files : rows[f].status = "live" /\ TenantOf(f) = o}

BadKeysOf(u)   == {f \in Files : rows[f].status = "live" /\ OwnerOf[f] = u}

\* _collect_file_keys_for_user: of deleted files too.
KeysOf(u) == {f \in Files : Stored(f) /\ OwnerOf[f] = u}

\* What the foreign key on owner_id removes with the user.
RowsOf(u) == {f \in Files : Stored(f) /\ OwnerOf[f] = u}

\* _collect_file_keys_for_org.
KeysIn(o) == {f \in Files : Stored(f) /\ TenantOf(f) = o}

BadExpired == {f \in Files : /\ rows[f].status = "deleted"
                             /\ rows[f].age >= Window["free"]}

\* Deleted files past the retention window of their own tenant.
Expired == {f \in Files : /\ rows[f].status = "deleted"
                          /\ rows[f].age >= Window[plan[TenantOf(f)]]}

-----------------------------------------------------------------------------
(* The frame of a tenant request.                                          *)

\* Operations in regime.alone keep the others out.
MayBegin == \A w \in Workers : requests[w].op \notin regime.alone

Issued(op) == op \in regime.issued

AllIdle == \A w \in Workers : requests[w] = Idle

Enter(w) ==
    /\ requests[w] = Idle /\ MayBegin
    /\ \E u \in members :
           requests' = [requests EXCEPT ![w] =
                           [Idle EXCEPT !.stage = "entered", !.user = u,
                                        !.role = RoleOf[u]]]
    /\ UNCHANGED <<rows, blobs, users, members, plan, tokens, lock, faults, stray,
                   lost, regime>>

BadLockIsFree == TRUE

LockIsFree == lock = None

\* get_tenant_context counts the call, the first write of the session.
Meter(w) ==
    /\ requests[w].stage = "entered"
    /\ LockIsFree
    /\ lock' = w
    /\ requests' = [requests EXCEPT ![w].stage = "locked"]
    /\ UNCHANGED <<rows, blobs, users, members, plan, tokens, faults, stray, lost,
                   regime>>

\* require_membership, which reads the row again.
Locked(w) == requests[w].stage = "locked" /\ requests[w].user \in members

Released(w) == IF lock = w THEN None ELSE lock

-----------------------------------------------------------------------------
(* Files.                                                                  *)

\* upload writes the blob, and then the row in the transaction.
Upload(w) ==
    LET u == requests[w].user
        o == OrgOf[u]
    IN
    /\ Locked(w) /\ RoleOf[u] # "viewer" /\ Issued("upload")
    /\ Cardinality(LiveIn(o)) + 1 <= Quota[plan[o]]
    /\ \E f \in Files :
           /\ rows[f].status = "unused" /\ OwnerOf[f] = u /\ f \notin stray
           /\ blobs' = blobs \cup {f}
           /\ requests' = [requests EXCEPT ![w].op = "upload", ![w].file = f,
                                           ![w].stage = "written"]
    /\ UNCHANGED <<rows, users, members, plan, tokens, lock, faults, stray, lost, regime>>

\* The session of a GET ends without a commit; the token is signed, not stored.
IssueToken(w) ==
    LET u == requests[w].user IN
    /\ Locked(w) /\ Issued("download")
    /\ Cardinality(tokens) < MaxTokens
    /\ \E f \in LiveIn(OrgOf[u]) : tokens' = tokens \cup {[file |-> f, user |-> u]}
    /\ lock' = Released(w)
    /\ requests' = [requests EXCEPT ![w] = Idle]
    /\ UNCHANGED <<rows, blobs, users, members, plan, faults, stray, lost, regime>>

DeleteFile(w) ==
    LET u == requests[w].user IN
    /\ Locked(w) /\ Issued("delete")
    /\ \E f \in LiveIn(OrgOf[u]) :
           /\ RoleOf[u] \in {"owner", "admin"} \/ OwnerOf[f] = u
           /\ requests' = [requests EXCEPT ![w].op = "delete", ![w].file = f,
                                           ![w].stage = "written"]
    /\ UNCHANGED <<rows, blobs, users, members, plan, tokens, lock, faults, stray,
                   lost, regime>>

\* download_with_token finds the row and checks the membership again ...
Resolve(w) ==
    /\ requests[w] = Idle /\ MayBegin
    /\ \E t \in tokens :
           /\ rows[t.file].status = "live" /\ t.user \in members
           /\ requests' = [requests EXCEPT ![w] =
                              [Idle EXCEPT !.op = "download", !.stage = "resolved",
                                           !.user = t.user, !.file = t.file]]
    /\ UNCHANGED <<rows, blobs, users, members, plan, tokens, lock, faults, stray,
                   lost, regime>>

\* ... reads the blob, or fails if it is gone ...
ReadBlob(w) ==
    /\ requests[w].stage = "resolved"
    /\ requests' = [requests EXCEPT ![w] =
                       IF requests[w].file \in blobs THEN [@ EXCEPT !.stage = "read"]
                       ELSE Idle]
    /\ UNCHANGED <<rows, blobs, users, members, plan, tokens, lock, faults, stray,
                   lost, regime>>

\* ... and records the download.
RecordDownload(w) ==
    /\ requests[w].stage = "read"
    /\ LockIsFree
    /\ lock' = w
    /\ requests' = [requests EXCEPT ![w].stage = "written"]
    /\ UNCHANGED <<rows, blobs, users, members, plan, tokens, faults, stray, lost,
                   regime>>

-----------------------------------------------------------------------------
(* Erasure and retention.                                                  *)

\* With the role that was read before the lock, over all tenants.
PurgeExpired(w) ==
    /\ requests[w].stage = "locked" /\ Issued("purge")
    /\ AtLeast(requests[w].role, "admin")
    /\ requests' = [requests EXCEPT ![w].op = "purge", ![w].stage = "unlinking",
                                    ![w].keys = Expired, ![w].rows = Expired]
    /\ UNCHANGED <<rows, blobs, users, members, plan, tokens, lock, faults, stray,
                   lost, regime>>

EraseOrganization(w) ==
    LET o == OrgOf[requests[w].user] IN
    /\ Locked(w) /\ RoleOf[requests[w].user] = "owner" /\ Issued("eraseOrg")
    /\ requests' = [requests EXCEPT ![w].op = "eraseOrg", ![w].stage = "unlinking",
                                    ![w].orgs = {o}, ![w].keys = KeysIn(o),
                                    ![w].rows = KeysIn(o)]
    /\ UNCHANGED <<rows, blobs, users, members, plan, tokens, lock, faults, stray,
                   lost, regime>>

\* erase_user lists the tenants of the user, collects the storage keys ...
CollectUser(w) ==
    /\ requests[w] = Idle /\ MayBegin /\ Issued("eraseUser")
    /\ "eraseUser" \in regime.alone => AllIdle
    /\ \E u \in users :
           requests' = [requests EXCEPT ![w] =
               [Idle EXCEPT !.op = "eraseUser", !.stage = "unlinking", !.user = u,
                            !.keys = KeysOf(u),
                            !.orgs = IF u \in members THEN {OrgOf[u]} ELSE {}]]
    /\ UNCHANGED <<rows, blobs, users, members, plan, tokens, lock, faults, stray,
                   lost, regime>>

\* BlobStore.delete, of one key after the other.
Unlink(w) ==
    /\ requests[w].stage = "unlinking"
    /\ \E f \in requests[w].keys :
           /\ blobs' = blobs \ {f}
           /\ requests' = [requests EXCEPT ![w].keys = @ \ {f}]
    /\ UNCHANGED <<rows, users, members, plan, tokens, lock, faults, stray, lost, regime>>

\* The last blob is gone; only the erasure of a user has no lock by now.
Unlinked(w) ==
    /\ requests[w].stage = "unlinking" /\ requests[w].keys = {}
    /\ requests' = [requests EXCEPT ![w].stage =
                       IF lock = w THEN "written" ELSE "unlinked"]
    /\ UNCHANGED <<rows, blobs, users, members, plan, tokens, lock, faults, stray,
                   lost, regime>>

\* ... deletes the user, whose files cascade, then the tenants left empty.
DeleteUser(w) ==
    LET r      == requests[w]
        doomed == {o \in r.orgs : \A u \in members \ {r.user} : OrgOf[u] # o}
        others == UNION {KeysIn(o) : o \in doomed} \ RowsOf(r.user)
    IN
    /\ r.stage = "unlinked"
    /\ LockIsFree
    /\ lock' = w
    /\ requests' = [requests EXCEPT ![w] =
                       [r EXCEPT !.stage = "unlinking", !.orgs = doomed,
                                 !.keys = others, !.rows = RowsOf(r.user) \cup others]]
    /\ UNCHANGED <<rows, blobs, users, members, plan, tokens, faults, stray, lost, regime>>

-----------------------------------------------------------------------------
(* The end of a request, and what happens around requests.                 *)

\* The rows once r has committed.
RowsAfter(r) ==
    [f \in Files |->
        IF f \in r.rows THEN [status |-> "gone", age |-> 0]
        ELSE IF f = r.file /\ r.op = "upload" THEN [status |-> "live", age |-> 0]
        ELSE IF f = r.file /\ r.op = "delete" THEN [status |-> "deleted", age |-> 0]
        ELSE rows[f]]

\* Memberships go with the user and with the tenant.
MembersAfter(r) ==
    {u \in members : OrgOf[u] \notin r.orgs /\ ~(r.op = "eraseUser" /\ u = r.user)}

Commit(w) ==
    LET r == requests[w] IN
    /\ r.stage = "written"
    /\ rows' = RowsAfter(r)
    /\ users' = IF r.op = "eraseUser" THEN users \ {r.user} ELSE users
    /\ members' = MembersAfter(r)
    /\ plan' = [o \in Orgs |-> IF o \in r.orgs THEN None ELSE plan[o]]
    /\ lock' = Released(w)
    /\ requests' = [requests EXCEPT ![w] = Idle]
    /\ UNCHANGED <<blobs, tokens, faults, stray, lost, regime>>

\* A refusal, an error, a lost client or a crash: the session rolls back,
\* the disk does not.
Abort(w) ==
    /\ requests[w] # Idle
    /\ faults < MaxFaults
    /\ faults' = faults + 1
    /\ stray' = IF requests[w].op = "upload" THEN stray \cup {requests[w].file} ELSE stray
    /\ lost' = lost \cup {f \in Files : rows[f].status = "live" /\ f \notin blobs}
    /\ lock' = Released(w)
    /\ requests' = [requests EXCEPT ![w] = Idle]
    /\ UNCHANGED <<rows, blobs, users, members, plan, tokens, regime>>

\* A refusal before anything was done leaves nothing behind.
Refuse(w) ==
    /\ requests[w].stage \in {"entered", "locked"}
    /\ lock' = Released(w)
    /\ requests' = [requests EXCEPT ![w] = Idle]
    /\ UNCHANGED <<rows, blobs, users, members, plan, tokens, faults, stray, lost, regime>>

\* WorkspaceService.remove_member and BillingService.change_plan.
RemoveMember(u) ==
    /\ LockIsFree
    /\ u \in members /\ RoleOf[u] # "owner"
    /\ members' = members \ {u}
    /\ UNCHANGED <<rows, blobs, users, plan, tokens, lock, requests, faults, stray,
                   lost, regime>>

ChangePlan(o) ==
    /\ LockIsFree
    /\ plan[o] # None
    /\ \E p \in PlanNames \ {plan[o]} : plan' = [plan EXCEPT ![o] = p]
    /\ UNCHANGED <<rows, blobs, users, members, tokens, lock, requests, faults, stray,
                   lost, regime>>

Age(f) ==
    /\ rows[f].status = "deleted" /\ rows[f].age < 2
    /\ rows' = [rows EXCEPT ![f].age = @ + 1]
    /\ UNCHANGED <<blobs, users, members, plan, tokens, lock, requests, faults, stray,
                   lost, regime>>

ExpireToken(t) ==
    /\ t \in tokens
    /\ tokens' = tokens \ {t}
    /\ UNCHANGED <<rows, blobs, users, members, plan, lock, requests, faults, stray,
                   lost, regime>>

\* The routes of api/v1/files.py and api/v1/admin.py.
FileRoutes(w) ==
    \/ Upload(w) \/ IssueToken(w) \/ DeleteFile(w)
    \/ Resolve(w) \/ ReadBlob(w) \/ RecordDownload(w)

ErasureRoutes(w) == EraseOrganization(w) \/ CollectUser(w) \/ DeleteUser(w)

Next ==
    \/ \E w \in Workers :
          \/ Enter(w) \/ Meter(w) \/ FileRoutes(w) \/ ErasureRoutes(w)
          \/ PurgeExpired(w) \/ Unlink(w) \/ Unlinked(w)
          \/ Commit(w) \/ Abort(w) \/ Refuse(w)
    \/ \E u \in Users : RemoveMember(u)
    \/ \E o \in Orgs : ChangePlan(o)
    \/ \E f \in Files : Age(f)
    \/ \E t \in Token : ExpireToken(t)

Spec == Init /\ [][Next]_vars

-----------------------------------------------------------------------------
(* Properties.                                                             *)

\* f is going with its owner or its tenant.
BeingErased(f) ==
    \E w \in Workers :
        \/ requests[w].op = "eraseUser" /\ requests[w].user = OwnerOf[f]
        \/ requests[w].op \in {"eraseUser", "eraseOrg"} /\ TenantOf(f) \in requests[w].orgs

\* A file that can be listed can be downloaded: its bytes are on disk until
\* it is deleted or erased, whatever purges, downloads and erasures of others
\* run beside it.  Only an erasure that is aborted after its first blob
\* leaves rows without bytes (compliance_service.py:186, 209, 249).
LiveFilesHaveBytes ==
    \A f \in Files :
        rows[f].status = "live" => f \in blobs \cup lost \/ BeingErased(f)

\* Bytes are never forgotten: a blob has a row, so that a deletion, a purge
\* or an erasure will find it, except while it is being uploaded, and except
\* after an aborted upload (file_service.py:97).  This takes erasures of
\* users that overlap nothing: the keys are collected without a lock (185).
BytesHaveRows ==
    "eraseUser" \in regime.alone =>
        \A f \in blobs :
            \/ Stored(f) \/ f \in stray
            \/ \E w \in Workers : requests[w].op = "upload" /\ requests[w].file = f

RowsAndBytesAgree == TypeOK /\ LiveFilesHaveBytes /\ BytesHaveRows

\* No overlapping uploads pass the quota check together: a tenant's storage
\* grows only up to what its plan allows at that moment (file_service.py:84).
UploadsFitTheQuota ==
    [][\A o \in Orgs :
           Cardinality(LiveIn(o)') > Cardinality(LiveIn(o)) =>
               Cardinality(LiveIn(o)') <= Quota[plan'[o]]]_vars

\* A deleted file of a user and a tenant that stay is removed for good only
\* past the window of its own tenant, by the plan the tenant has at that
\* moment (compliance_service.py:240).
RetentionRespected ==
    [][\A f \in Files :
           (/\ rows[f].status = "deleted" /\ rows'[f].status = "gone"
            /\ OwnerOf[f] \in users' /\ plan'[TenantOf(f)] # None)
               => rows[f].age >= Window[plan[TenantOf(f)]]]_vars
=============================================================================
