# VaultNote: TLA+ models and proofs

The repository holds two independent implementations of one product, VaultNote: a
multi-tenant encrypted notes service in Python (FastAPI, SQLAlchemy async, SQLite).
`src/Claude_Opus4.8/vaultnote` is called *Opus* here and `src/Kimi3/vaultnote` *Kimi*.
They promise the same things (tamper-evident audit log, single-use tokens, erasure,
retention, session revocation) and keep them by different means, so each is modelled on
its own. This directory has the models, their TLC instances and the proofs.

    tlc -workers 2 -config <run>.cfg MC<Module>     one run
    tlapm <Component>Proofs.tla                     the theorems about it

`PROJECT.json` lists components, runs, mutants (a plausible mistake for every property,
which TLC finds), the source lines of every definition, hazards and theorems.

## 1. The system

### Processes, transactions and what may interleave

Both servers are one asyncio process. Every HTTP request runs as a task with a database
session of its own; tasks interleave at every `await`. What protects shared state is
SQLite's locking, one asyncio lock (Kimi's audit log), unique indexes and foreign keys.

* **SELECT** runs outside a write transaction and sees what is committed. The first
  INSERT, UPDATE or DELETE of a request takes the database's *one* write lock and keeps
  it until the request commits or rolls back. So a request is a series of reads, with
  other requests between them, and then one exclusive writing part.
* An ORM object keeps what it loaded. The write computes with those values, and an UPDATE
  writes only the columns whose value changed, addressed by primary key: a check made on
  a loaded object can be stale when its consequence is written. Most hazards of this code
  have that form.
* *Opus* turns on WAL and `foreign_keys` (`db/session.py:37-46`). Requests under
  `/organizations/{id}` pass `get_tenant_context`, which counts usage first and so takes
  the write lock before the service runs: they exclude one another. Authentication,
  TOTP, `/me`, share links and downloads by token do not, and interleave.
* *Kimi* sets no PRAGMA: foreign keys are declared and not enforced. `get_db` commits
  after the handler has returned (`models/database.py:29-37`). The models let the commit
  happen before the answer is received, as FastAPI before 0.118 does; with later versions
  the answer may be sent before the commit, which only adds behaviours.
* Blobs, caches and in-memory logs are outside the transaction: a rollback or a crash
  does not undo them. A crash is modelled as the abort of every request in flight, plus
  the loss of whatever is in memory.

### Components

| component | state | operations | talks to | makes it correct |
|---|---|---|---|---|
| Opus accounts (`services/auth_service.py`, `repositories/user_repo.py`, `core/security.py`) | users (hash, epoch, failures, lock, TOTP), sessions, resets | register, login, refresh, logout, logout_all, change password, reset, TOTP enrolment | audit, privacy (erasure) | revocation and epoch agree; rotated tokens die; one account per address; lockout; verified TOTP |
| Opus audit (`services/audit_service.py`) | one hash chain per tenant | record, verify_chain | every service | untouched logs verify, entries only follow committed ones |
| Opus tenants (`services/workspace_service.py`) | organizations, memberships | invite, change role, remove | billing (seats), privacy | authority holds until the commit; members fit the plan |
| Opus sharing (`services/access_service.py`, `sharing_service.py`) | shares, links with expiry and use limit | share, create and open a link | notes, tenants | no access above role and share; a link serves what is there |
| Opus notes (`services/note_service.py`, `core/cache.py`) | notes, cached plaintext | CRUD with version check | collab, sharing | readers get a current, committed version; no lost update |
| Opus collab (`services/collab_service.py`) | operation log in memory | transform, apply, record | notes | an edit lands where its client meant it |
| Opus files (`services/file_service.py`, `utils/files.py`) | rows, blobs, quota, signed tokens | upload, download, delete | billing (quota), retention | rows and bytes agree; quota |
| Opus privacy (`services/compliance_service.py`) | consents; deletes everything else | export, erase user/org, purge | all | nothing outlives its owner; windows respected; no tenant erased under its members |
| Opus billing (`services/billing_service.py`) | subscription, usage, invoices | change plan, meter, invoice a period | tenants | each period is invoiced once; an upgrade charges the difference |
| rate limiters (`core/ratelimit.py`; `utils/rate_limiter.py`) | timestamps in a window | allow | edge | never more than the limit in a window |
| Kimi accounts (`services/auth_service.py`) | users, refresh tokens, resets | register, login, refresh, logout, passwords, 2FA | privacy | sessions follow the password; tokens used once; the factor starts verified |
| Kimi audit (`core/compliance.py`) | one chain for all tenants, asyncio lock | record, verify_chain | every service | as Opus; requests end |
| Kimi notes (`services/note_service.py`, `utils/cache.py`) | rows, tenant key, cache | CRUD, rotate_tenant_key | files, audit | committed answers; every live object readable |
| Kimi access (`services/access_service.py`, `api/v1/notes.py`) | memberships, grants | share, checks of every route | all | a grant never lowers access; access holds until the commit |
| Kimi collab (`services/collab_service.py`) | operations, presence | submit, update presence | notes, access | an operation follows what it saw; one presence row per user |
| Kimi files (`services/file_service.py`) | rows, blobs, download tokens | upload, delete, token, download | retention, notes (keys) | rows and bytes agree; token used once |
| Kimi privacy (`services/compliance_service.py`, `main.py`) | retention loop | erase user/org, export, purge | files, notes, accounts, access, audit | erasure complete; windows respected and enforced |
| Kimi billing (`services/billing_service.py`) | subscription, usage, invoices | change plan | retention (plan) | the window follows the plan |
| analytics, configuration, schemas, mailers, HTTP edge | none | read-only | | no control to check |

### What is hard here

Overlapping requests of one user or one resource (double refresh, double reset, login
against password change, upload against erasure, creation against key rotation); chain
heads read before the row that extends them is ordered; caches that are invalidated before
the commit; a log of edits that is written after it and lost on a restart; checks of
access, seats and quota made before the write they allow; blobs that cannot be rolled
back; money rounded piece by piece; two locks of different kinds (asyncio and database)
taken in either order; the retention loop, which must survive its failures. `hazards` in
`PROJECT.json` has each at its line with the properties that watch it.

## 2. The modules

| module | models | source |
|---|---|---|
| `OpusAuth` | accounts, sessions, resets, TOTP, erasure of a user | Opus `services/auth_service.py`, `repositories/user_repo.py`, `api/deps.py` |
| `OpusAudit` | the chain per tenant, requests with and without the lock | Opus `services/audit_service.py`, `repositories/audit_repo.py` |
| `OpusNotes` | one note: versions, cache, access, links, edits rebased on the log in memory | Opus `services/note_service.py`, `core/cache.py`, `services/collab_service.py`, `services/sharing_service.py`, `api/v1/notes.py` |
| `OpusWorkspace` | one tenant: members, roles, plan, seats, invoices, its end | Opus `services/workspace_service.py`, `services/billing_service.py`, `services/compliance_service.py` |
| `OpusFiles` | file rows, blobs, quota, tokens, purge, erasures | Opus `services/file_service.py`, `utils/files.py`, `services/compliance_service.py` |
| `KimiAuth` | accounts, refresh and reset tokens, 2FA, erasure of an account | Kimi `services/auth_service.py`, `api/v1/auth.py` |
| `KimiAudit` | the chain between asyncio lock and write lock | Kimi `core/compliance.py`, `models/database.py` |
| `KimiNotes` | notes, cache, envelope encryption, key rotation | Kimi `services/note_service.py`, `utils/cache.py`, `core/encryption.py` |
| `KimiSharing` | one note: grants and access, operations, presence, erasures | Kimi `services/access_service.py`, `services/collab_service.py`, `api/v1/notes.py` |
| `KimiFiles` | file rows, blobs, tokens, erasures, purge, retention loop | Kimi `services/file_service.py`, `services/compliance_service.py`, `main.py` |
| `AccessLevels` | roles, levels and how they combine, which both servers compute alike; used by `OpusNotes`, `OpusWorkspace`, `OpusFiles`, `KimiSharing` | Opus `services/access_service.py`, `models/organization.py` |
| `NoteStore` | the abstract store that `OpusNotes` and `KimiNotes` implement | |
| `OpusAuthProofs`, `OpusNotesProofs`, `OpusWorkspaceProofs`, `OpusFilesProofs`, `KimiAuthProofs`, `KimiNotesProofs`, `KimiSharingProofs`, `KimiFilesProofs` | the inductive invariant of a component, the theorems about it and their proofs (section 4); `OpusFilesProofs` and `KimiSharingProofs` also have those of `OpusAudit` and `KimiAudit` | |
| `MC...` | instances for TLC | |

Conventions. A request is a record in `requests[w]`: its operation, a `stage`, and what it
has read. An action is what happens between two awaits at which something another
request can see or change; consecutive reads nothing depends on are one action, and so is
everything done under the write lock that nobody else can observe. `...Read`/`...Start`
loads and checks, `...Flush` takes the lock, `...Commit` is the commit. In the modules of
tenant requests of Opus, `Enter` checks membership, `Meter` takes the lock and an operation
prepares in its record what `Commit` makes visible. `Abort` stands for an error, a busy
timeout, a lost client and the end of the process. Ghost fields and variables are marked:
they record what clients were told or what was committed, and no guard of the code's reads
them. A definition `BadX` before `X` is a plausible mistake used by a mutant only.

*OpusAuth.* `accounts`, `sessions`, `resets` are the tables; `history` records what
clients were told. Hashes and tokens are what tells them apart: a password, an id. Time
is three-valued (`Lapse...` moves a lock, a session or a reset past its expiry). The write
half of an operation applies `Written`, the unit of work, to the row as loaded.
`Redeploy` strengthens the Argon2 parameters, which makes hashes "legacy" and logins rehash.
Foreign keys make an insert for an erased user fail. A login has two ways to be refused:
a wrong password is counted, and a wrong TOTP code after the right password
(`LoginRefused`) is reported and audited without touching the counter.

*OpusAudit and KimiAudit.* A hash is modelled as the sequence of contents it digests,
which is what collision resistance gives. Opus reads the head by `created_at` per tenant
and stamps before it inserts; Kimi reads it by `seq` under an asyncio lock that is
released before the commit.

*OpusNotes.* A body is a sequence of marks, its characters: an insertion adds a text of one
of the `Lengths`, whose marks are named for the version that adds it and their place in
it, and a deletion removes the marks of its range, so that "the text my client meant" can
be followed through other people's edits; no two marks of a body are alike, as no two
characters of a text are the same one. The ghost
`contents` has every body committed. `RecordOperation` is an action of its own because
the code logs an operation *after* its commit (`api/v1/notes.py:243`): other requests see
the new version and the old log in between. `ChangeMembership` is what other routes do to
a user's role. `Restart` loses the cache, the log and every request.

*OpusWorkspace.* `roles` is the table of memberships, `sub` the subscription, `invoices`
the ghost list of all invoices, `now` a clock in units of which `Period` make a month.
`Rounded` is Python's rounding to the even neighbour. `CollectUser`, unlike the rest, reads
without the lock.

*OpusFiles.* `blobs` is the disk, outside the transaction. `lost` (rows whose bytes an
aborted erasure has unlinked) and `stray` (blobs whose upload was aborted) are ghosts that
name the two outcomes of a crash the code does not repair.

*KimiAuth and KimiSharing.* The first write of a request takes the lock it keeps until it
commits, and nothing it does in between can be seen; so from the first write to the commit
is one action, and what a request read before is a snapshot in its record. `late`,
`login`, `children`, `uses`, `verified` and `ended` of KimiAuth are ghosts of what clients
were told and did; `seen` of KimiSharing is how much of the log a request has read. In
KimiSharing the roles are given: only a registration makes a membership and only an
erasure removes one.

*KimiNotes.* A row's `key` is the tenant key its data key is wrapped with; decrypting
succeeds exactly when the keys are equal (authenticated encryption). Rotation reads class
after class, flushing in between. The cache entry may expire or be evicted at any time.

*KimiFiles.* One blob per file id. `paths` are blobs a request has collected and not yet
unlinked, `rows` the rows it has deleted in its transaction, `todo` the tenants a purge
has left. The three clean-ups differ in order, and the model keeps it: a deletion flushes,
unlinks, commits; `erase_user` unlinks, then deletes rows; `erase_organization` and the
purge delete rows, unlink, then commit. The ghost `lost` names the live files whose blob a
request had unlinked when it aborted, which the code does not repair. `age` counts which of the two windows
(30 and 365 days by default) have passed.

### Regimes and workloads

Some properties hold only while certain operations do not overlap. Instead of a second
specification, a module chooses in `Init` from the constant `Regimes` a set `alone` of
operations that are issued only while nothing else runs; the empty set is the code as it
is, and such a property names the operations it needs alone. So one run checks the
unconditional properties under full interleaving and the conditional ones under the
condition they need. Where the operations are too many to be combined (`OpusFiles`,
`KimiAuth`, `KimiSharing`), a regime also has the set `issued` of operations clients use
in that behaviour; in `OpusNotes` and `OpusWorkspace` that set is `workload`. The sets are
chosen so that the operations a property relates occur together, and every operation
occurs in one. `once` (KimiSharing) says that nobody shares a note twice with one user.

### Refinement

`NoteStore` is what readers of notes are promised: a read that begins on a live note
returns a content that was committed to it, with `Fresh` one that was current at some
moment since the read began; no read begins on a deleted note, and with `Final` a deleted
note gets no contents. It knows neither caches, nor versions, nor transactions.

* `OpusNotes` implements it with `Fresh` and `Final` (`ReadsAreCurrent`): the cache is keyed by
  the version of the row, the row is read under the lock (or, for a public link, once), and
  so neither a rollback between the eviction and the commit nor a read that refills the
  cache can be seen.
* `KimiNotes` implements it with neither (`ReadsAreCommitted`): its cache is keyed by the
  note, and a reader that loaded the row before an update commits puts the old text back;
  an update that loaded the row before a deletion commits overwrites text and version of
  the deleted row after it. `AnswersAreCurrent` says when a read is fresh after all.

Both refinements are theorems (`ServerImplementsNoteStore` of either proof module).

Mapped are the ghost of committed contents, the set of deleted notes and, per request, the
read it is in (`Reading`); every other step of the detailed module is a stutter.

## 3. The runs

| run | instance | checks |
|---|---|---|
| `OpusAuth_sequential` | 1 user, 2 passwords, 2 secrets, 3 sessions, 1 reset, 1 request at a time, all operations | what the documentation says of credentials: `SessionsFollowCredentials`, `TokensWorkOnce`, `WrongPasswordsLockAccount` (the failures that are counted), `CredentialsAreTheUsers` |
| `OpusAuth_concurrent` | 2 users competing for one address, 3 sessions, 2 requests | what holds under every interleaving: `EpochAgreesWithRevocation`, `RotatedParentsStayDead`, `NoRowOutlivesItsUser`, `OneAccountPerEmail` |
| `OpusAudit` | 2 tenants, 3 requests of both kinds, 3 stamps | `LogIsSound`: no entry follows one that was rolled back, and a chain only lock-holding requests extended verifies; `HeadOnlyExtends`: such a chain only grows at its end |
| `OpusNotes` | an owner and a user who may be invited, 1 note, 1 link, 2 requests, insertions and deletions of 1 or 2 characters, versions to 4, a log of 2, three workloads | `NoteIsConsistent`: versions count edits and access holds until the commit; `OperationsKeepTheirPlace`: while the log covers what the client had not seen, an insertion stands in one piece where it was meant, and a deletion removes its range if that is still in one piece; `ReadsAreCurrent` |
| `OpusWorkspace` | an owner and 2 users, 3 plans, periods of 2 in a time of 3, 3 invoices, 2 requests, three workloads | `TenantIsConsistent`: members never exceed the plan; `AuthorityHeldUntilCommit`; `PeriodsBilledOnce`; `UpgradesChargeTheDifference`; `TenantsWithMembersStay` |
| `OpusFiles` | 2 tenants, 3 users, 2 files, quotas of 1 and 2, 2 requests, 1 abort, three regimes | `RowsAndBytesAgree`: live files have bytes, bytes have rows; `UploadsFitTheQuota`; `RetentionRespected`, by the tenant's own plan although any administrator purges all tenants |
| `KimiAuth` | 2 accounts of one address, 3 refresh tokens, 1 reset, 2 passwords, 2 secrets, 2 requests, five regimes | `AccountsAreConsistent`: one account per address, complete erasure; `SessionsFollowPassword`; `EndedSessionsStayEnded`; `TokensWorkOnce`; `FactorStartsVerified` |
| `KimiAudit` | 3 events, 3 requests | `LogIsSound`: an export is part of every fork, no entry follows one that was rolled back; under fairness `RequestsEnd` |
| `KimiNotes` | a note and a file, 2 texts, 3 keys, 2 requests, versions to 3, three regimes | `ReadsAreCommitted` always; `RotationKeepsObjectsReadable` without creations during a rotation; `AnswersAreCurrent` without overlapping reads; `NotesAreConsistent` without overlapping updates |
| `KimiSharing` | an owner, a member and a viewer, 1 note, 2 grants to each, 4 operations, 2 requests, five regimes | `OperationsFollowWhatTheySaw` always; `SharingIsConsistent`: presence is upserted, erasure is complete, access holds until the commit, each under its condition; `SharingNeverTakesAway` while nobody shares twice with one user |
| `KimiFiles` | an owner and a member, one file, one token, 2 requests and the retention loop, 1 abort, two regimes | `RowsAndBytesAgree`: a deleted file leaves no bytes, and a live one has them but for deletions in flight and aborted ones (`lost`); `ErasureIsComplete`, `TokensAreUsedOnce` while erasures and downloads run alone |
| `KimiFiles_retention` | two tenants with a file each, 1 request and the loop, 1 abort, plan changes | `RetentionRespected` while plans do not change during a purge, and under fairness `RetentionEnforced` |

Type invariants and invariants of one subject are conjuncts of one property, whose parts
are definitions of their own: `CredentialsAreTheUsers` is `TypeOK`,
`StoredPasswordIsChosen` and `EnabledSecretWasVerified`; `LogIsSound`,
`NoteIsConsistent`, `NotesAreConsistent`, `TenantIsConsistent`, `RowsAndBytesAgree`,
`AccountsAreConsistent` and `SharingIsConsistent` are made likewise.

### Where the code does other than its documentation says

Every condition above is needed. To see the disagreement, check the definition named
alone; it is in the module of the run, and no passing run asserts it.

* `OpusAuth`, `FailedLoginsLockAccount` (with `OpusAuth_sequential.cfg`): the Opus README
  promises a "Per-account lockout after N failures". Logins with the right password and a
  wrong TOTP code are answered "invalid credentials" and audited as LOGIN_FAILED
  (`auth_service.py:138-145`) and never call `register_failed_login`: any number of them
  locks nothing.
* `OpusAuth`, two overlapping requests (`OpusAuth_concurrent.cfg` with one user, two
  passwords and two secrets) of a `Workload` of register and:
  refresh, for `RotatedOnce` (a token presented twice at once yields two successors);
  login, change_password, redeploy, for `StoredPasswordIsChosen` (the rehash of a login
  that overlaps a change stores the *old* password again);
  login, change_password, for `SessionsFollowCredentials` (a login that verified the old
  password issues a session after the change) and, with `MaxFailedLogins` of 2, for
  `WrongPasswordsLockAccount` (overlapping failures are lost);
  request_reset, confirm_reset, for `TokensWorkOnce`;
  begin_totp, confirm_totp, for `EnabledSecretWasVerified`.
* `OpusAudit`, `UntamperedLogVerifies`: two logins, or two downloads by token, follow the
  same entry, and `verify_chain` returns False.
* `OpusNotes`, `DeletionsRemoveTheirRange` (with `OpusNotes.cfg`): operations are to be
  "transformed against concurrent operations" (`collab_service.py:5`), but only positions
  are, not the length of a deletion (28-36, 72-83). A deletion of two characters, rebased
  over an insertion between them, removes the insertion and leaves one of the two; two
  deletions that overlap remove what neither client meant. `OperationsKeepTheirPlace`
  therefore speaks of ranges still in one piece. Without its condition `rebased` it fails
  too: `update_note` is not logged, an operation is logged after its commit, the log is
  bounded and a restart empties it, and in each case an edit is placed as if nothing had
  happened.
* `OpusWorkspace`, `NothingPaidTwice`: a change of plan neither moves the period nor
  refunds what a downgrade leaves, so that going back and forth charges more than a period
  of the dearest plan; `EmptyTenantsAreErased`: an erasure that
  listed its user's tenants before an invitation of that user committed leaves a tenant
  without members if it ends last, although erase_user says "then erase any org left with no
  members" (`compliance_service.py:173`).
* `KimiAuth`, the properties without their condition on `regime.alone`: a refresh or a
  confirmation sent twice is served twice; a refresh in flight outlives a logout; a login
  in flight outlives the account; a setup during an enable turns the factor on for a
  secret nobody has confirmed.
* `KimiAudit`, `UntamperedLogVerifies`: an export that overlaps another request forks the
  chain although a lock "serializes chain-head reads and appends".
* `KimiNotes` with `Regimes` of the empty set alone, `LiveObjectsReadable`: a note or a file
  created while the key rotates is left under a key nothing stores any more, and makes
  every later rotation of the tenant fail ("Every object class whose DEK is wrapped with
  the tenant KEK must be re-wrapped, otherwise those objects become unreadable after
  rotation", `note_service.py:150`).
* `KimiFiles`, `BytesOutliveTheirRow` (with `KimiFiles.cfg`): "Physical blobs are unlinked
  only after the DB transaction succeeded" (`compliance_service.py:135`). They are
  unlinked after a flush, `erase_user` does so before it deletes any row, and `get_db`
  commits only after the audit entry is written: others list a file whose bytes are gone,
  and an abort in between makes that permanent. `LiveFilesHaveBytes` is the part the code
  keeps.
* `KimiFiles`, `NothingOutlivesItsOwner`: an upload in flight while its user is erased
  leaves a row and a blob. Without the conditions TLC also finds two downloads of one token
  and a row purged by a window its tenant's plan no longer has.
* `KimiSharing`, `GrantsResolve`: a second grant to a user makes every request of that
  user for the note fail, since `get_grant` expects one row at most, and no route takes a
  grant back; `OperationsAreTotallyOrdered`: overlapping operations get equal timestamps
  although the log promises a "total ordering of operations" (`collab_service.py:4`).

### What else was learnt from modelling

These are facts of the code the models contain and no property judges.

* Opus: the invalidation at `note_service.py:175` is redundant, since the version of the
  row is part of what the cache compares. An invitation counts members against the plan's
  maximum, not against the seats paid for. A call that only reads is metered in a
  transaction nobody commits. The erasure of the only owner leaves a tenant that nobody can manage. An upload in
  flight during the erasure of its user leaves its blob on disk.
* Kimi: setting 2FA up again replaces the secret while the factor stays on. A password
  change leaves reset tokens valid, and an erasure leaves their rows. `erase_user` leaves
  the user's notes, operations and presence. Links to notes are created and no route
  resolves them. An operation may be appended to a note that was deleted after the check
  of access, and an update that loaded a note before its deletion committed overwrites the
  text and version of the deleted row, which the purge removes later as it is
  (`note_service.py:79-91`). `record_usage` has no caller.

### Bounds, and why they are enough

Every property relates at most two rows of a kind to one another and every race found or
excluded is between two requests (three for the audit logs, where the third sees the fork
of the other two; two and the loop for files). Ids are never reused, so 3 sessions are a
login, a rotation and a second one of either; 3 keys are two rotations. `MaxEpoch`,
`MaxStamp`, `MaxVersion`, `MaxTime`, `MaxInvoices`, `MaxTokens`, `MaxPasswords`,
`MaxSecrets`, `MaxGrants`, `MaxOperations` and `MaxFaults` bound counters and are bounds
of the models, not of the code. `MaxFailedLogins` is 2 (1 in the concurrent run) instead of
5: the counter's reset, its limit and the step before it all occur. `OplogLimit` is 2
instead of 200 and `MaxVersion` 4, so that the log loses operations a client has not seen;
`Lengths` of 1 and 2 and positions from 0 to one past the end make insertions inside a
range, ranges that overlap, nest or reach past the end, and positions inside a range
already deleted;
4 operations of `KimiSharing` are two that overlap, one that saw both and one more. Plans
of 2 and 3 seats, prices of 0, 1 and 3 and periods of 2 make every rounding occur (halves
too), with a clock that passes the end of a period once. The age of a deleted file is 0,
1, 2: before, between and after the two windows. Symmetry is declared over ids of
requests, users, sessions, tokens, keys and texts that no definition tells apart, in runs
without liveness only.

`CHECK_DEADLOCK FALSE` is set where a model runs out of ids or reaches a bound, so its
behaviours may end; requests never block one another for good, which `RequestsEnd` checks
for the one component with two kinds of lock.

### Fairness

`KimiAudit!FairSpec`: the event loop runs a ready task (weak fairness of each step),
`asyncio.Lock` wakes waiters first in, first out (strong fairness of `Acquire`), and
SQLite's busy timeout expires (weak fairness of `Timeout`). That timeout is what resolves
the wait of a request holding the asyncio lock for one holding the database: the mutant
without it violates `RequestsEnd`.

`KimiFiles!FairSpec`: `asyncio.sleep` returns and the retention loop starts a cycle again
and again (weak fairness of `PurgeAll`, which needs the loop to be alive); a request that
can repeatedly take its next step takes it (strong fairness of `Continue`). For the write
lock this says that a waiting writer gets it or is aborted by its busy timeout, and aborts
are bounded by `MaxFaults`: `RetentionEnforced` speaks of a server on which the sweep does
not fail for ever.

## 4. The proofs

Each component has one inductive invariant, `IInv` (`AuditInv` for the audit logs): `TypeOK`, the
properties to be proved, and what they need to be inductive. `Init => IInv` and
`IInv /\ [Next]_vars => IInv'` have a lemma per action, with the conjuncts the action can
disturb under it, and actions that only read share one; `IInv => P`, or for an action
property `IInv /\ [Next]_vars => [A]_vars`, and one application of the invariance rule end
a theorem. The theorems hold for every value of the constants: any set of users,
requests, files, tokens, any prices, quotas and bounds, and any choice of regimes or
workloads. Of the constants they assume what the module's named ASSUME says: that they are
of their types, that `None` is none of the values, that a bound on a counter is a natural
number. Three modules (`KimiAuth`, `KimiSharing`, `KimiFiles`) assume `Workers` finite,
since they bound counters by the number of requests; an event loop never has infinitely
many.

The theorems about the audit logs stand in the proof module of a component of the same
server, `OpusFilesProofs` and `KimiSharingProofs`. `Audit == INSTANCE OpusAudit` (or
`KimiAudit`) gives the log state variables of its own, apart from those of the component:
the specification the theorem speaks of is `Audit!Spec`, and nothing relates the two.
An instance does not bring its ASSUME along as a fact, so these theorems have
`Audit!AuditAssumption` as their hypothesis, which TLC evaluates in the runs of the two
logs.

### What is proved

| module | theorems, each `Spec => []P` or `Spec => P` |
|---|---|
| `OpusAuthProofs` | `TypeCorrect` (`TypeOK`); `RevocationFollowsEpoch` (`EpochAgreesWithRevocation`); `RotationKillsParents` (`RotatedParentsStayDead`); `ErasureIsComplete` (`NoRowOutlivesItsUser`); `EmailsAreUnique` (`OneAccountPerEmail`). Of requests one at a time: `SessionsEndWithCredentials` (`SessionsFollowCredentials`); `TokensServeOnce` (`TokensWorkOnce`); `WrongPasswordsAreCounted` (`WrongPasswordsLockAccount`); `CredentialsStayTheUsers` (`CredentialsAreTheUsers`) |
| `OpusNotesProofs` | `NoteStaysConsistent` (`NoteIsConsistent`); `EditsKeepTheirPlace` (`OperationsKeepTheirPlace`); `ServerImplementsNoteStore` (`ReadsAreCurrent`) |
| `OpusWorkspaceProofs` | `MembersFitThePlan` (`TenantIsConsistent`); `ChecksHoldUntilCommit` (`AuthorityHeldUntilCommit`); `EveryPeriodIsBilledOnce` (`PeriodsBilledOnce`); `UpgradesAreFair` (`UpgradesChargeTheDifference`); `TenantsEndWithTheirMembers` (`TenantsWithMembersStay`) |
| `OpusFilesProofs` | `RowsAndBytesStayTogether` (`RowsAndBytesAgree`); `QuotasHold` (`UploadsFitTheQuota`); `PurgesKeepTheWindow` (`RetentionRespected`). Of `OpusAudit`: `AuditLogIsSound` (`LogIsSound`); `AuditDigestsExtend` (`HeadOnlyExtends`) |
| `KimiAuthProofs` | `AccountsStayConsistent` (`AccountsAreConsistent`); `PasswordsEndSessions` (`SessionsFollowPassword`); `LogoutsAreFinal` (`EndedSessionsStayEnded`); `TokensAreSpentOnce` (`TokensWorkOnce`); `FactorsStartVerified` (`FactorStartsVerified`) |
| `KimiNotesProofs` | `VersionsTellContentsApart` (`NotesAreConsistent`); `RotationsLeaveNothingBehind` (`RotationKeepsObjectsReadable`); `LoneReadsAreCurrent` (`AnswersAreCurrent`); `ServerImplementsNoteStore` (`ReadsAreCommitted`) |
| `KimiSharingProofs` | `SharingStaysConsistent` (`SharingIsConsistent`); `TimestampsFollowTheLog` (`OperationsFollowWhatTheySaw`); `GrantsOnlyAdd` (`SharingNeverTakesAway`). Of `KimiAudit`: `AuditLogIsSound` (`LogIsSound`); `WritesVerify` (`UntamperedLogVerifies` while every row is a write's) |
| `KimiFilesProofs` | `RowsAndBytesStayTogether` (`RowsAndBytesAgree`); `ErasuresAreComplete` (`ErasureIsComplete`); `TokensServeOnce` (`TokensAreUsedOnce`); `PurgesKeepTheWindow` (`RetentionRespected`) |

### The invariants, and why they are needed

No property is inductive by itself. What each needs says why the code keeps it.

*OpusAuth.* `RequestsNameRows`: the session and the reset a request holds are stored rows
of the user it acts for; without it a rotation could link sessions of two users.
`RowsHaveOwners`: stored rows have a user, and an id not yet used is in epoch 0, so that a
session born at registration agrees with its account. The four properties of
`OpusAuth_sequential` are false of overlapping requests; their theorems have the
hypothesis `OneAtATime` (`Workers` has one element at most, as in that run) and a second
invariant, `SequentialInv`: what a request has read of its user is still so when it
writes, the session a refresh presents is unrevoked, the strikes an account's history
counts are in its counter, and a reset that may be confirmed has not been.

*OpusAudit.* `LogIsSound` and, of each request, `Sound`. Whoever has inserted an entry holds
the write lock; so does a tenant request from its start. What such a request sees, the
committed entries and its own, therefore extends every committed chain (`Extends`), and the
hash it has read is still the head of what it sees when it inserts, with a stamp above all
there (`AtHead`): an open request that reads and stamps beside it cannot commit in between.
`Linked` says that whatever a request has read is followed by entries it sees, so a
rollback takes away only what nobody else has read. That a chain has an entry with the
greatest stamp at all (`LastEntry`) rests on the bound `MaxStamp`, and on nothing else.

*KimiAudit.* A writing request that has read the head holds the write lock since before, so
the head is still the head when it commits (`Chaining`, `Excluding`). That only exports
fork needs one fact more: no row follows the head yet (`HeadIsUnused`). If one did, the
head's hash would also be that of an earlier row, two rows would record one event, and
`EventsDiffer` says that no two do, the events of the requests in flight included.

*OpusNotes, OpusWorkspace, OpusFiles.* The holder of the lock is the only request past
`Meter` (`HoldsLock`, `Stages`), and what it has prepared to commit is what its operation
says of the rows as they are (`Prepared`, `Knows`): a check made under the lock is still
true at the commit because nobody else could write, and the requests outside the lock
(`CollectUser`, `Resolve`, public links) know less. In OpusNotes the row is the last body
committed, and the cache has a body committed under the version it is kept by. In
OpusWorkspace `BillingInv` ties the subscription's period to the invoices there are;
upgrades need that rounding to even is monotone and off by half at most (`RoundedNear`,
`RoundedGrows`) and what a sum of charges is when one is added (`ChargesAdd`). In
OpusFiles a live row has a blob, a lost one or a request that is going to delete the row
(`LiveInv`), a blob has a row, an upload in flight or an abort to blame (`ByteInv`); the
upload under the lock has `Room`, a purge only rows that are `Past` their window, and what
a request has still to unlink covers the bytes of what it deletes (`Unlinks`). That the
files of a tenant are finitely many is in the invariant, not assumed.

`EditsKeepTheirPlace` has its own second invariant, `TextInv`. No body has a mark twice or
one newer than itself; every operation in the log, and every one committed and not yet
logged, made the body of its version, and no two have the same version. So if the log
covers what a client had not seen, its last operations are exactly the ones between the
client's version and the current one (`RebaseKeepsPlace`), and by induction along them
`Shift` keeps the marks that were left of the position left of it and the others right of
it (`ShiftKeepsPlace`), and so a range that is still in one piece begins just after it.
What splicing a text into a sequence, or a range out of it, does to the places of the rest
is stated once, in the lemmas before. The property's condition, that the log covers, is the
code's own weak point: without it an edit is placed by what is left of the log.

*KimiAuth.* Nobody else is registering the account a registration inserts; a refresh
holds the row and the password of its session as they were, unless it is `late`; with
refreshes alone a login has one live row that has not been exchanged (`RefreshInv`); a
token's uses and the confirmations in flight with it are no more than there are requests
(`ResetsInv`); with setups alone the secret a code has matched is still the account's.

*KimiNotes.* Rows are the last contents of live notes; the cache holds replies that were
committed, and current ones while reads are alone; a rotation has scanned every live
object of the classes it has `Visited`; two creations in flight have two objects.

*KimiSharing.* The log has a maximum, so that a timestamp read from it is above all that
was in it (`LogInv`); presence rows are counted together with the requests that found none
and will insert one (`PresenceIsBounded`); what is issued alone is alone in flight
(`AloneIsAlone`), which turns every condition on `regime` into a fact about the requests.

*KimiFiles.* What a request may unlink and delete (`MayUnlink`, `Purged`); without
overlapping erasures, an erasure has collected every blob there is (`Collected`) and a
blob has a row or an upload in flight (`BlobsHaveRows`); uses of a token are counted
together with the downloads in flight.

Rebasing and the sums of charges are folds over sequences. The
library's induction theorems take a predicate as a parameter, which the provers cannot
instantiate; `LeastNatural` and `Induction` state induction for a *set* of natural numbers
instead, from the well-foundedness of `<`, and each fold is characterised by the function
of its intermediate results (`RebaseSteps`, `ChargesAdd`), which that induction reaches.

### Model-checked only

Every safety invariant and every action property of a run is the subject of a theorem.
What is left to TLC:

* Liveness: `RequestsEnd` and `RetentionEnforced`. Fairness and ENABLED are beyond the
  prover.
* That the conditions of the properties (a regime, `OneAtATime`, a log that covers) are
  needed: the proofs use them, and section 3 says what TLC finds without them.

## 5. Not modelled

* Reads that only report: listings, exports, analytics (counts plus noise), verification of
  a chain by an administrator as a request of its own. They change nothing; the reads whose
  answers matter (notes, files, tokens) are modelled.
* Folders, and shares of folders, which give a second source of the same levels; further
  workspaces of a tenant. Nothing else depends on them.
* Consent records and the purge of notes: the shape of the purge of files without blobs.
* The counters of usage and Kimi's invoices: written, reported and read by nothing else.
* The rate limiters: a window of timestamps of wall clocks. In the Redis variants clients'
  clocks order the window, and a refused request counts (Kimi) or counts until it is
  removed (Opus); nothing but the answer depends on it.
* Share links of Kimi: created, never resolved.
* Configuration, wiring, schemas and their validation, headers, the mailer, file sniffing
  and scanning (an upload is an accepted one), what ciphertexts are made of, the
  demonstration scripts.
