----------------------------- MODULE OpusNotes ------------------------------
(***************************************************************************)
(* One note of a tenant of the Opus server: its versions and the cache of  *)
(* decrypted notes (services/note_service.py, core/cache.py), the access   *)
(* to it (services/access_service.py, sharing_service.py), public links,   *)
(* and edits rebased on a log of operations kept in memory                 *)
(* (services/collab_service.py, api/v1/notes.py).                          *)
(*                                                                         *)
(* A request under /organizations/{id} checks membership, then counts its  *)
(* use of the API: that INSERT takes the database's one write lock, so the *)
(* service runs under the lock, which is released by the commit or, for a  *)
(* read, by the end of the session.  Requests for a public link take no    *)
(* lock.  The cache and the log are in memory: a rollback leaves them.     *)
(*                                                                         *)
(* A body is a sequence of marks, no two alike: <<v, i>> is the i-th       *)
(* character of the text that version v inserted.                          *)
(***************************************************************************)
EXTENDS AccessLevels, SequencesExt

CONSTANTS
    Users,         \* users, all of them may be members of the tenant
    Workers,       \* requests that can be in flight together
    Links,         \* ids of public links
    None,          \* no user, no operation, no link, no text
    InitialRoles,  \* the role of each user at the start, or None
    FirstBody,     \* the body a note is created with
    OplogLimit,    \* operations kept per note: 200 in the code
    MaxVersion,    \* bound of the model on notes.version
    Lengths,       \* how much one operation of a client inserts or deletes
    Workloads      \* sets of operations that clients may issue

Ops == {"create", "read", "edit", "operate", "delete", "share", "link",
        "open", "members", "forget"}

ASSUME NotesAssumption ==
    /\ InitialRoles \in [Users -> Roles \cup {None}]
    /\ None \notin Users \cup Workers \cup Links \cup Roles \cup Ops \cup {"note"}
    /\ OplogLimit \in Nat \ {0} /\ MaxVersion \in Nat \ {0} /\ Lengths \subseteq Nat
    /\ FirstBody \in Seq({1} \X (Nat \ {0})) /\ IsInjective(FirstBody)
    /\ Workloads \subseteq SUBSET Ops

VARIABLES
    note,      \* the committed row of the note
    roles,     \* memberships: the role of each user, or None
    shares,    \* the level each user has been granted on the note
    links,     \* public links to the note
    lock,      \* holder of the database's write lock
    cache,     \* container.note_cache
    oplog,     \* container.collab: operations applied, in memory
    requests,  \* what each in-flight request has done and read
    contents,  \* ghost: the bodies committed, in order
    workload   \* ghost: the operations clients issue in this behaviour

vars == <<note, roles, shares, links, lock, cache, oplog, requests, contents,
          workload>>

Marks  == (1 .. MaxVersion) \X (Nat \ {0})
Bodies == Seq(Marks)

\* A text of that length, new in that version.
Text(version, length) == [i \in 1 .. length |-> <<version, i>>]

Row == [status  : {"unused", "live", "deleted"},
        owner   : Users \cup {None},
        version : 0 .. MaxVersion,
        body    : Bodies]

NoRow == [status |-> "unused", owner |-> None, version |-> 0, body |-> <<>>]

\* An operation as it was applied: at counts the marks before it, length those
\* it inserts or means to delete.
Operation == [version : 1 .. MaxVersion, kind : {"insert", "delete"}, at : Nat,
              length : Lengths]

NoOperation == [version |-> 0, kind |-> None, at |-> 0, length |-> 0]

Entry   == [version : 0 .. MaxVersion, body : Bodies]
NoEntry == [version |-> 0, body |-> <<>>]

Request == [stage  : {"idle", "entered", "locked", "written", "committed",
                      "resolved", "loaded", "answered"},
            op     : Ops \cup {None},
            user   : Users \cup {None},
            row    : Row,                    \* the note to be written or shown
            grant  : [to : Users \cup {None}, level : Levels],
            link   : Links \cup {None},
            applied : Operation \cup {NoOperation},
            base   : 0 .. MaxVersion,        \* the operation as the client
            asked  : Nat,                    \* stated it: base version and
            rebased : BOOLEAN,               \* position; ghost: on a full log
            answer : Bodies \cup {None}]

NoGrant == [to |-> None, level |-> 0]

Idle == [stage |-> "idle", op |-> None, user |-> None, row |-> NoRow,
         grant |-> NoGrant, link |-> None, applied |-> NoOperation,
         base |-> 0, asked |-> 0, rebased |-> FALSE, answer |-> None]

TypeOK ==
    /\ note \in Row
    /\ roles \in [Users -> Roles \cup {None}]
    /\ shares \in [Users -> Levels]
    /\ links \in [Links -> {"unused", "open", "expired"}]
    /\ lock \in Workers \cup {None}
    /\ cache \in Entry
    /\ oplog \in Seq(Operation) /\ Len(oplog) <= OplogLimit
    /\ requests \in [Workers -> Request]
    /\ contents \in Seq(Bodies)
    /\ workload \in Workloads

Init ==
    /\ note = NoRow
    /\ roles = InitialRoles
    /\ shares = [u \in Users |-> 0]
    /\ links = [l \in Links |-> "unused"]
    /\ lock = None
    /\ cache = NoEntry
    /\ oplog = <<>>
    /\ requests = [w \in Workers |-> Idle]
    /\ contents = <<>>
    /\ workload \in Workloads

-----------------------------------------------------------------------------
(* Access: the level of a user, from rows read under the lock.             *)

NoteLevel(u) == Combine(roles[u], note.owner = u, shares[u])

BadMay(w, level) ==
    LET u == requests[w].user
    IN  roles[u] # None /\ NoteLevel(u) >= level

May(w, level) ==
    LET u == requests[w].user
    IN  /\ roles[u] # None
        /\ note.status = "live"
        /\ NoteLevel(u) >= level

-----------------------------------------------------------------------------
(* The cache.  Entries are kept by version and may vanish: they expire and *)
(* are evicted.                                                            *)

\* The entry left behind by an update or a deletion that writes row.
Kept(row) == NoEntry

Decrypted ==
    IF cache.version = note.version THEN cache.body ELSE note.body

-----------------------------------------------------------------------------
(* Operational transformation.                                             *)

BadShift(pos, other) ==
    IF other.kind = "insert"
    THEN IF other.at < pos THEN pos + other.length ELSE pos
    ELSE IF other.at < pos /\ other.at < pos - other.length THEN pos - other.length
    ELSE IF other.at < pos THEN other.at ELSE pos

\* _transform_position.  A position inside a deleted range becomes its start.
Shift(pos, other) ==
    IF other.kind = "insert"
    THEN IF other.at <= pos THEN pos + other.length ELSE pos
    ELSE IF other.at < pos /\ other.at < pos - other.length THEN pos - other.length
    ELSE IF other.at < pos THEN other.at ELSE pos

\* Past every operation in the log that the client had not seen.
Rebase(pos, base) ==
    FoldLeft(LAMBDA p, o : IF o.version > base THEN Shift(p, o) ELSE p, pos, oplog)

\* The log ends with the operations that made every version after base,
\* so that the operation can be rebased on what its client had not seen.
LogCovers(base) ==
    LET missing == note.version - base
        tail    == SubSeq(oplog, Len(oplog) - missing + 1, Len(oplog))
    IN  /\ missing <= Len(oplog)
        /\ \A i \in 1 .. missing : tail[i].version = base + i

\* Positions past the end of a body are its end.
Clamp(pos, body) == IF pos <= Len(body) THEN pos ELSE Len(body)

Apply(body, o) ==
    LET at   == Clamp(o.at, body)
        end  == IF o.kind = "delete" THEN Clamp(at + o.length, body) ELSE at
        text == IF o.kind = "insert" THEN Text(o.version, o.length) ELSE <<>>
    IN  SubSeq(body, 1, at) \o text \o SubSeq(body, end + 1, Len(body))

\* The last OplogLimit operations.
Trimmed(log) ==
    IF Len(log) > OplogLimit
    THEN SubSeq(log, Len(log) - OplogLimit + 1, Len(log))
    ELSE log

-----------------------------------------------------------------------------
(* The frame of a tenant request.                                          *)

\* get_tenant_context reads the membership ...
Enter(w) ==
    /\ requests[w].stage = "idle"
    /\ workload \ {"open", "members", "forget"} # {}
    /\ \E u \in Users :
           /\ roles[u] # None
           /\ requests' = [requests EXCEPT ![w] =
                              [Idle EXCEPT !.stage = "entered", !.user = u]]
    /\ UNCHANGED <<note, roles, shares, links, lock, cache, oplog, contents,
                   workload>>

BadLockIsFree == TRUE

LockIsFree == lock = None

\* ... and counts the call, the first write of the session.
Meter(w) ==
    /\ requests[w].stage = "entered"
    /\ LockIsFree
    /\ lock' = w
    /\ requests' = [requests EXCEPT ![w].stage = "locked"]
    /\ UNCHANGED <<note, roles, shares, links, cache, oplog, contents, workload>>

\* The commit, the rollback or the end of the session.
Released(w) == IF lock = w THEN None ELSE lock

\* The answer of a read is on its way; base is the version it shows.
Answered(op, version, body) ==
    [Idle EXCEPT !.stage = "answered", !.op = op, !.base = version, !.answer = body]

\* The service leaves a request ready to commit what is in new.
Prepare(w, op, new) ==
    /\ requests[w].stage = "locked"
    /\ op \in workload
    /\ requests' = [requests EXCEPT ![w] = [new EXCEPT !.stage = "written",
                                                       !.op = op]]
    /\ UNCHANGED <<note, roles, shares, links, lock, oplog, contents, workload>>

CreateNote(w) ==
    LET r == requests[w] IN
    /\ note.status = "unused"
    /\ r.stage = "locked" /\ roles[r.user] \notin {None, "viewer"}
    /\ Prepare(w, "create",
               [r EXCEPT !.row = [status |-> "live", owner |-> r.user,
                                  version |-> 1, body |-> FirstBody]])
    /\ UNCHANGED cache

\* get_note; the session ends without a commit.  The answer is on its way.
GetNote(w) ==
    /\ requests[w].stage = "locked" /\ "read" \in workload
    /\ May(w, ReadLevel)
    /\ cache' = [version |-> note.version, body |-> Decrypted]
    /\ lock' = Released(w)
    /\ requests' = [requests EXCEPT ![w] = Answered("read", note.version, Decrypted)]
    /\ UNCHANGED <<note, roles, shares, links, oplog, contents, workload>>

Edited(body) == [note EXCEPT !.version = @ + 1, !.body = body]

\* update_note: a new body or only a new title, with or without the version
\* the client expects.  The cache is invalidated before the commit.
UpdateNote(w) ==
    LET r == requests[w] IN
    /\ r.stage = "locked" /\ May(w, WriteLevel)
    /\ note.version < MaxVersion
    /\ \E expected \in {0} \cup 1 .. note.version,
          body \in {Decrypted, Text(note.version + 1, 1)} :
           /\ expected \in {0, note.version}
           /\ Prepare(w, "edit", [r EXCEPT !.row = Edited(body)])
           /\ cache' = Kept(Edited(body))

\* apply_operation: get_note, transform, apply, update_note.  Neither position
\* nor length is checked against the body the client saw: both may go past it.
ApplyOperation(w) ==
    LET r == requests[w] IN
    /\ r.stage = "locked" /\ May(w, WriteLevel)
    /\ note.version < MaxVersion
    /\ \E kind \in {"insert", "delete"}, length \in Lengths,
          base \in 1 .. note.version :
       \E pos \in 0 .. Len(contents[base]) + 1 :
           LET o   == [version |-> note.version + 1, kind |-> kind,
                       at |-> Rebase(pos, base), length |-> length]
               row == Edited(Apply(Decrypted, o))
           IN  /\ Prepare(w, "operate",
                          [r EXCEPT !.row = row, !.base = base, !.asked = pos,
                                    !.rebased = LogCovers(base), !.applied = o])
               /\ cache' = Kept(row)

DeleteNote(w) ==
    LET r   == requests[w]
        row == [note EXCEPT !.status = "deleted"]
    IN
    /\ r.stage = "locked" /\ May(w, AdminLevel)
    /\ Prepare(w, "delete", [r EXCEPT !.row = row])
    /\ cache' = Kept(row)

ShareNote(w) ==
    LET r == requests[w] IN
    /\ r.stage = "locked" /\ May(w, AdminLevel)
    /\ \E to \in Users, level \in Levels \ {0} :
           /\ roles[to] # None
           /\ Prepare(w, "share", [r EXCEPT !.grant = [to |-> to, level |-> level]])
    /\ UNCHANGED cache

CreateLink(w) ==
    LET r == requests[w] IN
    /\ r.stage = "locked" /\ May(w, AdminLevel)
    /\ \E l \in Links :
           /\ links[l] = "unused"
           /\ Prepare(w, "link", [r EXCEPT !.link = l])
    /\ UNCHANGED cache

\* The commit of the service, which ends the exclusion of other requests.
Commit(w) ==
    LET r == requests[w] IN
    /\ r.stage = "written"
    /\ note' = IF r.row = NoRow THEN note ELSE r.row
    /\ contents' = IF r.op \in {"create", "edit", "operate"}
                   THEN Append(contents, r.row.body) ELSE contents
    /\ shares' = IF r.op = "share" THEN [shares EXCEPT ![r.grant.to] = r.grant.level]
                 ELSE shares
    /\ links' = IF r.op = "link" THEN [links EXCEPT ![r.link] = "open"] ELSE links
    /\ lock' = Released(w)
    /\ requests' = [requests EXCEPT ![w] =
                       IF r.op = "operate" THEN [Idle EXCEPT !.stage = "committed",
                                                             !.applied = r.applied]
                       ELSE Idle]
    /\ UNCHANGED <<roles, cache, oplog, workload>>

\* apply_operation logs the operation after update_note has committed it.
RecordOperation(w) ==
    /\ requests[w].stage = "committed"
    /\ oplog' = Trimmed(Append(oplog, requests[w].applied))
    /\ requests' = [requests EXCEPT ![w] = Idle]
    /\ UNCHANGED <<note, roles, shares, links, lock, cache, contents, workload>>

-----------------------------------------------------------------------------
(* Public links: three reads without a lock, and no cache.                 *)

ResolveLink(w) ==
    /\ requests[w].stage = "idle" /\ "open" \in workload
    /\ \E l \in Links : links[l] = "open"
    /\ requests' = [requests EXCEPT ![w] = [Idle EXCEPT !.stage = "resolved",
                                                        !.op = "open"]]
    /\ UNCHANGED <<note, roles, shares, links, lock, cache, oplog, contents,
                   workload>>

LoadShared(w) ==
    /\ requests[w].stage = "resolved"
    /\ note.status = "live"
    /\ requests' = [requests EXCEPT ![w].stage = "loaded", ![w].row = note]
    /\ UNCHANGED <<note, roles, shares, links, lock, cache, oplog, contents,
                   workload>>

AnswerShared(w) ==
    /\ requests[w].stage = "loaded"
    /\ LET shown == requests[w].row
       IN  requests' = [requests EXCEPT ![w] =
                           Answered("open", shown.version, shown.body)]
    /\ UNCHANGED <<note, roles, shares, links, lock, cache, oplog, contents,
                   workload>>

-----------------------------------------------------------------------------
(* The end of a request, and what happens around requests.                 *)

Done(w) ==
    /\ requests[w].stage = "answered"
    /\ requests' = [requests EXCEPT ![w] = Idle]
    /\ UNCHANGED <<note, roles, shares, links, lock, cache, oplog, contents,
                   workload>>

\* A refusal, an error or a lost client: the session rolls back.
Abort(w) ==
    /\ requests[w].stage \in {"entered", "locked", "written", "committed",
                              "resolved", "loaded"}
    /\ requests' = [requests EXCEPT ![w] = Idle]
    /\ lock' = Released(w)
    /\ UNCHANGED <<note, roles, shares, links, cache, oplog, contents, workload>>

\* An invitation, a change of role or a removal (WorkspaceService).
ChangeMembership(u, role) ==
    /\ "members" \in workload
    /\ LockIsFree
    /\ roles[u] # "owner" /\ role # "owner" /\ role # roles[u]
    /\ roles' = [roles EXCEPT ![u] = role]
    /\ UNCHANGED <<note, shares, links, lock, cache, oplog, requests, contents,
                   workload>>

LapseLink(l) ==
    /\ links[l] = "open"
    /\ links' = [links EXCEPT ![l] = "expired"]
    /\ UNCHANGED <<note, roles, shares, lock, cache, oplog, requests, contents,
                   workload>>

\* A cache entry expires or is evicted.
Evict ==
    /\ cache # NoEntry
    /\ cache' = NoEntry
    /\ UNCHANGED <<note, roles, shares, links, lock, oplog, requests, contents,
                   workload>>

\* The process restarts: its memory and the requests in flight are lost.
Restart ==
    /\ "forget" \in workload
    /\ cache' = NoEntry /\ oplog' = <<>>
    /\ lock' = None
    /\ requests' = [w \in Workers |-> Idle]
    /\ UNCHANGED <<note, roles, shares, links, contents, workload>>

\* The routes of api/v1/notes.py.
NoteRoutes(w) == CreateNote(w) \/ GetNote(w) \/ UpdateNote(w) \/ DeleteNote(w)

SharingRoutes(w) == ShareNote(w) \/ CreateLink(w)

PublicRoutes(w) == ResolveLink(w) \/ LoadShared(w) \/ AnswerShared(w)

Next ==
    \/ \E w \in Workers :
          \/ Enter(w) \/ Meter(w)
          \/ NoteRoutes(w) \/ SharingRoutes(w) \/ PublicRoutes(w)
          \/ ApplyOperation(w) \/ Commit(w) \/ RecordOperation(w)
          \/ Done(w) \/ Abort(w)
    \/ \E u \in Users, role \in Roles \cup {None} : ChangeMembership(u, role)
    \/ \E l \in Links : LapseLink(l)
    \/ Evict \/ Restart

Spec == Init /\ [][Next]_vars

-----------------------------------------------------------------------------
(* Properties.                                                             *)

\* What a request is reading, in the terms of NoteStore: a tenant request
\* begins to read when it has the lock, one for a link when it loads the row.
Reading(w) ==
    LET r == requests[w]
        read(since, answer) == [note |-> "note", since |-> since, answer |-> answer]
    IN  CASE r.stage = "locked" /\ note.status = "live" -> read(note.version, None)
          [] r.stage = "loaded"   -> read(r.row.version, None)
          [] r.stage = "answered" -> read(r.base, r.answer)
          [] OTHER                -> [note |-> None, since |-> 0, answer |-> None]

Store == INSTANCE NoteStore WITH
    Notes    <- {"note"},
    Readers  <- Workers,
    Nothing  <- None,
    Fresh    <- TRUE,
    Final    <- TRUE,
    contents <- [n \in {"note"} |-> contents],
    deleted  <- IF note.status = "deleted" THEN {"note"} ELSE {},
    reads    <- [w \in Workers |-> Reading(w)]

\* The cache, the rollbacks around it and the unlocked reads of public links
\* are invisible: every answer is a committed body of the note that was
\* current after the read began, and a deleted note is neither read nor
\* written again (note_service.py:128, 175, 197; api/v1/notes.py:262).
ReadsAreCurrent == Store!Spec

\* No edit is lost: the stored version is the number of bodies committed.
\* The version check of update_note and its increment are not atomic by
\* themselves; they are because the call was metered first (deps.py:101).
VersionCountsEdits == note.version = Len(contents)

Needed == [edit |-> WriteLevel, operate |-> WriteLevel, delete |-> AdminLevel,
           share |-> AdminLevel, link |-> AdminLevel]

\* Whoever is about to commit a change still has the access it needs: a
\* removal, a demotion or a deletion cannot slip between the check and the
\* commit (access_service.py:72).
AccessHeldUntilCommit ==
    \A w \in Workers :
        /\ requests[w].stage = "written"
        /\ requests[w].op \in DOMAIN Needed
        => May(w, Needed[requests[w].op])

NoteIsConsistent == TypeOK /\ VersionCountsEdits /\ AccessHeldUntilCommit

\* The text stands in the body, in one piece, after k marks.
StandsAt(text, body, k) ==
    /\ k + Len(text) <= Len(body)
    /\ SubSeq(body, k + 1, k + Len(text)) = text

\* The body without the length marks after the first k.
Without(body, k, length) ==
    SubSeq(body, 1, k) \o SubSeq(body, k + length + 1, Len(body))

\* What a client means to delete: a range of the body it saw.
MeansRange(seen, asked, length) == length > 0 /\ asked + length <= Len(seen)

\* The operation of request r lands where its client meant it.
InPlace(r) ==
    LET seen == contents[r.base]
        o    == r.applied
        body == r.row.body
    IN  IF o.kind = "insert"
        THEN \E k \in 0 .. Len(body) :
                 /\ StandsAt(Text(o.version, o.length), body, k)
                 /\ \A i \in DOMAIN seen, j \in DOMAIN body :
                        body[j] = seen[i] =>
                            IF i <= r.asked THEN j <= k ELSE j > k + o.length
        ELSE MeansRange(seen, r.asked, o.length) =>
                 \A k \in 0 .. Len(note.body) :
                     StandsAt(SubSeq(seen, r.asked + 1, r.asked + o.length), note.body, k)
                        => body = Without(note.body, k, o.length)

\* Operational transformation keeps intentions (collab_service.py:69): an
\* inserted text stands in one piece, right of what its client had on its left
\* and left of what it had on its right; and a deletion removes exactly the
\* range its client meant, provided that range is still in one piece - and that
\* the log had every operation the client had not seen, in their order.
OperationsKeepTheirPlace ==
    \A w \in Workers :
        (/\ requests[w].stage = "written" /\ requests[w].op = "operate"
         /\ requests[w].rebased)
            => InPlace(requests[w])

\* That a deletion removes what is left of the range its client meant, and
\* nothing else, does not hold: a text inserted into the range goes with it, and
\* as much of the range stays; and two deletions that overlap remove more.
DeletionsRemoveTheirRange ==
    \A w \in Workers :
        LET r == requests[w]
            o == r.applied
            seen == contents[r.base]
        IN  (/\ r.stage = "written" /\ r.op = "operate" /\ r.rebased
             /\ o.kind = "delete" /\ MeansRange(seen, r.asked, o.length))
                => LET meant == ToSet(SubSeq(seen, r.asked + 1, r.asked + o.length))
                   IN  r.row.body = SelectSeq(note.body, LAMBDA m : m \notin meant)
=============================================================================
