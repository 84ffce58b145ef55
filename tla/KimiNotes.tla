----------------------------- MODULE KimiNotes ------------------------------
(***************************************************************************)
(* Encrypted notes, folders and files of one tenant of the Kimi3 server:   *)
(* services/note_service.py with its cache (utils/cache.py), the envelope  *)
(* encryption (core/encryption.py) and the rotation of the tenant's key.   *)
(*                                                                         *)
(* A SELECT sees what is committed; the first write of a request takes the *)
(* database's one write lock, and get_db commits and releases it after the *)
(* handler has returned.  The cache is in memory and outside transactions. *)
(* An object a request has loaded stays in its session: a later SELECT of  *)
(* the same row does not refresh it.                                       *)
(***************************************************************************)
EXTENDS Naturals, Sequences

CONSTANTS
    Objects,     \* ids of notes, folders and files
    ClassOf,     \* the class of each id
    Texts,       \* titles and bodies
    Keys,        \* key-encryption keys generate_tenant_kek may return
    Workers,     \* requests that can be in flight together
    None,        \* no text, no key, no object, no cache entry
    MaxVersion,  \* bound of the model on notes.version and on committed contents
    Regimes      \* sets of operations issued only while nothing else runs

Ops == {"create", "get", "update", "delete", "rotate"}

ASSUME NotesAssumption ==
    /\ ClassOf \in [Objects -> {"note", "folder", "file"}]
    /\ None \notin Objects \cup Texts \cup Keys \cup Workers \cup Ops
    /\ MaxVersion \in Nat \ {0}
    /\ Regimes \subseteq SUBSET Ops

VARIABLES
    rows,      \* committed rows of notes, folders and files
    kek,       \* committed key of the organization
    lock,      \* holder of the database's write lock
    cache,     \* note_cache
    requests,  \* what each in-flight request has done and read
    contents,  \* ghost: the texts and versions committed to each note
    alone      \* ghost: the operations that no other request overlaps here

vars == <<rows, kek, lock, cache, requests, contents, alone>>

Notes == {o \in Objects : ClassOf[o] = "note"}

\* key is the tenant key the object's data key is wrapped with.
Row == [status  : {"unused", "live", "deleted"},
        text    : Texts \cup {None},
        version : 0 .. MaxVersion,
        key     : Keys \cup {None}]

NoRow == [status |-> "unused", text |-> None, version |-> 0, key |-> None]

Reply == [text : Texts, version : 1 .. MaxVersion]

Request == [stage   : {"idle", "loaded", "missed", "checked", "scanning",
                       "flushed", "answered"},
            op      : Ops \cup {None},
            object  : Objects \cup {None},
            row     : Row,                    \* the object as it was loaded
            text    : Texts \cup {None},      \* the new text
            key     : Keys \cup {None},       \* the tenant key as it was read
            new     : Keys \cup {None},       \* the tenant key a rotation made
            scanned : SUBSET Objects,         \* what a rotation re-wrapped
            scans   : 0 .. 3,                 \* how many classes it has read
            reply   : Reply \cup {None},
            since   : Nat]                    \* ghost: contents when w began

Idle == [stage |-> "idle", op |-> None, object |-> None, row |-> NoRow,
         text |-> None, key |-> None, new |-> None, scanned |-> {},
         scans |-> 0, reply |-> None, since |-> 0]

TypeOK ==
    /\ rows \in [Objects -> Row]
    /\ kek \in Keys
    /\ lock \in Workers \cup {None}
    /\ cache \in [Notes -> Reply \cup {None}]
    /\ requests \in [Workers -> Request]
    /\ contents \in [Notes -> Seq(Reply)]
    /\ alone \in Regimes

Init ==
    /\ rows = [o \in Objects |-> NoRow]
    /\ kek \in Keys
    /\ lock = None
    /\ cache = [n \in Notes |-> None]
    /\ requests = [w \in Workers |-> Idle]
    /\ contents = [n \in Notes |-> <<>>]
    /\ alone \in Regimes

-----------------------------------------------------------------------------
(* A definition Bad... is a plausible mistake in the definition after it; no *)
(* specification uses it, it is there to show that a property notices it.  *)

Live(o) == rows[o].status = "live"

Begin(w, q) ==
    /\ requests[w] = Idle
    /\ \A v \in Workers : requests[v].op \notin alone
    /\ q.op \in alone => \A v \in Workers : requests[v] = Idle
    /\ requests' = [requests EXCEPT ![w] = q]

Advance(w, stage) == requests' = [requests EXCEPT ![w].stage = stage]

TakeLock(w) == lock \in {None, w} /\ lock' = w

\* unwrap_dek: AES-GCM authenticates, a wrong key raises.
Unwraps(row, key) == row.key = key

\* The payload get_note returns and caches.
Payload(row) == [text |-> row.text, version |-> row.version]

\* notes.get_by_id_and_org and the deleted_at check of the route.
Found(n) == Live(n)

\* The columns an update of a loaded note writes.
BadUpdated(stored, row, text) == [stored EXCEPT !.text = text]
Updated(stored, row, text) ==
    [stored EXCEPT !.text = text, !.version = row.version + 1]

\* note_cache.invalidate.
BadInvalidated(w) ==
    [cache EXCEPT ![requests[w].object] =
        [text |-> requests[w].text, version |-> requests[w].row.version + 1]]
BadNotInvalidated(w) == cache
Invalidated(w) == [cache EXCEPT ![requests[w].object] = None]

\* The classes rotate_tenant_key re-wraps, in its order.
BadClasses == <<"note", "folder", "folder">>
Classes == <<"note", "folder", "file">>

-----------------------------------------------------------------------------
(* Creating a note, a folder or a file wraps a fresh data key with the      *)
(* tenant key as it was read before the row is inserted.                   *)

CreateRead(w, o, text) ==
    /\ rows[o] = NoRow
    /\ \A v \in Workers : requests[v].object # o
    /\ Begin(w, [Idle EXCEPT !.stage = "checked", !.op = "create", !.object = o,
                             !.text = text, !.key = kek])
    /\ UNCHANGED <<rows, kek, lock, cache, contents, alone>>

CreateCommit(w) ==
    LET q == requests[w]
        row == [status |-> "live", text |-> q.text, version |-> 1, key |-> q.key]
    IN
    /\ q.op = "create"
    /\ lock = None
    /\ rows' = [rows EXCEPT ![q.object] = row]
    /\ contents' = IF q.object \in Notes
                   THEN [contents EXCEPT ![q.object] = Append(@, Payload(row))]
                   ELSE contents
    /\ requests' = [requests EXCEPT ![w] = Idle]
    /\ UNCHANGED <<kek, lock, cache, alone>>

-----------------------------------------------------------------------------
(* Reading a note: the route loads the row, then the service looks in the   *)
(* cache, and on a miss decrypts the loaded row.                            *)

Load(w, op, n, text, stage) ==
    /\ Begin(w, [Idle EXCEPT !.stage = stage, !.op = op, !.object = n,
                             !.text = text, !.row = rows[n], !.since = Len(contents[n])])
    /\ UNCHANGED <<rows, kek, lock, cache, contents, alone>>

GetRead(w, n) == Found(n) /\ Load(w, "get", n, None, "loaded")

GetLookup(w) ==
    LET hit == cache[requests[w].object] IN
    /\ requests[w].op = "get" /\ requests[w].stage = "loaded"
    /\ requests' = [requests EXCEPT ![w] = [@ EXCEPT
                        !.stage = IF hit = None THEN "missed" ELSE "answered",
                        !.reply = hit]]
    /\ UNCHANGED <<rows, kek, lock, cache, contents, alone>>

GetFill(w) ==
    LET q == requests[w] IN
    /\ q.stage = "missed"
    /\ Unwraps(q.row, kek)
    /\ cache' = [cache EXCEPT ![q.object] = Payload(q.row)]
    /\ requests' = [requests EXCEPT ![w] =
                        [@ EXCEPT !.stage = "answered", !.reply = Payload(q.row)]]
    /\ UNCHANGED <<rows, kek, lock, contents, alone>>

Answer(w) ==
    /\ requests[w].stage = "answered"
    /\ requests' = [requests EXCEPT ![w] = Idle]
    /\ UNCHANGED <<rows, kek, lock, cache, contents, alone>>

-----------------------------------------------------------------------------
(* Updating and deleting a note: flushed and the cache invalidated in the   *)
(* handler, committed afterwards.                                          *)

UpdateRead(w, n, text) ==
    /\ Live(n)
    /\ rows[n].version < MaxVersion /\ Len(contents[n]) < MaxVersion
    /\ Load(w, "update", n, text, "loaded")

UpdateKey(w) ==
    /\ requests[w].op = "update" /\ requests[w].stage = "loaded"
    /\ Unwraps(requests[w].row, kek)
    /\ Advance(w, "checked")
    /\ UNCHANGED <<rows, kek, lock, cache, contents, alone>>

UpdateFlush(w) ==
    /\ requests[w].op = "update" /\ requests[w].stage = "checked"
    /\ TakeLock(w)
    /\ cache' = Invalidated(w)
    /\ Advance(w, "flushed")
    /\ UNCHANGED <<rows, kek, contents, alone>>

DeleteRead(w, n) == Live(n) /\ Load(w, "delete", n, None, "checked")

DeleteFlush(w) ==
    /\ requests[w].op = "delete" /\ requests[w].stage = "checked"
    /\ TakeLock(w)
    /\ cache' = Invalidated(w)
    /\ Advance(w, "flushed")
    /\ UNCHANGED <<rows, kek, contents, alone>>

-----------------------------------------------------------------------------
(* rotate_tenant_key.                                                      *)

RotateRead(w, new) ==
    /\ new # kek
    /\ \A o \in Objects : rows[o].key # new
    /\ \A v \in Workers : requests[v].new # new /\ requests[v].key # new
    /\ Begin(w, [Idle EXCEPT !.stage = "scanning", !.op = "rotate",
                             !.key = kek, !.new = new])
    /\ UNCHANGED <<rows, kek, lock, cache, contents, alone>>

\* Selecting the next class first flushes (autoflush) what has been re-wrapped
\* so far.  A data key that does not unwrap ends the rotation with an error.
RotateScan(w) ==
    LET q     == requests[w]
        found == {o \in Objects : ClassOf[o] = Classes[q.scans + 1] /\ Live(o)}
    IN
    /\ q.stage = "scanning"
    /\ q.scans < 3
    /\ IF q.scanned = {} THEN UNCHANGED lock ELSE TakeLock(w)
    /\ \A o \in found : Unwraps(rows[o], q.key)
    /\ requests' = [requests EXCEPT ![w] =
                        [q EXCEPT !.scanned = q.scanned \cup found, !.scans = q.scans + 1]]
    /\ UNCHANGED <<rows, kek, cache, contents, alone>>

RotateFlush(w) ==
    /\ requests[w].stage = "scanning"
    /\ requests[w].scans = 3
    /\ TakeLock(w)
    /\ cache' = [n \in Notes |-> None]
    /\ Advance(w, "flushed")
    /\ UNCHANGED <<rows, kek, contents, alone>>

-----------------------------------------------------------------------------
\* get_db commits what the handler flushed.  Nothing looks again whether the note
\* has been deleted since it was loaded: the row is overwritten all the same.
CommitUpdate(w) ==
    LET q   == requests[w]
        new == Updated(rows[q.object], q.row, q.text)
    IN
    /\ q.op = "update" /\ q.stage = "flushed"
    /\ rows' = [rows EXCEPT ![q.object] = new]
    /\ contents' = [contents EXCEPT ![q.object] = Append(@, Payload(new))]
    /\ lock' = None
    /\ requests' = [requests EXCEPT ![w] = Idle]
    /\ UNCHANGED <<kek, cache, alone>>

CommitDelete(w) ==
    /\ requests[w].op = "delete" /\ requests[w].stage = "flushed"
    /\ rows' = [rows EXCEPT ![requests[w].object].status = "deleted"]
    /\ lock' = None
    /\ requests' = [requests EXCEPT ![w] = Idle]
    /\ UNCHANGED <<kek, cache, contents, alone>>

CommitRotate(w) ==
    LET q == requests[w] IN
    /\ q.op = "rotate" /\ q.stage = "flushed"
    /\ rows' = [o \in Objects |-> IF o \in q.scanned
                                  THEN [rows[o] EXCEPT !.key = q.new] ELSE rows[o]]
    /\ kek' = q.new
    /\ lock' = None
    /\ requests' = [requests EXCEPT ![w] = Idle]
    /\ UNCHANGED <<cache, contents, alone>>

\* An error, a busy timeout or a lost client: get_db rolls back.
Abort(w) ==
    /\ requests[w] # Idle
    /\ requests' = [requests EXCEPT ![w] = Idle]
    /\ lock' = IF lock = w THEN None ELSE lock
    /\ UNCHANGED <<rows, kek, cache, contents, alone>>

\* Expiry of the entry's TTL, or eviction of the least recently used entry.
Expire(n) ==
    /\ cache[n] # None
    /\ cache' = [cache EXCEPT ![n] = None]
    /\ UNCHANGED <<rows, kek, lock, requests, contents, alone>>

\* The cache and the requests in flight do not survive the process.
Restart ==
    /\ requests' = [w \in Workers |-> Idle]
    /\ cache' = [n \in Notes |-> None]
    /\ lock' = None
    /\ UNCHANGED <<rows, kek, contents, alone>>

Step(w) ==
    \/ \E o \in Objects, text \in Texts : CreateRead(w, o, text)
    \/ CreateCommit(w)
    \/ \E n \in Notes : GetRead(w, n)
    \/ GetLookup(w)
    \/ GetFill(w)
    \/ Answer(w)
    \/ \E n \in Notes, text \in Texts : UpdateRead(w, n, text)
    \/ UpdateKey(w)
    \/ UpdateFlush(w)
    \/ CommitUpdate(w)
    \/ \E n \in Notes : DeleteRead(w, n)
    \/ DeleteFlush(w)
    \/ CommitDelete(w)
    \/ \E new \in Keys : RotateRead(w, new)
    \/ RotateScan(w)
    \/ RotateFlush(w)
    \/ CommitRotate(w)
    \/ Abort(w)

Next == (\E w \in Workers : Step(w)) \/ (\E n \in Notes : Expire(n)) \/ Restart

Spec == Init /\ [][Next]_vars

-----------------------------------------------------------------------------
(* Properties that hold however requests interleave.                       *)

\* What a request is reading, in the terms of NoteStore: its read begins when
\* the route loads the row.
Reading(w) ==
    LET q == requests[w] IN
    IF q.op = "get" THEN [note |-> q.object, since |-> q.since,
                          answer |-> q.reply]
    ELSE [note |-> None, since |-> 0, answer |-> None]

Store == INSTANCE NoteStore WITH
    Readers <- Workers,
    Nothing <- None,
    Fresh   <- FALSE,
    Final   <- FALSE,
    deleted <- {n \in Notes : rows[n].status = "deleted"},
    reads   <- [w \in Workers |-> Reading(w)]

\* A note is answered, from the cache or not, with a text and a version it had
\* together at some time, never with an update that was rolled back; a note
\* deleted before the request began is not served, although the cache may hold
\* it; and no update, rotation or rollback that races a deletion brings a note
\* back (note_service.py:60, 92; utils/cache.py:37).  A deletion does not stop
\* an update that had loaded the note: its text and version are written to the
\* deleted row (note_service.py:79-91), hence Final is FALSE.
ReadsAreCommitted == Store!Spec

-----------------------------------------------------------------------------
(* Properties that hold as long as some operations overlap nothing.        *)

\* "Every object class whose DEK is wrapped with the tenant KEK must be
\* re-wrapped, otherwise those objects become unreadable": the data key of
\* every live note, folder and file is wrapped with the tenant's current key.
LiveObjectsReadable == \A o \in Objects : Live(o) => rows[o].key = kek

\* It is so while nothing is created during a rotation, whatever else overlaps.
RotationKeepsObjectsReadable == "create" \in alone => LiveObjectsReadable

\* A read that begins after an update was answered returns that update or a
\* later one, while no other request runs beside a read.  (A read that loaded
\* the row before an update commits puts the old text back in the cache after
\* update_note has invalidated it, for up to the entry's TTL.)
AnswersAreCurrent ==
    "get" \in alone =>
        \A w \in Workers : requests[w].stage = "answered" =>
            LET n == requests[w].object IN
            \E i \in requests[w].since .. Len(contents[n]) :
                contents[n][i] = requests[w].reply

\* The version of a note counts its contents, so that clients can tell two
\* contents of a note apart by it, while updates do not overlap.
VersionCountsUpdates ==
    "update" \in alone =>
        \A n \in Notes : Live(n) => rows[n].version = Len(contents[n])

NotesAreConsistent == TypeOK /\ VersionCountsUpdates
=============================================================================
