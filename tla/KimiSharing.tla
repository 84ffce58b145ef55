---------------------------- MODULE KimiSharing -----------------------------
(***************************************************************************)
(* One note of a tenant of the Kimi3 server and the people around it: who  *)
(* may do what with it (services/access_service.py), the grants that share *)
(* it (api/v1/notes.py), the log of edit operations and the presence of    *)
(* its readers (services/collab_service.py), and what an erasure takes     *)
(* away (services/compliance_service.py).                                  *)
(*                                                                         *)
(* A request checks access, reads what its write depends on, and writes.   *)
(* Its first write takes the database's one write lock, which is released  *)
(* by the commit: from there on it is one step for the others.  There are  *)
(* no unique indexes on grants, presence or operations, and foreign keys   *)
(* are not enforced.  Memberships are made outside the server, but for     *)
(* that of the owner; nothing takes a grant back.                          *)
(***************************************************************************)
EXTENDS AccessLevels, Sequences, FiniteSets

CONSTANTS
    Users,
    Workers,       \* requests that can be in flight together
    None,
    InitialRoles,  \* the role of each user in the tenant, or None
    MaxGrants,     \* bound of the model on the grants to a user
    MaxOperations, \* bound of the model on the operations on the note
    Regimes        \* what clients issue and how, see the ghost regime

Ops == {"create", "share", "operate", "presence", "delete", "erase", "eraseOrg"}

ASSUME SharingAssumption ==
    /\ InitialRoles \in [Users -> Roles \cup {None}]
    /\ None \notin Users \cup Workers \cup Roles \cup Ops
    /\ IsFiniteSet(Workers)
    /\ MaxGrants \in Nat /\ MaxOperations \in Nat
    /\ Regimes \subseteq [issued : SUBSET Ops, alone : SUBSET Ops, once : BOOLEAN]

VARIABLES
    tenant,      \* whether the organization is there
    roles,       \* its memberships: the role of each user, or None
    note,        \* the row of the note
    grants,      \* the levels in the grants to each user, one per row
    operations,  \* the rows of note_operations, as they were committed
    presence,    \* the number of presence_states rows of each user
    requests,    \* what each in-flight request has read
    regime       \* ghost: the operations clients issue in this behaviour, those
                 \* they issue alone, and whether they share only once

vars == <<tenant, roles, note, grants, operations, presence, requests, regime>>

Note == [status : {"unused", "live", "deleted", "gone"}, owner : Users \cup {None}]

\* seen (ghost): how many operations were committed when it was timestamped.
Operation == [lamport : Nat \ {0}, seen : Nat]

\* A request that has passed its checks, and one that has also read what it
\* writes: the next timestamp, or whether there is a presence row.
Request == [stage   : {"idle", "checked", "ready"},
            op      : Ops \cup {None},
            user    : Users \cup {None},
            to      : Users \cup {None},
            level   : Levels,
            lamport : Nat,
            seen    : Nat,
            found   : BOOLEAN]

Idle == [stage |-> "idle", op |-> None, user |-> None, to |-> None, level |-> 0,
         lamport |-> 0, seen |-> 0, found |-> FALSE]

TypeOK ==
    /\ tenant \in {"live", "erased"}
    /\ roles \in [Users -> Roles \cup {None}]
    /\ note \in Note
    /\ grants \in [Users -> Seq(Levels \ {0})]
    /\ operations \in Seq(Operation)
    /\ presence \in [Users -> 0 .. Cardinality(Workers)]
    /\ requests \in [Workers -> Request]
    /\ regime \in Regimes

Init ==
    /\ tenant = "live"
    /\ roles = InitialRoles
    /\ note = [status |-> "unused", owner |-> None]
    /\ grants = [u \in Users |-> <<>>]
    /\ operations = <<>>
    /\ presence = [u \in Users |-> 0]
    /\ requests = [w \in Workers |-> Idle]
    /\ regime \in Regimes

-----------------------------------------------------------------------------
(* Access.  A definition Bad... is a plausible mistake in the definition    *)
(* after it; no specification uses it.                                     *)

\* get_grant finds one row or none: with more than one the request fails.
Resolves(u) == Len(grants[u]) <= 1

ShareLevel(u) == IF grants[u] = <<>> THEN 0 ELSE grants[u][1]

BadCombined(role, isOwner, share) ==
    IF share > 0 THEN share ELSE Granted(role, isOwner, share)

Combined(role, isOwner, share) == Combine(role, isOwner, share)

\* What a request of u would be allowed on the note; 0 also if it would fail.
NoteLevel(u) ==
    IF roles[u] = None \/ note.status # "live" \/ ~Resolves(u) THEN 0
    ELSE Combined(roles[u], note.owner = u, ShareLevel(u))

\* The level a route asks for before it changes anything.
Needed == [share |-> AdminLevel, operate |-> WriteLevel, presence |-> ReadLevel,
           delete |-> AdminLevel]

\* A request of u, q, whose checks have let it pass.
Begin(w, q) ==
    /\ requests[w] = Idle
    /\ roles[q.user] # None
    /\ q.op \in DOMAIN Needed => NoteLevel(q.user) >= Needed[q.op]
    /\ q.op \in regime.issued
    /\ \A v \in Workers : requests[v].op \notin regime.alone
    /\ q.op \in regime.alone => \A v \in Workers : requests[v] = Idle
    /\ requests' = [requests EXCEPT ![w] = q]
    /\ UNCHANGED <<tenant, roles, note, grants, operations, presence, regime>>

\* get_db commits, or rolls back.
End(w) == requests' = [requests EXCEPT ![w] = Idle]

-----------------------------------------------------------------------------
(* The note and its grants.                                                *)

CreateNoteStart(w, u) ==
    /\ roles[u] # "viewer" /\ note.status = "unused"
    /\ Begin(w, [Idle EXCEPT !.stage = "ready", !.op = "create", !.user = u])

CreateNote(w) ==
    /\ requests[w].stage = "ready" /\ requests[w].op = "create"
    /\ note.status = "unused"
    /\ note' = [status |-> "live", owner |-> requests[w].user]
    /\ End(w)
    /\ UNCHANGED <<tenant, roles, grants, operations, presence, regime>>

\* With regime.once, clients share with a user who has not been shared with.
NotSharedWith(to) ==
    grants[to] = <<>> /\ \A w \in Workers : requests[w].to # to

ShareNoteStart(w, u) ==
    \E to \in Users, level \in Levels \ {0} :
        /\ roles[to] # None
        /\ regime.once => NotSharedWith(to)
        /\ Begin(w, [Idle EXCEPT !.stage = "ready", !.op = "share", !.user = u,
                                 !.to = to, !.level = level])

\* An INSERT, whether or not there is a grant to that user.
ShareNote(w) ==
    LET q == requests[w] IN
    /\ q.stage = "ready" /\ q.op = "share"
    /\ Len(grants[q.to]) < MaxGrants
    /\ grants' = [grants EXCEPT ![q.to] = Append(@, q.level)]
    /\ End(w)
    /\ UNCHANGED <<tenant, roles, note, operations, presence, regime>>

DeleteNoteStart(w, u) ==
    Begin(w, [Idle EXCEPT !.stage = "ready", !.op = "delete", !.user = u])

\* The UPDATE is of the row by its key; it fails if there is none.
DeleteNote(w) ==
    /\ requests[w].stage = "ready" /\ requests[w].op = "delete"
    /\ note.status # "gone"
    /\ note' = [note EXCEPT !.status = "deleted"]
    /\ End(w)
    /\ UNCHANGED <<tenant, roles, grants, operations, presence, regime>>

-----------------------------------------------------------------------------
(* Collaboration.                                                          *)

SubmitOperationStart(w, u) ==
    Begin(w, [Idle EXCEPT !.stage = "checked", !.op = "operate", !.user = u])

Lamports == {operations[i].lamport : i \in DOMAIN operations}

\* The last row instead of the greatest timestamp.
BadMaxLamport == IF operations = <<>> THEN 0 ELSE operations[Len(operations)].lamport

\* max_lamport.
MaxLamport ==
    IF operations = <<>> THEN 0 ELSE CHOOSE l \in Lamports : \A k \in Lamports : k <= l

\* The note is read again, deleted or not, and the last timestamp ...
ReadLamport(w) ==
    /\ requests[w].stage = "checked" /\ requests[w].op = "operate"
    /\ note.status # "gone" /\ tenant = "live"
    /\ requests' = [requests EXCEPT ![w].stage = "ready",
                                    ![w].lamport = MaxLamport + 1,
                                    ![w].seen = Len(operations)]
    /\ UNCHANGED <<tenant, roles, note, grants, operations, presence, regime>>

\* ... and the next one is written, whatever others have written since.
SubmitOperation(w) ==
    LET q == requests[w] IN
    /\ q.stage = "ready" /\ q.op = "operate"
    /\ Len(operations) < MaxOperations
    /\ operations' = Append(operations, [lamport |-> q.lamport, seen |-> q.seen])
    /\ End(w)
    /\ UNCHANGED <<tenant, roles, note, grants, presence, regime>>

UpdatePresenceStart(w, u) ==
    Begin(w, [Idle EXCEPT !.stage = "checked", !.op = "presence", !.user = u])

\* The note must still be live; two presence rows of the user are an error.
ReadPresence(w) ==
    LET q == requests[w] IN
    /\ q.stage = "checked" /\ q.op = "presence"
    /\ note.status = "live" /\ presence[q.user] <= 1
    /\ requests' = [requests EXCEPT ![w].stage = "ready",
                                    ![w].found = presence[q.user] = 1]
    /\ UNCHANGED <<tenant, roles, note, grants, operations, presence, regime>>

\* An UPDATE of the row that was found, if it is still there, or an INSERT.
UpdatePresence(w) ==
    LET q == requests[w] IN
    /\ q.stage = "ready" /\ q.op = "presence"
    /\ q.found => presence[q.user] > 0
    /\ presence' = IF q.found THEN presence ELSE [presence EXCEPT ![q.user] = @ + 1]
    /\ End(w)
    /\ UNCHANGED <<tenant, roles, note, grants, operations, regime>>

-----------------------------------------------------------------------------
(* Erasure.                                                                *)

EraseUserStart(w, u) ==
    Begin(w, [Idle EXCEPT !.stage = "ready", !.op = "erase", !.user = u])

BadWithout(u) == grants

\* The grants that are left when u is erased.
Without(u) == [grants EXCEPT ![u] = <<>>]

\* The note stays, and so do the operations and the presence of the user.
EraseUser(w) ==
    LET u == requests[w].user IN
    /\ requests[w].stage = "ready" /\ requests[w].op = "erase"
    /\ roles' = [roles EXCEPT ![u] = None]
    /\ grants' = Without(u)
    /\ End(w)
    /\ UNCHANGED <<tenant, note, operations, presence, regime>>

EraseOrganizationStart(w, u) ==
    /\ roles[u] = "owner"
    /\ Begin(w, [Idle EXCEPT !.stage = "ready", !.op = "eraseOrg", !.user = u])

\* Operations and presence go with the note; one in flight is created still.
EraseOrganization(w) ==
    /\ requests[w].stage = "ready" /\ requests[w].op = "eraseOrg"
    /\ tenant = "live"
    /\ tenant' = "erased"
    /\ roles' = [u \in Users |-> None]
    /\ note' = IF note.status = "unused" THEN note ELSE [note EXCEPT !.status = "gone"]
    /\ grants' = [u \in Users |-> <<>>]
    /\ operations' = <<>>
    /\ presence' = [u \in Users |-> 0]
    /\ End(w)
    /\ UNCHANGED regime

\* A refusal, an error, a lost client or a crash.
Abort(w) ==
    /\ requests[w] # Idle
    /\ End(w)
    /\ UNCHANGED <<tenant, roles, note, grants, operations, presence, regime>>

\* The routes of api/v1/notes.py and of api/v1/admin.py.
NoteRoutes(w) ==
    \/ \E u \in Users :
          CreateNoteStart(w, u) \/ ShareNoteStart(w, u) \/ DeleteNoteStart(w, u)
    \/ CreateNote(w) \/ ShareNote(w) \/ DeleteNote(w)

CollabRoutes(w) ==
    \/ \E u \in Users : SubmitOperationStart(w, u) \/ UpdatePresenceStart(w, u)
    \/ ReadLamport(w) \/ SubmitOperation(w)
    \/ ReadPresence(w) \/ UpdatePresence(w)

AdminRoutes(w) ==
    \/ \E u \in Users : EraseUserStart(w, u) \/ EraseOrganizationStart(w, u)
    \/ EraseUser(w) \/ EraseOrganization(w)

Next ==
    \E w \in Workers :
        NoteRoutes(w) \/ CollabRoutes(w) \/ AdminRoutes(w) \/ Abort(w)

Spec == Init /\ [][Next]_vars

-----------------------------------------------------------------------------
(* Properties.                                                             *)

Erasures == {"delete", "erase", "eraseOrg"}

\* "Upsert presence" (collab_service.py:73): a user has one presence row, as
\* long as updates of presence do not overlap.  The second row would make
\* every later update of that user fail.
PresenceIsUpserted ==
    "presence" \in regime.alone => \A u \in Users : presence[u] <= 1

\* Nobody outside the tenant keeps a grant, and an erased tenant keeps
\* nothing at all, as long as erasures overlap nothing
\* (compliance_service.py:88, 118).
ErasureIsComplete ==
    Erasures \subseteq regime.alone =>
        /\ \A u \in Users : roles[u] = None => grants[u] = <<>>
        /\ tenant = "erased" =>
               operations = <<>> /\ \A u \in Users : presence[u] = 0

\* Whoever is about to share, edit or delete the note or to appear in it still
\* may, however other grants and edits overlap: only an erasure, a deletion or
\* a second grant takes access away (access_service.py:101), and here none of
\* these overlaps the request.
AccessHeldUntilCommit ==
    (Erasures \subseteq regime.alone /\ regime.once) =>
        \A w \in Workers :
            requests[w].op \in DOMAIN Needed =>
                NoteLevel(requests[w].user) >= Needed[requests[w].op]

SharingIsConsistent ==
    TypeOK /\ PresenceIsUpserted /\ ErasureIsComplete /\ AccessHeldUntilCommit

\* "Uses a Lamport logical clock" (collab_service.py:4): an operation is
\* timestamped after every operation committed when its timestamp was read,
\* however many are in flight.  Only operations that overlap can be equal.
OperationsFollowWhatTheySaw ==
    tenant = "live" =>
        \A j \in DOMAIN operations : \A i \in 1 .. operations[j].seen :
            operations[i].lamport < operations[j].lamport

\* "Effective permission on a note is the maximum of" role, ownership and
\* grants (access_service.py:4): as long as a note is shared once with each
\* user, a grant never lowers what anybody may do with it.
SharingNeverTakesAway ==
    [][ (regime.once /\ grants' # grants /\ tenant' = "live") =>
            \A u \in Users : roles'[u] # None => NoteLevel(u)' >= NoteLevel(u) ]_vars

(* What the documentation says and the code does not keep.                 *)

\* Without that condition: a second grant to a user makes every request of
\* that user for the note fail.
GrantsResolve == \A u \in Users : Resolves(u)

\* "total ordering of operations" (collab_service.py:4).
OperationsAreTotallyOrdered ==
    \A i, j \in DOMAIN operations :
        operations[i].lamport = operations[j].lamport => i = j
=============================================================================
