----------------------------- MODULE OpusAudit ------------------------------
(***************************************************************************)
(* The hash-chained audit log of the Claude_Opus4.8 server:                *)
(* services/audit_service.py over repositories/audit_repo.py, and how the  *)
(* requests that write to it share the database.                           *)
(*                                                                         *)
(* A request under /organizations/{org_id} passes get_tenant_context,      *)
(* whose usage upsert takes SQLite's write lock before the service runs;   *)
(* kind "tenant".  A login and a download by token have no such context:   *)
(* they read the last hash of the chain without the lock and take it when  *)
(* the row is inserted; kind "open".  An open request that happens to have *)
(* flushed another column first (a failed-login counter it resets) holds   *)
(* the lock already.                                                       *)
(***************************************************************************)
EXTENDS Naturals, Sequences

CONSTANTS
    Orgs,       \* tenants, each with its own chain
    Contents,   \* canonical forms of entries (action, actor, resource, ...)
    Writers,    \* requests that can be in flight together
    Kinds,      \* the kinds of request clients issue
    None,       \* no lock holder, no organization
    MaxStamp    \* bound of the model on the number of entries stamped

ASSUME AuditAssumption ==
    /\ Kinds \subseteq {"tenant", "open"}
    /\ None \notin Writers \cup Orgs
    /\ MaxStamp \in Nat

VARIABLES
    log,        \* committed rows of audit_logs
    pending,    \* pending[w]: rows w has inserted and not committed
    request,    \* request[w]: what w is doing and has read
    lock,       \* the holder of the database's write lock
    now         \* the clock that stamps created_at

vars == <<log, pending, request, lock, now>>

\* entry_hash digests prev_hash and the canonical content, so it determines
\* the contents of the whole chain behind it; it is modelled as that sequence.
\* The empty sequence is the NULL prev_hash of a first entry.
Hash == Seq(Contents)

\* kind (ghost): the kind of request that recorded the entry.
Entry == [org : Orgs, stamp : 0 .. MaxStamp, content : Contents,
          prev : Hash, hash : Hash, kind : Kinds]

Request == [kind    : Kinds \cup {None},
            stage   : {"idle", "serving", "read", "stamped"},
            org     : Orgs \cup {None},
            content : Contents \cup {None},
            prev    : Hash,
            stamp   : 0 .. MaxStamp]

Idle == [kind |-> None, stage |-> "idle", org |-> None, content |-> None,
         prev |-> << >>, stamp |-> 0]

TypeOK ==
    /\ log \subseteq Entry
    /\ pending \in [Writers -> SUBSET Entry]
    /\ request \in [Writers -> Request]
    /\ lock \in Writers \cup {None}
    /\ now \in 0 .. MaxStamp

Init ==
    /\ log = {}
    /\ pending = [w \in Writers |-> {}]
    /\ request = [w \in Writers |-> Idle]
    /\ lock = None
    /\ now = 0

-----------------------------------------------------------------------------
(* A definition Bad... is a plausible mistake in the definition after it; no *)
(* specification uses it, it is there to show that a property notices it.  *)

Of(rows, o) == {e \in rows : e.org = o}

\* last_hash: ORDER BY created_at DESC LIMIT 1.
LastHash(rows) ==
    IF rows = {} THEN << >>
    ELSE (CHOOSE e \in rows : \A f \in rows : f.stamp <= e.stamp).hash

\* A transaction sees the committed rows and its own.
BadVisible(w) == log \cup UNION {pending[v] : v \in Writers}
Visible(w) == log \cup pending[w]

\* The row record builds from what it was called with and has read.
NewEntry(q) == [org |-> q.org, stamp |-> q.stamp, content |-> q.content,
                prev |-> q.prev, hash |-> Append(q.prev, q.content), kind |-> q.kind]

\* verify_chain over all_for_org_chrono.
Intact(rows) ==
    \A e \in rows :
        /\ e.prev = LastHash({f \in rows : f.stamp < e.stamp})
        /\ e.hash = Append(e.prev, e.content)

Release(w) == lock' = IF lock = w THEN None ELSE lock

-----------------------------------------------------------------------------
BadBeginTenant(w) ==
    /\ "tenant" \in Kinds
    /\ request[w] = Idle
    /\ request' = [request EXCEPT ![w] =
                    [Idle EXCEPT !.kind = "tenant", !.stage = "serving"]]
    /\ UNCHANGED <<log, pending, lock, now>>

\* get_tenant_context: increment_usage is the request's first write.
BeginTenant(w) ==
    /\ "tenant" \in Kinds
    /\ request[w] = Idle
    /\ lock = None
    /\ lock' = w
    /\ request' = [request EXCEPT ![w] =
                    [Idle EXCEPT !.kind = "tenant", !.stage = "serving"]]
    /\ UNCHANGED <<log, pending, now>>

\* login or download_with_token reach their audit call having only read.
BeginOpen(w) ==
    /\ "open" \in Kinds
    /\ request[w] = Idle
    /\ request' = [request EXCEPT ![w] =
                    [Idle EXCEPT !.kind = "open", !.stage = "serving"]]
    /\ UNCHANGED <<log, pending, lock, now>>

\* A login that resets its failure counter, or rehashes, flushes first.
FlushOpen(w) ==
    /\ request[w].kind = "open"
    /\ request[w].stage = "serving"
    /\ lock = None
    /\ lock' = w
    /\ UNCHANGED <<log, pending, request, now>>

\* record reads the hash to chain to.  An open request records one entry; a
\* tenant request may record several (a proration invoice and the plan change,
\* or one entry per organization of a retention purge).
RecordRead(w, o, c) ==
    /\ request[w].stage = "serving"
    /\ request[w].kind = "open" => pending[w] = {}
    /\ request' = [request EXCEPT ![w] = [@ EXCEPT
                    !.stage = "read", !.org = o, !.content = c,
                    !.prev = LastHash(Of(Visible(w), o))]]
    /\ UNCHANGED <<log, pending, lock, now>>

\* created_at is a Python default: it is evaluated when the INSERT is built,
\* before the database grants the lock.
RecordStamp(w) ==
    /\ request[w].stage = "read"
    /\ now < MaxStamp
    /\ now' = now + 1
    /\ request' = [request EXCEPT ![w] =
                    [@ EXCEPT !.stage = "stamped", !.stamp = now]]
    /\ UNCHANGED <<log, pending, lock>>

RecordInsert(w) ==
    LET q == request[w] IN
    /\ q.stage = "stamped"
    /\ lock \in {None, w}
    /\ lock' = w
    /\ pending' = [pending EXCEPT ![w] = @ \cup {NewEntry(q)}]
    /\ request' = [request EXCEPT ![w].stage = "serving"]
    /\ UNCHANGED <<log, now>>

Commit(w) ==
    /\ request[w].stage = "serving"
    /\ pending[w] # {}
    /\ log' = log \cup pending[w]
    /\ pending' = [pending EXCEPT ![w] = {}]
    /\ request' = [request EXCEPT ![w] = Idle]
    /\ Release(w)
    /\ UNCHANGED now

\* A read-only route, an error, a lock timeout or a crash: nothing is kept.
Rollback(w) ==
    /\ request[w] # Idle
    /\ pending' = [pending EXCEPT ![w] = {}]
    /\ request' = [request EXCEPT ![w] = Idle]
    /\ Release(w)
    /\ UNCHANGED <<log, now>>

Next == \E w \in Writers :
    \/ BeginTenant(w)
    \/ BeginOpen(w)
    \/ FlushOpen(w)
    \/ \E o \in Orgs, c \in Contents : RecordRead(w, o, c)
    \/ RecordStamp(w)
    \/ RecordInsert(w)
    \/ Commit(w)
    \/ Rollback(w)

Spec == Init /\ [][Next]_vars

-----------------------------------------------------------------------------
(* Properties of every mix of requests.                                    *)

\* No entry chains to a hash that was rolled back: what an entry follows is a
\* committed entry of the same organization, or it is a first entry.
NoDanglingPredecessor ==
    \A e \in log : e.prev = << >> \/ \E f \in log : f.org = e.org /\ f.hash = e.prev

-----------------------------------------------------------------------------
(* Properties of the chains that only tenant requests have written to; the *)
(* code's documentation states them without that condition.                *)

TenantOnly(rows, o) == \A e \in Of(rows, o) : e.kind = "tenant"

\* "Tamper-evident": a log nobody tampered with verifies, so a False of
\* verify_chain is evidence.
UntamperedLogVerifies == \A o \in Orgs : Intact(Of(log, o))

\* It is true of every chain that only tenant requests have extended, whatever
\* other requests do to other chains or roll back.
TenantChainVerifies == \A o \in Orgs : TenantOnly(log, o) => Intact(Of(log, o))

\* Every entry, and every chain that can be vouched for.
LogIsSound == TypeOK /\ NoDanglingPredecessor /\ TenantChainVerifies

\* The digest an auditor noted stays a prefix of every later digest: entries
\* are only ever added at the end of the chain.
HeadOnlyExtends ==
    [][\A o \in Orgs :
        LET old == LastHash(Of(log, o))
            new == LastHash(Of(log', o))
        IN  TenantOnly(log', o) =>
                Len(old) <= Len(new) /\ SubSeq(new, 1, Len(old)) = old]_log

=============================================================================
