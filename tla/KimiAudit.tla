----------------------------- MODULE KimiAudit ------------------------------
(***************************************************************************)
(* The audit log of the Kimi3 server: core/compliance.py AuditLog, between *)
(* its asyncio lock and the write lock of the database (SQLite with a      *)
(* rollback journal: a SELECT sees what is committed, the first INSERT,    *)
(* UPDATE or DELETE of a request takes the one write lock and get_db       *)
(* releases it when it commits or rolls back after the handler returned).  *)
(*                                                                         *)
(* A request of kind "write" (registration, login, a note or file created, *)
(* deleted or shared, a key rotation, an erasure) has changed a row before *)
(* it records its event; a data export, kind "export", only reads first.   *)
(***************************************************************************)
EXTENDS Naturals, Sequences

CONSTANTS
    Events,   \* audit payloads; the timestamp makes each one distinct
    Workers,  \* requests that can be in flight together
    Kinds,    \* the kinds of request clients issue
    None      \* no holder of a lock, no event

ASSUME AuditAssumption ==
    /\ Kinds \subseteq {"write", "export"}
    /\ None \notin Events \cup Workers \cup Kinds

VARIABLES
    log,      \* committed rows of audit_events in the order of seq
    request,  \* request[w]: what w is doing and has read
    mutex,    \* holder of AuditLog._lock
    lock      \* holder of the database's write lock

vars == <<log, request, mutex, lock>>

\* _sign digests the payload and prev_hash, so a hash determines the events of
\* the whole chain behind it; it is modelled as that sequence, and the genesis
\* hash as the empty one.
Hash == Seq(Events)

Entry == [event : Events, kind : Kinds, prev : Hash, hash : Hash]

Request == [stage : {"idle", "serving", "written", "chaining", "inserting",
                     "recorded"},
            kind  : Kinds \cup {None},
            event : Events \cup {None},
            prev  : Hash]

Idle == [stage |-> "idle", kind |-> None, event |-> None, prev |-> << >>]

TypeOK ==
    /\ log \in Seq(Entry)
    /\ request \in [Workers -> Request]
    /\ mutex \in Workers \cup {None}
    /\ lock \in Workers \cup {None}

Init ==
    /\ log = << >>
    /\ request = [w \in Workers |-> Idle]
    /\ mutex = None
    /\ lock = None

-----------------------------------------------------------------------------
(* A definition Bad... is a plausible mistake in the definition after it; no *)
(* specification uses it, it is there to show that a property notices it.  *)

\* verify_chain: each row in the order of seq follows the row before it.  (Its
\* second check, that the signature matches the row, holds of untouched rows.)
Intact(rows) ==
    \A i \in DOMAIN rows :
        rows[i].prev = IF i = 1 THEN << >> ELSE rows[i - 1].hash

\* _last_hash: ORDER BY seq DESC LIMIT 1.
LastHash(rows) == IF rows = << >> THEN << >> ELSE rows[Len(rows)].hash

\* The row record inserts.
NewEntry(q) == [event |-> q.event, kind |-> q.kind, prev |-> q.prev,
                hash |-> Append(q.prev, q.event)]

\* What a request sees that has inserted no event yet: the committed rows.
BadVisible ==
    LET open == {v \in Workers : request[v].stage = "recorded"} IN
    IF open = {} THEN log ELSE Append(log, NewEntry(request[CHOOSE v \in open : TRUE]))
Visible == log

Fresh(e) == /\ \A v \in Workers : request[v].event # e
            /\ \A i \in DOMAIN log : log[i].event # e

Released(held, w) == IF held = w THEN None ELSE held

Advance(w, stage) == request' = [request EXCEPT ![w].stage = stage]

-----------------------------------------------------------------------------
Begin(w, kind, e) ==
    /\ request[w] = Idle
    /\ Fresh(e)
    /\ request' = [request EXCEPT ![w] =
                    [Idle EXCEPT !.stage = "serving", !.kind = kind, !.event = e]]
    /\ UNCHANGED <<log, mutex, lock>>

\* The handler's own change is flushed before it records the event.
Write(w) ==
    /\ request[w].stage = "serving" /\ request[w].kind = "write"
    /\ lock = None
    /\ lock' = w
    /\ Advance(w, "written")
    /\ UNCHANGED <<log, mutex>>

\* async with cls._get_lock().
Acquire(w) ==
    /\ request[w].stage = IF request[w].kind = "write" THEN "written" ELSE "serving"
    /\ mutex = None
    /\ mutex' = w
    /\ Advance(w, "chaining")
    /\ UNCHANGED <<log, lock>>

ReadHead(w) ==
    /\ request[w].stage = "chaining"
    /\ request' = [request EXCEPT ![w] =
                    [@ EXCEPT !.stage = "inserting", !.prev = LastHash(Visible)]]
    /\ UNCHANGED <<log, mutex, lock>>

\* flush, then the end of the async with block: the row is inserted but not
\* committed when the asyncio lock is released.
Insert(w) ==
    /\ request[w].stage = "inserting"
    /\ lock \in {None, w}
    /\ lock' = w
    /\ mutex' = None
    /\ Advance(w, "recorded")
    /\ UNCHANGED log

\* get_db commits after the handler has returned.
Commit(w) ==
    /\ request[w].stage = "recorded"
    /\ log' = Append(log, NewEntry(request[w]))
    /\ request' = [request EXCEPT ![w] = Idle]
    /\ lock' = None
    /\ UNCHANGED mutex

Fail(w) ==
    /\ request' = [request EXCEPT ![w] = Idle]
    /\ mutex' = Released(mutex, w)
    /\ lock' = Released(lock, w)
    /\ UNCHANGED log

\* The handler raises, the client goes away or the process restarts.
Abort(w) == request[w] # Idle /\ Fail(w)

\* SQLite gives up on a write lock after its busy timeout.
BadTimeout(w) == FALSE /\ Fail(w)
Timeout(w) ==
    /\ \/ request[w].stage = "inserting"
       \/ request[w].stage = "serving" /\ request[w].kind = "write"
    /\ Fail(w)

Next == \E w \in Workers :
    \/ \E kind \in Kinds, e \in Events : Begin(w, kind, e)
    \/ Write(w)
    \/ Acquire(w)
    \/ ReadHead(w)
    \/ Insert(w)
    \/ Commit(w)
    \/ Abort(w)
    \/ Timeout(w)

Spec == Init /\ [][Next]_vars

\* The event loop runs what can run, waiters of an asyncio.Lock are served in
\* the order they came, and a busy timeout expires.
Fairness == \A w \in Workers :
    /\ WF_vars(Write(w))
    /\ SF_vars(Acquire(w))
    /\ WF_vars(ReadHead(w))
    /\ WF_vars(Insert(w))
    /\ WF_vars(Commit(w))
    /\ WF_vars(Timeout(w))

FairSpec == Spec /\ Fairness

-----------------------------------------------------------------------------
\* "Concurrent requests cannot fork the chain": verify_chain accepts a log that
\* nobody has touched.  The next two properties say how far that is true.
UntamperedLogVerifies == Intact(log)

\* Where the chain forks all the same, the branch is an export's: of two rows
\* that follow the same row, the later one was recorded by a data export.  A log
\* of writes alone is linear.
OnlyExportsFork ==
    \A i, j \in DOMAIN log :
        i < j /\ log[i].prev = log[j].prev => log[j].kind = "export"

\* No row follows a hash that was rolled back: its predecessor is the genesis
\* or a row committed before it.
NoDanglingPredecessor ==
    \A i \in DOMAIN log :
        log[i].prev = << >> \/ \E j \in 1 .. i - 1 : log[j].hash = log[i].prev

LogIsSound == TypeOK /\ OnlyExportsFork /\ NoDanglingPredecessor

\* A request that holds the asyncio lock and waits for the database, and one
\* that holds the database and waits for the asyncio lock, do not wait for
\* ever: every request ends.
RequestsEnd == \A w \in Workers :
    request[w].stage # "idle" ~> request[w].stage = "idle"

=============================================================================
