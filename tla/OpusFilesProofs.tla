--------------------------- MODULE OpusFilesProofs ---------------------------
(***************************************************************************)
(* Theorems of OpusFiles, for every set of files, users, tenants and       *)
(* requests, every quota and window, and every bound of the model.         *)
(***************************************************************************)
EXTENDS OpusFiles, FiniteSetTheorems, SequenceTheorems, WellFoundedInduction, TLAPS

-----------------------------------------------------------------------------
(* The inductive invariant.                                                *)

Alone == "eraseUser" \in regime.alone

\* Request q is going to delete the row of f.
Takes(q, f) ==
    \/ q.op = "eraseUser" /\ q.user = OwnerOf[f]
    \/ q.op \in {"eraseUser", "eraseOrg"} /\ f \in q.rows

LiveInv(f) ==
    rows[f].status = "live" =>
        f \in blobs \cup lost \/ \E w \in Workers : Takes(requests[w], f)

ByteInv(f) ==
    Alone /\ f \in blobs =>
        \/ Stored(f) \/ f \in stray
        \/ \E w \in Workers : requests[w].op = "upload" /\ requests[w].file = f

\* A tenant's plan has room for one more file.
Room(o) == Cardinality(LiveIn(o)) + 1 <= Quota[plan[o]]

\* f is past the window of its tenant's plan.
Past(f) == plan[TenantOf(f)] # None => rows[f].age >= Window[plan[TenantOf(f)]]

\* What request q of worker w does at each stage.
Stages(w, q) ==
    /\ q.op = None => q.keys = {} /\ q.rows = {} /\ q.orgs = {}
    /\ q.stage \in {"entered", "locked"} => q.op = None
    /\ q.stage \in {"locked", "written"} => lock = w
    /\ q.stage \in {"idle", "entered", "resolved", "read", "unlinked"} => lock # w
    /\ q.stage \in {"resolved", "read"} => q.op = "download"
    /\ q.stage = "unlinking" => q.op \in {"purge", "eraseOrg", "eraseUser"}
    /\ q.stage = "unlinked" => q.op = "eraseUser" /\ q.keys = {}
    /\ q.stage = "written" => q.keys = {} /\ q.op # None
    /\ lock # w => q.rows = {}
    /\ q.op \in {"purge", "eraseOrg"} => lock = w
    /\ q.op \in {"upload", "delete", "download"} =>
          q.keys = {} /\ q.rows = {} /\ q.orgs = {}
    /\ q.op \in {"upload", "delete"} => q.stage = "written" /\ q.file \in Files

\* What it knows of the rows it adds or removes.
Knows(w, q) ==
    /\ q.op = "upload" => /\ q.user \in Users /\ OwnerOf[q.file] = q.user
                          /\ rows[q.file].status = "unused" /\ q.file \in blobs
                          /\ Room(OrgOf[q.user])
    /\ \A f \in q.keys : /\ rows[f].status # "unused"
                         /\ f \in q.rows \/ (q.op = "eraseUser" /\ q.user = OwnerOf[f])
    /\ q.op = "purge" => /\ q.orgs = {}
                         /\ \A f \in q.rows : rows[f].status = "deleted" /\ Past(f)
    /\ q.op = "eraseOrg" => \A f \in q.rows : TenantOf(f) \in q.orgs
    /\ q.op = "eraseUser" =>
          /\ q.user \in Users
          /\ lock = w => RowsOf(q.user) \subseteq q.rows
          /\ \A f \in q.rows : OwnerOf[f] = q.user \/ TenantOf(f) \in q.orgs

\* Blobs of the rows it removes are those it has still to unlink.
Unlinks(q) ==
    Alone =>
        /\ q.rows \cap blobs \subseteq q.keys
        /\ q.op = "eraseUser" => RowsOf(q.user) \cap blobs \subseteq q.keys

Carries(w, q) == Stages(w, q) /\ Knows(w, q) /\ Unlinks(q)

AloneIsAlone ==
    \A w \in Workers : Alone /\ requests[w].op = "eraseUser" =>
        \A v \in Workers \ {w} : requests[v] = Idle

IInv ==
    /\ TypeOK /\ AloneIsAlone
    /\ \A f \in Files : LiveInv(f) /\ ByteInv(f)
    /\ \A o \in Orgs : IsFiniteSet(LiveIn(o))
    /\ \A w \in Workers : Carries(w, requests[w])
-----------------------------------------------------------------------------
(* Requests and the frame of a step.                                       *)

LEMMA IdleFacts ==
    /\ Idle \in Request /\ Idle.op = None /\ Idle.stage = "idle" /\ None \notin Ops
    /\ Idle.keys = {} /\ Idle.rows = {} /\ Idle.orgs = {}
    /\ \A w \in Workers : w # None
<1>1. None \notin Ops /\ \A w \in Workers : w # None
  BY FilesAssumption
<1> QED
  BY <1>1 DEF Idle, Request, Ops

LEMMA RequestFacts ==
    ASSUME IInv, NEW w \in Workers
    PROVE  /\ requests \in [Workers -> Request] /\ requests[w] \in Request
           /\ Carries(w, requests[w])
<1>1. requests \in [Workers -> Request] /\ Carries(w, requests[w])
  BY DEF IInv, TypeOK
<1> QED
  BY <1>1

Turns(w, q) == requests' = [requests EXCEPT ![w] = q]

LEMMA TurnFacts ==
    ASSUME IInv, NEW w \in Workers, NEW q \in Request, Turns(w, q)
    PROVE  /\ requests' \in [Workers -> Request] /\ requests'[w] = q
           /\ \A v \in Workers \ {w} : requests'[v] = requests[v]
  BY RequestFacts DEF Turns

\* What a step of w leaves to the others.
Undisturbed(w) ==
    /\ \A v \in Workers \ {w} : lock' = v <=> lock = v
    /\ (rows' = rows /\ plan' = plan) \/ lock = w
    /\ \A f \in Files : rows[f].status # "unused" => rows'[f].status # "unused"
    /\ \A f \in blobs : f \notin blobs' => rows[f].status # "unused"
    /\ blobs' \subseteq blobs \/ lock = w
    /\ requests[w] # Idle \/ (rows' = rows /\ blobs' = blobs)

LEMMA CarryOthers ==
    ASSUME IInv, NEW w \in Workers, Undisturbed(w), regime' = regime,
           NEW v \in Workers \ {w}, requests'[v] = requests[v]
    PROVE  Carries(v, requests[v])'
<1>1. PICK q \in Request : q = requests[v] /\ Carries(v, q)
  BY RequestFacts
<1>2. (lock' = v <=> lock = v) /\ (lock = v => rows' = rows /\ plan' = plan)
  BY DEF Undisturbed
<1>3. Stages(v, q)'
  BY <1>1, <1>2 DEF Carries, Stages
<1>4. Knows(v, q)'
  <2>1. CASE lock = v
    <3>1. rows' = rows /\ plan' = plan /\ lock' = v
      BY <1>2, <2>1
    <3>2. q.op = "upload" => q.file \in blobs'
      BY <1>1, <3>1 DEF Carries, Knows, Undisturbed
    <3> QED
      BY <1>1, <2>1, <3>1, <3>2
      DEF Carries, Knows, Room, LiveIn, Past, RowsOf, Stored, TenantOf
  <2>2. CASE lock # v
    <3>1. q.rows = {} /\ q.op \notin {"upload", "purge", "eraseOrg"} /\ lock' # v
      BY <1>1, <1>2, <2>2 DEF Carries, Stages
    <3>2. \A f \in q.keys : rows'[f].status # "unused"
      BY <1>1 DEF Carries, Knows, Undisturbed, Request
    <3> QED
      BY <1>1, <3>1, <3>2 DEF Carries, Knows
  <2> QED
    BY <2>1, <2>2
<1>5. Unlinks(q)'
  <2> SUFFICES ASSUME Alone
               PROVE  /\ q.rows \cap blobs' \subseteq q.keys
                      /\ q.op = "eraseUser" => RowsOf(q.user)' \cap blobs' \subseteq q.keys
    BY DEF Unlinks, Alone
  <2>1. q.rows \cap blobs' \subseteq q.keys
    <3>1. CASE blobs' \subseteq blobs
      BY <1>1, <3>1 DEF Carries, Unlinks
    <3>2. CASE lock = w
      BY <1>1, <3>2 DEF Carries, Stages
    <3> QED
      BY <3>1, <3>2 DEF Undisturbed
  <2>2. q.op = "eraseUser" => RowsOf(q.user)' \cap blobs' \subseteq q.keys
    <3> SUFFICES ASSUME q.op = "eraseUser"
                 PROVE  RowsOf(q.user)' \cap blobs' \subseteq q.keys
      OBVIOUS
    <3>1. requests[w] = Idle
      BY <1>1 DEF IInv, AloneIsAlone
    <3>2. rows' = rows /\ blobs' = blobs
      BY <3>1 DEF Undisturbed
    <3> QED
      BY <1>1, <3>2 DEF Carries, Unlinks, RowsOf, Stored
  <2> QED
    BY <2>1, <2>2
<1>6. Carries(v, q)'
  BY <1>3, <1>4, <1>5 DEF Carries
<1> QED
  BY <1>1, <1>6 DEF Carries, Stages, Knows, Unlinks

\* A step of one request.
LEMMA WorkerStep ==
    ASSUME IInv, NEW w \in Workers, NEW q \in Request, Turns(w, q), regime' = regime,
           TypeOK', Undisturbed(w), Carries(w, q)',
           requests[w] = Idle => MayBegin,
           q.op = "eraseUser" /\ Alone => requests[w].op = "eraseUser" \/ AllIdle,
           \A f \in Files : LiveInv(f)' /\ ByteInv(f)',
           \A o \in Orgs : IsFiniteSet(LiveIn(o))'
    PROVE  IInv'
<1>1. AloneIsAlone'
  <2> SUFFICES ASSUME NEW x \in Workers, Alone, requests'[x].op = "eraseUser",
                      NEW v \in Workers \ {x}
               PROVE  requests'[v] = Idle
    BY DEF AloneIsAlone, Alone
  <2>1. CASE x = w
    BY <2>1, TurnFacts DEF IInv, AloneIsAlone, AllIdle
  <2>2. CASE x # w
    <3>1. requests[x].op = "eraseUser"
      BY <2>2, TurnFacts
    <3>2. requests[w] = Idle
      BY <2>2, <3>1 DEF IInv, AloneIsAlone
    <3> QED
      BY <3>1, <3>2 DEF MayBegin, Alone
  <2> QED
    BY <2>1, <2>2
<1>2. \A v \in Workers : Carries(v, requests[v])'
  <2>1. \A v \in Workers \ {w} : Carries(v, requests[v])'
    BY TurnFacts, CarryOthers
  <2>2. Carries(w, requests[w])'
    BY TurnFacts DEF Carries, Stages, Knows, Unlinks
  <2> QED
    BY <2>1, <2>2
<1> QED
  BY <1>1, <1>2 DEF IInv

\* A step that touches neither rows, nor blobs, nor plans.
LEMMA QuietStep ==
    ASSUME IInv, NEW w \in Workers, NEW q \in Request, Turns(w, q),
           UNCHANGED <<rows, blobs, plan, regime>>, TypeOK', Carries(w, q)',
           \A v \in Workers \ {w} : lock' = v <=> lock = v,
           requests[w] = Idle => MayBegin,
           q.op = "eraseUser" /\ Alone => requests[w].op = "eraseUser" \/ AllIdle,
           lost \subseteq lost', stray \subseteq stray',
           \A f \in Files : Takes(requests[w], f) =>
               Takes(q, f) \/ (rows[f].status = "live" => f \in blobs \cup lost'),
           requests[w].op = "upload" =>
               \/ q.op = "upload" /\ q.file = requests[w].file
               \/ requests[w].file \in stray'
    PROVE  IInv'
<1>1. Undisturbed(w)
  BY DEF Undisturbed
<1>2. ASSUME NEW f \in Files PROVE LiveInv(f)'
  <2> SUFFICES ASSUME rows[f].status = "live", f \notin blobs \cup lost'
               PROVE  \E v \in Workers : Takes(requests'[v], f)
    BY DEF LiveInv, Takes
  <2>1. PICK v \in Workers : Takes(requests[v], f)
    BY DEF IInv, LiveInv
  <2>2. CASE v = w
    BY <2>1, <2>2, TurnFacts
  <2>3. CASE v # w
    BY <2>1, <2>3, TurnFacts
  <2> QED
    BY <2>2, <2>3
<1>3. ASSUME NEW f \in Files PROVE ByteInv(f)'
  <2> SUFFICES ASSUME Alone, f \in blobs, ~Stored(f), f \notin stray'
               PROVE  \E v \in Workers : requests'[v].op = "upload" /\ requests'[v].file = f
    BY DEF ByteInv, Stored, Alone
  <2>1. PICK v \in Workers : requests[v].op = "upload" /\ requests[v].file = f
    BY DEF IInv, ByteInv
  <2>2. CASE v = w
    BY <2>1, <2>2, TurnFacts
  <2>3. CASE v # w
    BY <2>1, <2>3, TurnFacts
  <2> QED
    BY <2>2, <2>3
<1>4. \A o \in Orgs : IsFiniteSet(LiveIn(o))'
  BY DEF IInv, LiveIn
<1> QED
  BY <1>1, <1>2, <1>3, <1>4, WorkerStep

-----------------------------------------------------------------------------
(* Steps that leave rows, blobs and plans alone.                           *)

LEMMA EnterStep == ASSUME IInv, NEW w \in Workers, Enter(w) PROVE IInv'
<1>1. PICK u \in members : requests' = [requests EXCEPT ![w] =
          [Idle EXCEPT !.stage = "entered", !.user = u, !.role = RoleOf[u]]]
  BY DEF Enter
<1> DEFINE s == [Idle EXCEPT !.stage = "entered", !.user = u, !.role = RoleOf[u]]
<1>2. /\ requests[w] = Idle /\ MayBegin /\ Turns(w, s)
      /\ UNCHANGED <<rows, blobs, users, members, plan, tokens, lock, faults, stray,
                     lost, regime>>
  BY <1>1 DEF Enter, Turns
<1>3. u \in Users /\ RoleOf[u] \in Roles
  BY FilesAssumption DEF IInv, TypeOK
<1>4. /\ s \in Request /\ s.op = None /\ s.stage = "entered"
      /\ s.keys = {} /\ s.rows = {} /\ s.orgs = {}
  BY <1>3, IdleFacts DEF Idle, Request
<1> HIDE DEF s
<1>5. PICK q \in Request : q = s
  BY <1>4
<1>6. lock # w
  BY <1>2, RequestFacts, IdleFacts DEF Carries, Stages
<1>7. Carries(w, q)'
  BY <1>2, <1>4, <1>5, <1>6, IdleFacts DEF Carries, Stages, Knows, Unlinks, Ops
<1>8. TypeOK'
  BY <1>2, <1>4, TurnFacts DEF IInv, TypeOK
<1>9. requests[w].op = None /\ q.op = None
  BY <1>2, <1>4, <1>5, IdleFacts
<1> QED
  BY <1>2, <1>5, <1>7, <1>8, <1>9, IdleFacts, QuietStep DEF Takes, Ops

LEMMA MeterStep == ASSUME IInv, NEW w \in Workers, Meter(w) PROVE IInv'
<1>1. PICK p \in Request : p = requests[w] /\ Carries(w, p)
  BY RequestFacts
<1> DEFINE s == [p EXCEPT !.stage = "locked"]
<1>2. /\ p.stage = "entered" /\ lock = None /\ lock' = w /\ Turns(w, s)
      /\ UNCHANGED <<rows, blobs, users, members, plan, tokens, faults, stray, lost, regime>>
  BY <1>1 DEF Meter, LockIsFree, Turns
<1>3. p.op = None /\ p.keys = {} /\ p.rows = {} /\ p.orgs = {}
  BY <1>1, <1>2 DEF Carries, Stages
<1>4. /\ s \in Request /\ s.op = None /\ s.stage = "locked"
      /\ s.keys = {} /\ s.rows = {} /\ s.orgs = {}
  BY <1>3 DEF Request
<1> HIDE DEF s
<1>5. PICK q \in Request : q = s
  BY <1>4
<1>6. Carries(w, q)'
  BY <1>2, <1>4, <1>5, IdleFacts DEF Carries, Stages, Knows, Unlinks, Ops
<1>7. TypeOK'
  BY <1>2, <1>4, TurnFacts DEF IInv, TypeOK
<1>8. requests[w] # Idle /\ requests[w].op = None /\ q.op = None
  BY <1>1, <1>2, <1>3, <1>4, <1>5, IdleFacts
<1>9. \A v \in Workers \ {w} : lock' = v <=> lock = v
  BY <1>2, IdleFacts
<1> QED
  BY <1>2, <1>5, <1>6, <1>7, <1>8, <1>9, IdleFacts, QuietStep DEF Takes, Ops

\* A request that ends without a commit, having done nothing that shows.
LEMMA EndStep ==
    ASSUME IInv, NEW w \in Workers, requests[w] # Idle, Turns(w, Idle), lock' = Released(w),
           UNCHANGED <<rows, blobs, plan, regime>>, TypeOK',
           lost \subseteq lost', stray \subseteq stray',
           \A f \in Files : Takes(requests[w], f) =>
               (rows[f].status = "live" => f \in blobs \cup lost'),
           requests[w].op = "upload" => requests[w].file \in stray'
    PROVE  IInv'
<1>1. lock' # w /\ \A v \in Workers \ {w} : lock' = v <=> lock = v
  BY IdleFacts DEF Released
<1>2. Carries(w, Idle)'
  BY <1>1, IdleFacts DEF Carries, Stages, Knows, Unlinks, Ops
<1> QED
  BY <1>1, <1>2, IdleFacts, QuietStep DEF Ops

LEMMA RefuseStep == ASSUME IInv, NEW w \in Workers, Refuse(w) PROVE IInv'
<1>1. /\ requests[w].stage \in {"entered", "locked"} /\ lock' = Released(w) /\ Turns(w, Idle)
      /\ UNCHANGED <<rows, blobs, users, members, plan, tokens, faults, stray, lost, regime>>
  BY DEF Refuse, Turns
<1>2. requests[w].op = None
  BY <1>1, RequestFacts DEF Carries, Stages
<1>3. TypeOK'
  BY <1>1, TurnFacts, IdleFacts DEF IInv, TypeOK, Released
<1>4. requests[w] # Idle
  BY <1>1, IdleFacts
<1> QED
  BY <1>1, <1>2, <1>3, <1>4, IdleFacts, EndStep DEF Takes, Ops

LEMMA AbortStep == ASSUME IInv, NEW w \in Workers, Abort(w) PROVE IInv'
<1>1. /\ requests[w] # Idle /\ faults < MaxFaults /\ faults' = faults + 1
      /\ stray' = IF requests[w].op = "upload" THEN stray \cup {requests[w].file} ELSE stray
      /\ lost' = lost \cup {f \in Files : rows[f].status = "live" /\ f \notin blobs}
      /\ lock' = Released(w) /\ Turns(w, Idle)
      /\ UNCHANGED <<rows, blobs, users, members, plan, tokens, regime>>
  BY DEF Abort, Turns
<1>2. requests[w].op = "upload" => requests[w].file \in Files
  BY RequestFacts DEF Carries, Stages
<1>3. TypeOK'
  <2>1. faults' \in 0 .. MaxFaults
    BY <1>1, FilesAssumption DEF IInv, TypeOK
  <2>2. lost' \subseteq Files /\ stray' \subseteq Files
    BY <1>1, <1>2 DEF IInv, TypeOK
  <2> QED
    BY <1>1, <2>1, <2>2, TurnFacts, IdleFacts DEF IInv, TypeOK, Released
<1>4. \A f \in Files : rows[f].status = "live" => f \in blobs \cup lost'
  BY <1>1
<1> QED
  BY <1>1, <1>3, <1>4, EndStep

LEMMA IssueTokenStep == ASSUME IInv, NEW w \in Workers, IssueToken(w) PROVE IInv'
<1>1. /\ requests[w].stage = "locked" /\ requests[w].user \in members
      /\ \E f \in LiveIn(OrgOf[requests[w].user]) :
            tokens' = tokens \cup {[file |-> f, user |-> requests[w].user]}
      /\ lock' = Released(w) /\ Turns(w, Idle)
      /\ UNCHANGED <<rows, blobs, users, members, plan, faults, stray, lost, regime>>
  BY DEF IssueToken, Locked, Turns
<1>2. requests[w].op = None
  BY <1>1, RequestFacts DEF Carries, Stages
<1>3. TypeOK'
  <2>1. tokens' \subseteq Token
    BY <1>1 DEF IInv, TypeOK, Token, LiveIn
  <2> QED
    BY <1>1, <2>1, TurnFacts, IdleFacts DEF IInv, TypeOK, Released
<1>4. requests[w] # Idle
  BY <1>1, IdleFacts
<1> QED
  BY <1>1, <1>2, <1>3, <1>4, IdleFacts, EndStep DEF Takes, Ops

LEMMA DeleteFileStep == ASSUME IInv, NEW w \in Workers, DeleteFile(w) PROVE IInv'
<1>1. PICK p \in Request : p = requests[w] /\ Carries(w, p)
  BY RequestFacts
<1>2. PICK f \in Files : requests' = [requests EXCEPT ![w].op = "delete", ![w].file = f,
                                                      ![w].stage = "written"]
  BY DEF DeleteFile, LiveIn
<1> DEFINE s == [p EXCEPT !.op = "delete", !.file = f, !.stage = "written"]
<1>3. /\ p.stage = "locked" /\ Turns(w, s)
      /\ UNCHANGED <<rows, blobs, users, members, plan, tokens, lock, faults, stray,
                     lost, regime>>
  BY <1>1, <1>2 DEF DeleteFile, Locked, Turns
<1>4. lock = w /\ p.op = None /\ p.keys = {} /\ p.rows = {} /\ p.orgs = {}
  BY <1>1, <1>3 DEF Carries, Stages
<1>5. /\ s \in Request /\ s.op = "delete" /\ s.stage = "written" /\ s.file = f
      /\ s.keys = {} /\ s.rows = {} /\ s.orgs = {}
  BY <1>4 DEF Request, Ops
<1> HIDE DEF s
<1>6. PICK q \in Request : q = s
  BY <1>5
<1>7. Carries(w, q)'
  BY <1>3, <1>4, <1>5, <1>6, IdleFacts DEF Carries, Stages, Knows, Unlinks, Ops
<1>8. TypeOK'
  BY <1>3, <1>5, TurnFacts DEF IInv, TypeOK
<1>9. requests[w] # Idle /\ requests[w].op = None /\ q.op = "delete"
  BY <1>1, <1>3, <1>4, <1>5, <1>6, IdleFacts
<1> QED
  BY <1>3, <1>6, <1>7, <1>8, <1>9, IdleFacts, QuietStep DEF Takes, Ops

LEMMA ResolveStep == ASSUME IInv, NEW w \in Workers, Resolve(w) PROVE IInv'
<1>1. PICK t \in tokens : requests' = [requests EXCEPT ![w] =
          [Idle EXCEPT !.op = "download", !.stage = "resolved", !.user = t.user,
                       !.file = t.file]]
  BY DEF Resolve
<1> DEFINE s == [Idle EXCEPT !.op = "download", !.stage = "resolved", !.user = t.user,
                             !.file = t.file]
<1>2. /\ requests[w] = Idle /\ MayBegin /\ Turns(w, s)
      /\ UNCHANGED <<rows, blobs, users, members, plan, tokens, lock, faults, stray,
                     lost, regime>>
  BY <1>1 DEF Resolve, Turns
<1>3. t.user \in Users /\ t.file \in Files
  BY DEF IInv, TypeOK, Token
<1>4. /\ s \in Request /\ s.op = "download" /\ s.stage = "resolved"
      /\ s.keys = {} /\ s.rows = {} /\ s.orgs = {}
  BY <1>3, IdleFacts DEF Idle, Request, Ops
<1> HIDE DEF s
<1>5. PICK q \in Request : q = s
  BY <1>4
<1>6. lock # w
  BY <1>2, RequestFacts, IdleFacts DEF Carries, Stages
<1>7. Carries(w, q)'
  BY <1>2, <1>4, <1>5, <1>6, IdleFacts DEF Carries, Stages, Knows, Unlinks, Ops
<1>8. TypeOK'
  BY <1>2, <1>4, TurnFacts DEF IInv, TypeOK
<1>9. requests[w].op = None /\ q.op = "download"
  BY <1>2, <1>4, <1>5, IdleFacts
<1> QED
  BY <1>2, <1>5, <1>7, <1>8, <1>9, IdleFacts, QuietStep DEF Takes, Ops

LEMMA ReadBlobStep == ASSUME IInv, NEW w \in Workers, ReadBlob(w) PROVE IInv'
<1>1. PICK p \in Request : p = requests[w] /\ Carries(w, p)
  BY RequestFacts
<1> DEFINE r == [p EXCEPT !.stage = "read"]
           s == IF p.file \in blobs THEN r ELSE Idle
<1>2. /\ p.stage = "resolved" /\ Turns(w, s)
      /\ UNCHANGED <<rows, blobs, users, members, plan, tokens, lock, faults, stray,
                     lost, regime>>
  BY <1>1 DEF ReadBlob, Turns
<1>3. /\ lock # w /\ p.op = "download" /\ p.keys = {} /\ p.rows = {} /\ p.orgs = {}
  BY <1>1, <1>2 DEF Carries, Stages
<1>4. /\ r \in Request /\ r.op = "download" /\ r.stage = "read"
      /\ r.keys = {} /\ r.rows = {} /\ r.orgs = {}
  BY <1>3 DEF Request
<1> HIDE DEF r
<1>5. /\ s \in Request /\ s.op \in {"download", None} /\ s.stage \in {"read", "idle"}
      /\ s.keys = {} /\ s.rows = {} /\ s.orgs = {}
      /\ s.stage = "read" => s.op = "download"
  BY <1>4, IdleFacts
<1> HIDE DEF s
<1>6. PICK q \in Request : q = s
  BY <1>5
<1>7. Carries(w, q)'
  BY <1>2, <1>3, <1>5, <1>6, IdleFacts DEF Carries, Stages, Knows, Unlinks, Ops
<1>8. TypeOK'
  BY <1>2, <1>5, TurnFacts DEF IInv, TypeOK
<1>9. requests[w] # Idle /\ requests[w].op = "download" /\ q.op \in {"download", None}
  BY <1>1, <1>2, <1>3, <1>5, <1>6, IdleFacts
<1> QED
  BY <1>2, <1>6, <1>7, <1>8, <1>9, IdleFacts, QuietStep DEF Takes, Ops

LEMMA RecordDownloadStep == ASSUME IInv, NEW w \in Workers, RecordDownload(w) PROVE IInv'
<1>1. PICK p \in Request : p = requests[w] /\ Carries(w, p)
  BY RequestFacts
<1> DEFINE s == [p EXCEPT !.stage = "written"]
<1>2. /\ p.stage = "read" /\ lock = None /\ lock' = w /\ Turns(w, s)
      /\ UNCHANGED <<rows, blobs, users, members, plan, tokens, faults, stray, lost, regime>>
  BY <1>1 DEF RecordDownload, LockIsFree, Turns
<1>3. p.op = "download" /\ p.keys = {} /\ p.rows = {} /\ p.orgs = {}
  BY <1>1, <1>2 DEF Carries, Stages
<1>4. /\ s \in Request /\ s.op = "download" /\ s.stage = "written"
      /\ s.keys = {} /\ s.rows = {} /\ s.orgs = {}
  BY <1>3 DEF Request
<1> HIDE DEF s
<1>5. PICK q \in Request : q = s
  BY <1>4
<1>6. Carries(w, q)'
  BY <1>2, <1>4, <1>5, IdleFacts DEF Carries, Stages, Knows, Unlinks, Ops
<1>7. TypeOK'
  BY <1>2, <1>4, TurnFacts DEF IInv, TypeOK
<1>8. requests[w] # Idle /\ requests[w].op = "download" /\ q.op = "download"
  BY <1>1, <1>2, <1>3, <1>4, <1>5, IdleFacts
<1>9. \A v \in Workers \ {w} : lock' = v <=> lock = v
  BY <1>2, IdleFacts
<1> QED
  BY <1>2, <1>5, <1>6, <1>7, <1>8, <1>9, IdleFacts, QuietStep DEF Takes, Ops

LEMMA PurgeExpiredStep == ASSUME IInv, NEW w \in Workers, PurgeExpired(w) PROVE IInv'
<1>1. PICK p \in Request : p = requests[w] /\ Carries(w, p)
  BY RequestFacts
<1>2. PICK X \in SUBSET Files : X = Expired
  BY DEF Expired
<1> DEFINE s == [p EXCEPT !.op = "purge", !.stage = "unlinking", !.keys = X, !.rows = X]
<1>3. /\ p.stage = "locked" /\ Turns(w, s)
      /\ UNCHANGED <<rows, blobs, users, members, plan, tokens, lock, faults, stray,
                     lost, regime>>
  BY <1>1, <1>2 DEF PurgeExpired, Turns
<1>4. lock = w /\ p.op = None /\ p.keys = {} /\ p.rows = {} /\ p.orgs = {}
  BY <1>1, <1>3 DEF Carries, Stages
<1>5. /\ s \in Request /\ s.op = "purge" /\ s.stage = "unlinking"
      /\ s.keys = X /\ s.rows = X /\ s.orgs = {}
  BY <1>4 DEF Request, Ops
<1> HIDE DEF s
<1>6. PICK q \in Request : q = s
  BY <1>5
<1>7. \A f \in X : rows[f].status = "deleted" /\ Past(f)
  BY <1>2 DEF Expired, Past
<1>8. Carries(w, q)'
  <2>1. Stages(w, q)'
    BY <1>3, <1>4, <1>5, <1>6, IdleFacts DEF Stages, Ops
  <2>2. Knows(w, q)'
    BY <1>3, <1>5, <1>6, <1>7 DEF Knows, Past, TenantOf
  <2>3. Unlinks(q)'
    BY <1>5, <1>6 DEF Unlinks
  <2> QED
    BY <2>1, <2>2, <2>3 DEF Carries
<1>9. TypeOK'
  BY <1>3, <1>5, TurnFacts DEF IInv, TypeOK
<1>10. requests[w] # Idle /\ requests[w].op = None /\ q.op = "purge"
  BY <1>1, <1>3, <1>4, <1>5, <1>6, IdleFacts
<1> QED
  BY <1>3, <1>6, <1>8, <1>9, <1>10, IdleFacts, QuietStep DEF Takes, Ops

LEMMA EraseOrganizationStep ==
    ASSUME IInv, NEW w \in Workers, EraseOrganization(w) PROVE IInv'
<1>1. PICK p \in Request : p = requests[w] /\ Carries(w, p)
  BY RequestFacts
<1>2. p.stage = "locked" /\ p.user \in members
  BY <1>1 DEF EraseOrganization, Locked
<1>3. PICK o \in Orgs : o = OrgOf[p.user]
  BY <1>2, FilesAssumption DEF IInv, TypeOK
<1>4. PICK X \in SUBSET Files : X = KeysIn(o)
  BY DEF KeysIn
<1> DEFINE s == [p EXCEPT !.op = "eraseOrg", !.stage = "unlinking", !.orgs = {o},
                          !.keys = X, !.rows = X]
<1>5. /\ Turns(w, s)
      /\ UNCHANGED <<rows, blobs, users, members, plan, tokens, lock, faults, stray,
                     lost, regime>>
  BY <1>1, <1>3, <1>4 DEF EraseOrganization, Turns
<1>6. lock = w /\ p.op = None /\ p.keys = {} /\ p.rows = {} /\ p.orgs = {}
  BY <1>1, <1>2 DEF Carries, Stages
<1>7. /\ s \in Request /\ s.op = "eraseOrg" /\ s.stage = "unlinking"
      /\ s.keys = X /\ s.rows = X /\ s.orgs = {o}
  BY <1>6 DEF Request, Ops
<1> HIDE DEF s
<1>8. PICK q \in Request : q = s
  BY <1>7
<1>9. \A f \in X : rows[f].status # "unused" /\ TenantOf(f) = o
  BY <1>4 DEF KeysIn, Stored
<1>10. Carries(w, q)'
  <2>1. Stages(w, q)'
    BY <1>5, <1>6, <1>7, <1>8, IdleFacts DEF Stages, Ops
  <2>2. Knows(w, q)'
    BY <1>5, <1>7, <1>8, <1>9 DEF Knows, TenantOf
  <2>3. Unlinks(q)'
    BY <1>7, <1>8 DEF Unlinks
  <2> QED
    BY <2>1, <2>2, <2>3 DEF Carries
<1>11. TypeOK'
  BY <1>5, <1>7, TurnFacts DEF IInv, TypeOK
<1>12. requests[w] # Idle /\ requests[w].op = None /\ q.op = "eraseOrg"
  BY <1>1, <1>2, <1>6, <1>7, <1>8, IdleFacts
<1> QED
  BY <1>5, <1>8, <1>10, <1>11, <1>12, IdleFacts, QuietStep DEF Takes, Ops

LEMMA CollectUserStep == ASSUME IInv, NEW w \in Workers, CollectUser(w) PROVE IInv'
<1>1. PICK u \in users : requests' = [requests EXCEPT ![w] =
          [Idle EXCEPT !.op = "eraseUser", !.stage = "unlinking", !.user = u,
                       !.keys = KeysOf(u),
                       !.orgs = IF u \in members THEN {OrgOf[u]} ELSE {}]]
  BY DEF CollectUser
<1>2. PICK X \in SUBSET Files : X = KeysOf(u)
  BY DEF KeysOf
<1>3. u \in Users
  BY DEF IInv, TypeOK
<1>4. PICK O \in SUBSET Orgs : O = IF u \in members THEN {OrgOf[u]} ELSE {}
  <2>1. OrgOf[u] \in Orgs
    BY <1>3, FilesAssumption
  <2>2. (IF u \in members THEN {OrgOf[u]} ELSE {}) \in SUBSET Orgs
    BY <2>1
  <2> QED
    BY <2>2
<1> DEFINE s == [Idle EXCEPT !.op = "eraseUser", !.stage = "unlinking", !.user = u,
                             !.keys = X, !.orgs = O]
<1>5. /\ requests[w] = Idle /\ MayBegin /\ (Alone => AllIdle) /\ Turns(w, s)
      /\ UNCHANGED <<rows, blobs, users, members, plan, tokens, lock, faults, stray,
                     lost, regime>>
  BY <1>1, <1>2, <1>4 DEF CollectUser, Turns, Alone
<1>6. /\ s \in Request /\ s.op = "eraseUser" /\ s.stage = "unlinking" /\ s.user = u
      /\ s.keys = X /\ s.rows = {} /\ s.orgs = O
  BY <1>3, IdleFacts DEF Idle, Request, Ops
<1> HIDE DEF s
<1>7. PICK q \in Request : q = s
  BY <1>6
<1>8. lock # w
  BY <1>5, RequestFacts, IdleFacts DEF Carries, Stages
<1>9. Carries(w, q)'
  <2>1. Stages(w, q)'
    BY <1>5, <1>6, <1>7, <1>8, IdleFacts DEF Stages, Ops
  <2>2. Knows(w, q)'
    BY <1>2, <1>3, <1>5, <1>6, <1>7, <1>8 DEF Knows, KeysOf, Stored
  <2>3. Unlinks(q)'
    BY <1>2, <1>5, <1>6, <1>7 DEF Unlinks, KeysOf, RowsOf, Stored
  <2> QED
    BY <2>1, <2>2, <2>3 DEF Carries
<1>10. TypeOK'
  BY <1>5, <1>6, TurnFacts DEF IInv, TypeOK
<1>11. requests[w].op = None
  BY <1>5, IdleFacts
<1> QED
  BY <1>5, <1>7, <1>9, <1>10, <1>11, IdleFacts, QuietStep DEF Takes, Ops

LEMMA UnlinkedStep == ASSUME IInv, NEW w \in Workers, Unlinked(w) PROVE IInv'
<1>1. PICK p \in Request : p = requests[w] /\ Carries(w, p)
  BY RequestFacts
<1>2. PICK stage \in {"written", "unlinked"} :
         stage = IF lock = w THEN "written" ELSE "unlinked"
  OBVIOUS
<1> DEFINE s == [p EXCEPT !.stage = stage]
<1>3. /\ p.stage = "unlinking" /\ p.keys = {} /\ Turns(w, s)
      /\ UNCHANGED <<rows, blobs, users, members, plan, tokens, lock, faults, stray,
                     lost, regime>>
  BY <1>1, <1>2 DEF Unlinked, Turns
<1>4. p.op \in {"purge", "eraseOrg", "eraseUser"} /\ (lock # w => p.op = "eraseUser")
  BY <1>1, <1>3 DEF Carries, Stages
<1>5. /\ s \in Request /\ s.op = p.op /\ s.stage = stage /\ s.user = p.user
      /\ s.keys = {} /\ s.rows = p.rows /\ s.orgs = p.orgs
  BY <1>3 DEF Request
<1> HIDE DEF s
<1>6. PICK q \in Request : q = s
  BY <1>5
<1>7. Carries(w, q)'
  <2>1. Stages(w, q)'
    BY <1>1, <1>2, <1>3, <1>4, <1>5, <1>6, IdleFacts DEF Carries, Stages, Ops
  <2>2. Knows(w, q)'
    BY <1>1, <1>3, <1>4, <1>5, <1>6 DEF Carries, Knows, RowsOf, Stored, Past, TenantOf
  <2>3. Unlinks(q)'
    BY <1>1, <1>3, <1>5, <1>6 DEF Carries, Unlinks, Alone, RowsOf, Stored
  <2> QED
    BY <2>1, <2>2, <2>3 DEF Carries
<1>8. TypeOK'
  BY <1>3, <1>5, TurnFacts DEF IInv, TypeOK
<1>9. /\ requests[w] # Idle /\ q.op = requests[w].op /\ requests[w].op # "upload"
      /\ \A f \in Files : Takes(requests[w], f) => Takes(q, f)
  BY <1>1, <1>3, <1>4, <1>5, <1>6, IdleFacts DEF Takes
<1> QED
  BY <1>3, <1>6, <1>7, <1>8, <1>9, QuietStep

LEMMA DeleteUserStep == ASSUME IInv, NEW w \in Workers, DeleteUser(w) PROVE IInv'
<1>1. PICK p \in Request : p = requests[w] /\ Carries(w, p)
  BY RequestFacts
<1>2. PICK doomed \in SUBSET Orgs :
         doomed = {o \in p.orgs : \A u \in members \ {p.user} : OrgOf[u] # o}
  BY DEF Request
<1>3. PICK others \in SUBSET Files :
         others = UNION {KeysIn(o) : o \in doomed} \ RowsOf(p.user)
  BY DEF KeysIn
<1>4. PICK X \in SUBSET Files : X = RowsOf(p.user) \cup others
  BY DEF RowsOf
<1> DEFINE s == [p EXCEPT !.stage = "unlinking", !.orgs = doomed, !.keys = others, !.rows = X]
<1>5. /\ p.stage = "unlinked" /\ lock = None /\ lock' = w /\ Turns(w, s)
      /\ UNCHANGED <<rows, blobs, users, members, plan, tokens, faults, stray, lost, regime>>
  BY <1>1, <1>2, <1>3, <1>4 DEF DeleteUser, LockIsFree, Turns
<1>6. p.op = "eraseUser" /\ p.keys = {} /\ p.rows = {} /\ p.user \in Users
  BY <1>1, <1>5, IdleFacts DEF Carries, Stages, Knows
<1>7. /\ s \in Request /\ s.op = "eraseUser" /\ s.stage = "unlinking" /\ s.user = p.user
      /\ s.keys = others /\ s.rows = X /\ s.orgs = doomed
  BY <1>6 DEF Request
<1> HIDE DEF s
<1>8. PICK q \in Request : q = s
  BY <1>7
<1>9. \A f \in others : rows[f].status # "unused" /\ TenantOf(f) \in doomed
  BY <1>3 DEF KeysIn, Stored
<1>10. Carries(w, q)'
  <2>1. Stages(w, q)'
    BY <1>5, <1>7, <1>8, IdleFacts DEF Stages, Ops
  <2>2. Knows(w, q)'
    BY <1>4, <1>5, <1>6, <1>7, <1>8, <1>9 DEF Knows, RowsOf, Stored, TenantOf
  <2>3. Unlinks(q)'
    BY <1>1, <1>4, <1>5, <1>6, <1>7, <1>8 DEF Carries, Unlinks, Alone, RowsOf, Stored
  <2> QED
    BY <2>1, <2>2, <2>3 DEF Carries
<1>11. TypeOK'
  BY <1>5, <1>7, TurnFacts DEF IInv, TypeOK
<1>12. /\ requests[w] # Idle /\ requests[w].op = "eraseUser" /\ q.op = "eraseUser"
       /\ \A f \in Files : Takes(requests[w], f) => Takes(q, f)
  BY <1>1, <1>5, <1>6, <1>7, <1>8, IdleFacts DEF Takes
<1>13. \A v \in Workers \ {w} : lock' = v <=> lock = v
  BY <1>5, IdleFacts
<1> QED
  BY <1>5, <1>8, <1>10, <1>11, <1>12, <1>13, QuietStep

-----------------------------------------------------------------------------
(* Steps that change the disk or the rows.                                 *)

LEMMA UploadStep == ASSUME IInv, NEW w \in Workers, Upload(w) PROVE IInv'
<1>1. PICK p \in Request : p = requests[w] /\ Carries(w, p)
  BY RequestFacts
<1>2. PICK f \in Files :
         /\ rows[f].status = "unused" /\ OwnerOf[f] = p.user
         /\ blobs' = blobs \cup {f}
         /\ requests' = [requests EXCEPT ![w].op = "upload", ![w].file = f,
                                         ![w].stage = "written"]
  BY <1>1 DEF Upload
<1> DEFINE s == [p EXCEPT !.op = "upload", !.file = f, !.stage = "written"]
<1>3. /\ p.stage = "locked" /\ p.user \in members /\ Room(OrgOf[p.user]) /\ Turns(w, s)
      /\ UNCHANGED <<rows, users, members, plan, tokens, lock, faults, stray, lost, regime>>
  <2>1. Locked(w) /\ Room(OrgOf[requests[w].user])
    BY Zenon DEF Upload, Room
  <2>2. p.stage = "locked" /\ p.user \in members
    BY <1>1, <2>1 DEF Locked
  <2>3. Turns(w, s)
    BY <1>1, <1>2 DEF Turns
  <2>4. UNCHANGED <<rows, users, members, plan, tokens, lock, faults, stray, lost, regime>>
    BY DEF Upload
  <2> QED
    BY <1>1, <2>1, <2>2, <2>3, <2>4
<1>4. /\ lock = w /\ p.op = None /\ p.keys = {} /\ p.rows = {} /\ p.orgs = {}
      /\ p.user \in Users
  BY <1>1, <1>3 DEF Carries, Stages, IInv, TypeOK
<1>5. /\ s \in Request /\ s.op = "upload" /\ s.stage = "written" /\ s.file = f
      /\ s.keys = {} /\ s.rows = {} /\ s.orgs = {} /\ s.user = p.user
  BY <1>4 DEF Request, Ops
<1> HIDE DEF s
<1>6. PICK q \in Request : q = s
  BY <1>5
<1>7. Room(OrgOf[p.user])'
  BY <1>3 DEF Room, LiveIn, TenantOf
<1>8. Carries(w, q)'
  <2>1. Stages(w, q)'
    BY <1>3, <1>4, <1>5, <1>6, IdleFacts DEF Stages, Ops
  <2>2. Knows(w, q)'
    BY <1>2, <1>3, <1>4, <1>5, <1>6, <1>7 DEF Knows, Room
  <2>3. Unlinks(q)'
    BY <1>5, <1>6 DEF Unlinks
  <2> QED
    BY <2>1, <2>2, <2>3 DEF Carries
<1>9. TypeOK'
  BY <1>2, <1>3, <1>5, TurnFacts DEF IInv, TypeOK
<1>10. requests[w] # Idle /\ requests[w].op = None /\ q.op = "upload" /\ q.file = f
  BY <1>1, <1>3, <1>4, <1>5, <1>6, IdleFacts
<1>11. Undisturbed(w)
  BY <1>2, <1>3, <1>4, <1>10 DEF Undisturbed
<1>12. requests'[w] = q /\ \A v \in Workers \ {w} : requests'[v] = requests[v]
  BY <1>3, <1>6, TurnFacts
<1>13. ASSUME NEW x \in Files PROVE LiveInv(x)'
  <2> SUFFICES ASSUME rows[x].status = "live", x \notin blobs \cup lost
               PROVE  \E v \in Workers : Takes(requests'[v], x)
    BY <1>2, <1>3 DEF LiveInv, Takes
  <2>1. PICK v \in Workers : Takes(requests[v], x)
    BY DEF IInv, LiveInv
  <2>2. v # w
    BY <1>10, <2>1, IdleFacts DEF Takes, Ops
  <2> QED
    BY <1>12, <2>1, <2>2
<1>14. ASSUME NEW x \in Files PROVE ByteInv(x)'
  <2> SUFFICES ASSUME Alone, x \in blobs', ~Stored(x), x \notin stray
               PROVE  \E v \in Workers : requests'[v].op = "upload" /\ requests'[v].file = x
    BY <1>3 DEF ByteInv, Stored, Alone
  <2>1. CASE x = f
    BY <1>10, <1>12, <2>1
  <2>2. CASE x # f
    <3>1. PICK v \in Workers : requests[v].op = "upload" /\ requests[v].file = x
      BY <1>2, <2>2 DEF IInv, ByteInv
    <3>2. v # w
      BY <1>10, <3>1, IdleFacts DEF Ops
    <3> QED
      BY <1>12, <3>1, <3>2
  <2> QED
    BY <2>1, <2>2
<1>15. \A o \in Orgs : IsFiniteSet(LiveIn(o))'
  BY <1>3 DEF IInv, LiveIn, TenantOf
<1> QED
  BY <1>3, <1>6, <1>8, <1>9, <1>10, <1>11, <1>13, <1>14, <1>15, WorkerStep

LEMMA UnlinkStep == ASSUME IInv, NEW w \in Workers, Unlink(w) PROVE IInv'
<1>1. PICK p \in Request : p = requests[w] /\ Carries(w, p)
  BY RequestFacts
<1>2. PICK f \in p.keys : /\ blobs' = blobs \ {f}
                          /\ requests' = [requests EXCEPT ![w].keys = @ \ {f}]
  BY <1>1 DEF Unlink
<1> DEFINE s == [p EXCEPT !.keys = p.keys \ {f}]
<1>3. /\ p.stage = "unlinking" /\ Turns(w, s)
      /\ UNCHANGED <<rows, users, members, plan, tokens, lock, faults, stray, lost, regime>>
  BY <1>1, <1>2 DEF Unlink, Turns
<1>4. /\ p.op \in {"purge", "eraseOrg", "eraseUser"} /\ f \in Files
      /\ rows[f].status # "unused" /\ (rows[f].status = "live" => Takes(p, f))
  BY <1>1, <1>2, <1>3 DEF Carries, Stages, Knows, Takes, Request
<1>5. /\ s \in Request /\ s.op = p.op /\ s.stage = p.stage /\ s.user = p.user
      /\ s.keys = p.keys \ {f} /\ s.rows = p.rows /\ s.orgs = p.orgs
  BY DEF Request
<1> HIDE DEF s
<1>6. PICK q \in Request : q = s
  BY <1>5
<1>7. Carries(w, q)'
  <2>1. Stages(w, q)'
    BY <1>1, <1>3, <1>4, <1>5, <1>6, IdleFacts DEF Carries, Stages, Ops
  <2>2. Knows(w, q)'
    BY <1>1, <1>3, <1>4, <1>5, <1>6 DEF Carries, Knows, RowsOf, Stored, Past, TenantOf
  <2>3. Unlinks(q)'
    BY <1>1, <1>2, <1>3, <1>5, <1>6 DEF Carries, Unlinks, Alone, RowsOf, Stored
  <2> QED
    BY <2>1, <2>2, <2>3 DEF Carries
<1>8. TypeOK'
  BY <1>2, <1>3, <1>5, TurnFacts DEF IInv, TypeOK
<1>9. /\ requests[w] # Idle /\ q.op = requests[w].op /\ requests[w].op # "upload"
      /\ \A x \in Files : Takes(requests[w], x) => Takes(q, x)
  BY <1>1, <1>3, <1>4, <1>5, <1>6, IdleFacts DEF Takes
<1>10. Undisturbed(w)
  BY <1>2, <1>3, <1>4, <1>9 DEF Undisturbed
<1>11. requests'[w] = q /\ \A v \in Workers \ {w} : requests'[v] = requests[v]
  BY <1>3, <1>6, TurnFacts
<1>12. ASSUME NEW x \in Files PROVE LiveInv(x)'
  <2> SUFFICES ASSUME rows[x].status = "live", x \notin blobs' \cup lost
               PROVE  \E v \in Workers : Takes(requests'[v], x)
    BY <1>3 DEF LiveInv, Takes
  <2>1. \E v \in Workers : Takes(requests[v], x)
    <3>1. CASE x = f
      BY <1>1, <1>4, <3>1
    <3>2. CASE x # f
      BY <1>2, <3>2 DEF IInv, LiveInv
    <3> QED
      BY <3>1, <3>2
  <2> QED
    BY <1>9, <1>11, <2>1
<1>13. ASSUME NEW x \in Files PROVE ByteInv(x)'
  <2> SUFFICES ASSUME Alone, x \in blobs, ~Stored(x), x \notin stray
               PROVE  \E v \in Workers : requests'[v].op = "upload" /\ requests'[v].file = x
    BY <1>2, <1>3 DEF ByteInv, Stored, Alone
  <2>1. PICK v \in Workers : requests[v].op = "upload" /\ requests[v].file = x
    BY DEF IInv, ByteInv
  <2> QED
    BY <1>9, <1>11, <2>1
<1>14. \A o \in Orgs : IsFiniteSet(LiveIn(o))'
  BY <1>3 DEF IInv, LiveIn, TenantOf
<1> QED
  BY <1>3, <1>6, <1>7, <1>8, <1>9, <1>10, <1>12, <1>13, <1>14, WorkerStep

\* What a commit makes of the rows.
LEMMA CommitFacts ==
    ASSUME IInv, NEW w \in Workers, NEW p \in Request, p = requests[w], Commit(w)
    PROVE  /\ p.stage = "written" /\ p.op # None /\ p.keys = {} /\ lock = w
           /\ p.op \in {"upload", "delete", "download"} => p.rows = {} /\ p.orgs = {}
           /\ p.op \in {"upload", "delete"} => p.file \in Files
           /\ rows' \in [Files -> Row]
           /\ \A f \in p.rows : rows'[f].status = "gone"
           /\ p.op = "upload" => rows'[p.file].status = "live" /\ p.file \in blobs
           /\ p.op = "delete" => rows'[p.file].status = "deleted"
           /\ \A f \in Files \ p.rows :
                 rows'[f] = rows[f] \/ (f = p.file /\ p.op \in {"upload", "delete"})
<1>1. Carries(w, p) /\ p.stage = "written" /\ rows' = RowsAfter(p)
  BY RequestFacts DEF Commit
<1>2. /\ p.op # None /\ p.keys = {} /\ lock = w
      /\ p.op \in {"upload", "delete", "download"} => p.rows = {} /\ p.orgs = {}
      /\ p.op \in {"upload", "delete"} => p.file \in Files
      /\ p.op = "upload" => p.file \in blobs
  BY <1>1 DEF Carries, Stages, Knows
<1>3. \A x \in Files : rows'[x] =
         IF x \in p.rows THEN [status |-> "gone", age |-> 0]
         ELSE IF x = p.file /\ p.op = "upload" THEN [status |-> "live", age |-> 0]
         ELSE IF x = p.file /\ p.op = "delete" THEN [status |-> "deleted", age |-> 0]
         ELSE rows[x]
  BY <1>1 DEF RowsAfter
<1>4. \A x \in Files : rows'[x] \in Row
  BY <1>3 DEF Row, IInv, TypeOK
<1>5. rows' \in [Files -> Row]
  BY <1>1, <1>4 DEF RowsAfter
<1>6. p.rows \subseteq Files
  BY DEF Request
<1> QED
  BY <1>1, <1>2, <1>3, <1>5, <1>6

LEMMA CommitStep == ASSUME IInv, NEW w \in Workers, Commit(w) PROVE IInv'
<1>1. PICK p \in Request : p = requests[w] /\ Carries(w, p)
  BY RequestFacts
<1>2. /\ p.stage = "written" /\ p.op # None /\ p.keys = {} /\ lock = w
      /\ p.op \in {"upload", "delete", "download"} => p.rows = {} /\ p.orgs = {}
      /\ p.op \in {"upload", "delete"} => p.file \in Files
      /\ rows' \in [Files -> Row]
      /\ \A f \in p.rows : rows'[f].status = "gone"
      /\ p.op = "upload" => rows'[p.file].status = "live" /\ p.file \in blobs
      /\ p.op = "delete" => rows'[p.file].status = "deleted"
      /\ \A f \in Files \ p.rows :
            rows'[f] = rows[f] \/ (f = p.file /\ p.op \in {"upload", "delete"})
  BY <1>1, CommitFacts
<1>3. /\ users' = IF p.op = "eraseUser" THEN users \ {p.user} ELSE users
      /\ members' = MembersAfter(p)
      /\ plan' = [o \in Orgs |-> IF o \in p.orgs THEN None ELSE plan[o]]
      /\ lock' = None /\ Turns(w, Idle)
      /\ UNCHANGED <<blobs, tokens, faults, stray, lost, regime>>
  BY <1>1, <1>2 DEF Commit, Released, Turns
<1>4. TypeOK'
  <2>1. users' \subseteq Users /\ members' \subseteq users'
    BY <1>3 DEF IInv, TypeOK, MembersAfter
  <2>2. plan' \in [Orgs -> PlanNames \cup {None}]
    BY <1>3 DEF IInv, TypeOK
  <2> QED
    BY <1>2, <1>3, <2>1, <2>2, TurnFacts, IdleFacts DEF IInv, TypeOK
<1>5. Undisturbed(w)
  <2>1. requests[w] # Idle
    BY <1>1, <1>2, IdleFacts
  <2>2. \A f \in Files : rows[f].status # "unused" => rows'[f].status # "unused"
    BY <1>2
  <2>3. \A v \in Workers \ {w} : lock' = v <=> lock = v
    BY <1>2, <1>3, IdleFacts
  <2> QED
    BY <1>2, <1>3, <2>1, <2>2, <2>3 DEF Undisturbed
<1>6. Carries(w, Idle)'
  BY <1>3, IdleFacts DEF Carries, Stages, Knows, Unlinks, Ops
<1>7. \A v \in Workers \ {w} : requests'[v] = requests[v]
  BY <1>3, TurnFacts, IdleFacts
<1>8. ASSUME NEW f \in Files PROVE LiveInv(f)'
  <2> SUFFICES ASSUME rows'[f].status = "live", f \notin blobs \cup lost
               PROVE  \E v \in Workers : Takes(requests'[v], f)
    BY <1>3 DEF LiveInv, Takes
  <2>1. rows[f].status = "live" /\ f \notin p.rows
    BY <1>2
  <2>2. PICK v \in Workers : Takes(requests[v], f)
    BY <2>1 DEF IInv, LiveInv
  <2>3. v # w
    <3>1. p.op = "eraseUser" /\ p.user = OwnerOf[f] => f \in p.rows
      BY <1>1, <1>2, <2>1 DEF Carries, Knows, RowsOf, Stored
    <3> QED
      BY <1>1, <2>1, <2>2, <3>1 DEF Takes
  <2> QED
    BY <1>7, <2>2, <2>3
<1>9. ASSUME NEW f \in Files PROVE ByteInv(f)'
  <2> SUFFICES ASSUME Alone, f \in blobs, ~Stored(f)', f \notin stray
               PROVE  \E v \in Workers : requests'[v].op = "upload" /\ requests'[v].file = f
    BY <1>3 DEF ByteInv, Alone
  <2>1. f \notin p.rows
    BY <1>1, <1>2 DEF Carries, Unlinks
  <2>2. ~Stored(f) /\ ~(p.op = "upload" /\ p.file = f)
    BY <1>2, <2>1 DEF Stored
  <2>3. PICK v \in Workers : requests[v].op = "upload" /\ requests[v].file = f
    BY <2>2 DEF IInv, ByteInv
  <2>4. v # w
    BY <1>1, <2>2, <2>3
  <2> QED
    BY <1>7, <2>3, <2>4
<1>10. ASSUME NEW o \in Orgs PROVE IsFiniteSet(LiveIn(o))'
  <2>1. LiveIn(o)' \subseteq LiveIn(o) \cup {p.file}
    BY <1>2 DEF LiveIn, TenantOf
  <2>2. IsFiniteSet(LiveIn(o) \cup {p.file})
    BY FS_AddElement DEF IInv
  <2>3. IsFiniteSet(LiveIn(o)')
    BY <2>1, <2>2, FS_Subset
  <2> QED
    BY <2>3
<1>11. requests[w] # Idle /\ Idle.op # "eraseUser"
  BY <1>1, <1>2, IdleFacts DEF Ops
<1> QED
  BY <1>3, <1>4, <1>5, <1>6, <1>8, <1>9, <1>10, <1>11, IdleFacts, WorkerStep

-----------------------------------------------------------------------------
(* The environment, and the invariance.                                    *)

\* A step that changes neither requests, nor the disk, nor the status of rows.
LEMMA OutsideStep ==
    ASSUME IInv, TypeOK', UNCHANGED <<blobs, lock, requests, stray, lost, regime>>,
           \A f \in Files : rows'[f].status = rows[f].status,
           \A f \in Files : Past(f) => Past(f)' \/ lock = None,
           plan' = plan \/ lock = None
    PROVE  IInv'
<1>1. \A o : LiveIn(o)' = LiveIn(o)
  BY DEF LiveIn, TenantOf
<1>2. \A u : RowsOf(u)' = RowsOf(u)
  BY DEF RowsOf, Stored
<1>3. ASSUME NEW w \in Workers PROVE Carries(w, requests[w])'
  <2>1. PICK q \in Request : q = requests[w] /\ Carries(w, q)
    BY RequestFacts
  <2>2. Stages(w, q)'
    BY <2>1 DEF Carries, Stages
  <2>3. Knows(w, q)'
    <3>1. lock # w => q.op \notin {"upload", "purge"}
      BY <2>1 DEF Carries, Stages
    <3>2. w # None /\ q.keys \subseteq Files /\ q.rows \subseteq Files
      BY IdleFacts DEF Request
    <3>3. CASE lock = w
      <4>1. plan' = plan /\ \A f \in Files : Past(f) => Past(f)'
        BY <3>2, <3>3
      <4>2. Room(OrgOf[q.user])' = Room(OrgOf[q.user])
        BY <1>1, <4>1 DEF Room
      <4>3. q.op = "upload" => q.file \in Files
        BY <2>1 DEF Carries, Stages
      <4> QED
        BY <1>2, <2>1, <3>2, <4>1, <4>2, <4>3 DEF Carries, Knows, TenantOf
    <3>4. CASE lock # w
      BY <1>2, <2>1, <3>1, <3>2, <3>4 DEF Carries, Knows, TenantOf
    <3> QED
      BY <3>3, <3>4
  <2>4. Unlinks(q)'
    BY <1>2, <2>1 DEF Carries, Unlinks, Alone
  <2>5. Carries(w, q)'
    BY <2>2, <2>3, <2>4 DEF Carries
  <2> QED
    BY <2>1, <2>5 DEF Carries, Stages, Knows, Unlinks
<1>4. AloneIsAlone'
  BY DEF IInv, AloneIsAlone, Alone
<1>5. \A f \in Files : LiveInv(f)' /\ ByteInv(f)'
  BY DEF IInv, LiveInv, ByteInv, Stored, Takes, Alone
<1>6. \A o \in Orgs : IsFiniteSet(LiveIn(o))'
  BY <1>1 DEF IInv
<1> QED
  BY <1>3, <1>4, <1>5, <1>6 DEF IInv

LEMMA EnvironmentStep ==
    ASSUME IInv,
           \/ \E u \in Users : RemoveMember(u)
           \/ \E o \in Orgs : ChangePlan(o)
           \/ \E f \in Files : Age(f)
           \/ \E t \in Token : ExpireToken(t)
           \/ UNCHANGED vars
    PROVE  IInv'
<1>1. CASE \E u \in Users : RemoveMember(u)
  <2>1. PICK u \in Users : RemoveMember(u)
    BY <1>1
  <2>2. TypeOK'
    BY <2>1 DEF RemoveMember, IInv, TypeOK
  <2> QED
    BY <2>1, <2>2, OutsideStep DEF RemoveMember, Past, TenantOf
<1>2. CASE \E o \in Orgs : ChangePlan(o)
  <2>1. PICK o \in Orgs, p \in PlanNames : ChangePlan(o) /\ plan' = [plan EXCEPT ![o] = p]
    BY <1>2 DEF ChangePlan
  <2>2. TypeOK'
    BY <2>1 DEF ChangePlan, IInv, TypeOK
  <2> QED
    BY <2>1, <2>2, OutsideStep DEF ChangePlan, LockIsFree
<1>3. CASE \E f \in Files : Age(f)
  <2>1. PICK f \in Files : Age(f)
    BY <1>3
  <2>2. /\ rows \in [Files -> Row] /\ rows[f] \in Row /\ rows[f].age < 2
        /\ rows' = [rows EXCEPT ![f].age = @ + 1]
        /\ UNCHANGED <<blobs, users, members, plan, tokens, lock, requests, faults, stray,
                       lost, regime>>
    BY <2>1 DEF Age, IInv, TypeOK
  <2>3. /\ rows' \in [Files -> Row] /\ rows'[f].status = rows[f].status
        /\ rows'[f].age = rows[f].age + 1 /\ rows[f].age \in Nat
        /\ \A x \in Files \ {f} : rows'[x] = rows[x]
    BY <2>2 DEF Row
  <2>4. TypeOK'
    BY <2>2, <2>3 DEF IInv, TypeOK
  <2>5. ASSUME NEW x \in Files, Past(x) PROVE Past(x)'
    <3>1. CASE x = f /\ plan[TenantOf(x)] # None
      <4>1. TenantOf(x) \in Orgs
        BY FilesAssumption DEF TenantOf
      <4>2. Window[plan[TenantOf(x)]] \in Nat
        BY <3>1, <4>1, FilesAssumption DEF IInv, TypeOK
      <4>3. rows'[x].age >= Window[plan[TenantOf(x)]]
        BY <2>3, <2>5, <3>1, <4>2 DEF Past
      <4> QED
        BY <2>2, <4>3 DEF Past, TenantOf
    <3>2. CASE ~(x = f /\ plan[TenantOf(x)] # None)
      BY <2>2, <2>3, <2>5, <3>2 DEF Past, TenantOf
    <3> QED
      BY <3>1, <3>2
  <2> QED
    BY <2>2, <2>3, <2>4, <2>5, OutsideStep
<1>4. CASE \E t \in Token : ExpireToken(t)
  <2>1. TypeOK'
    BY <1>4 DEF ExpireToken, IInv, TypeOK
  <2> QED
    BY <1>4, <2>1, OutsideStep DEF ExpireToken, Past, TenantOf
<1>5. CASE UNCHANGED vars
  <2>1. TypeOK'
    BY <1>5 DEF vars, IInv, TypeOK
  <2> QED
    BY <1>5, <2>1, OutsideStep DEF vars, Past, TenantOf
<1> QED
  BY <1>1, <1>2, <1>3, <1>4, <1>5

LEMMA InitIInv == Init => IInv
<1> SUFFICES ASSUME Init PROVE IInv
  OBVIOUS
<1>1. \A w \in Workers : requests[w] = Idle /\ lock # w
  BY IdleFacts DEF Init
<1>2. \A f \in Files : rows[f].status = "unused" /\ f \notin blobs
  BY DEF Init
<1>3. TypeOK
  <2>1. [status |-> "unused", age |-> 0] \in Row
    BY DEF Row
  <2>2. rows \in [Files -> Row] /\ plan \in [Orgs -> PlanNames \cup {None}]
    BY <2>1 DEF Init, PlanNames
  <2>3. faults \in 0 .. MaxFaults
    BY FilesAssumption DEF Init
  <2> QED
    BY <2>2, <2>3, IdleFacts DEF Init, TypeOK
<1>4. AloneIsAlone
  BY <1>1, IdleFacts DEF AloneIsAlone, Ops
<1>5. \A f \in Files : LiveInv(f) /\ ByteInv(f)
  BY <1>2 DEF LiveInv, ByteInv
<1>6. ASSUME NEW o \in Orgs PROVE IsFiniteSet(LiveIn(o))
  <2>1. LiveIn(o) = {}
    BY <1>2 DEF LiveIn
  <2> QED
    BY <2>1, FS_EmptySet
<1>7. \A w \in Workers : Carries(w, requests[w])
  BY <1>1, IdleFacts DEF Carries, Stages, Knows, Unlinks, Ops
<1> QED
  BY <1>3, <1>4, <1>5, <1>6, <1>7 DEF IInv

LEMMA NextIInv == IInv /\ [Next]_vars => IInv'
<1> SUFFICES ASSUME IInv, [Next]_vars PROVE IInv'
  OBVIOUS
<1>1. ASSUME NEW w \in Workers, Enter(w) \/ Meter(w) \/ FileRoutes(w) \/ ErasureRoutes(w)
      PROVE  IInv'
  <2>1. CASE Enter(w) \/ Meter(w) \/ Upload(w) \/ IssueToken(w) \/ DeleteFile(w)
    BY <2>1, EnterStep, MeterStep, UploadStep, IssueTokenStep, DeleteFileStep
  <2>2. CASE Resolve(w) \/ ReadBlob(w) \/ RecordDownload(w)
    BY <2>2, ResolveStep, ReadBlobStep, RecordDownloadStep
  <2>3. CASE ErasureRoutes(w)
    BY <2>3, EraseOrganizationStep, CollectUserStep, DeleteUserStep DEF ErasureRoutes
  <2> QED
    BY <1>1, <2>1, <2>2, <2>3 DEF FileRoutes
<1>2. ASSUME NEW w \in Workers,
             \/ PurgeExpired(w) \/ Unlink(w) \/ Unlinked(w)
             \/ Commit(w) \/ Abort(w) \/ Refuse(w)
      PROVE  IInv'
  BY <1>2, PurgeExpiredStep, UnlinkStep, UnlinkedStep, CommitStep, AbortStep, RefuseStep
<1>3. CASE \/ \E u \in Users : RemoveMember(u)
           \/ \E o \in Orgs : ChangePlan(o)
           \/ \E f \in Files : Age(f)
           \/ \E t \in Token : ExpireToken(t)
           \/ UNCHANGED vars
  BY <1>3, EnvironmentStep
<1> QED
  BY <1>1, <1>2, <1>3 DEF Next

LEMMA Invariance == Spec => []IInv
  BY InitIInv, NextIInv, PTL DEF Spec

-----------------------------------------------------------------------------
(* The theorems.                                                           *)

\* A live file has its bytes on disk until it is erased, whatever uploads,
\* purges, downloads and erasures run beside it and wherever they are cut off,
\* but for an erasure that was aborted after its first blob; and where
\* erasures of users overlap nothing, every blob has a row, is being uploaded
\* or was left by an aborted upload.
THEOREM RowsAndBytesStayTogether == Spec => []RowsAndBytesAgree
<1>1. IInv => LiveFilesHaveBytes
  <2> SUFFICES ASSUME IInv, NEW f \in Files, NEW w \in Workers, Takes(requests[w], f)
               PROVE  BeingErased(f)
    BY DEF IInv, LiveInv, LiveFilesHaveBytes
  <2>1. PICK q \in Request : q = requests[w] /\ Carries(w, q)
    BY RequestFacts
  <2>2. \/ q.op = "eraseUser" /\ q.user = OwnerOf[f]
        \/ q.op \in {"eraseUser", "eraseOrg"} /\ TenantOf(f) \in q.orgs
    BY <2>1 DEF Takes, Carries, Knows
  <2> QED
    BY <2>1, <2>2 DEF BeingErased
<1>2. IInv => BytesHaveRows
  BY DEF IInv, TypeOK, ByteInv, BytesHaveRows, Alone
<1>3. IInv => RowsAndBytesAgree
  BY <1>1, <1>2 DEF IInv, RowsAndBytesAgree
<1> QED
  BY <1>3, Invariance, PTL

\* The rows of live files change only by a commit.
LEMMA RowsCommit ==
    ASSUME IInv, [Next]_vars, ~ \E w \in Workers : Commit(w)
    PROVE  \A f \in Files : rows'[f].status = rows[f].status
<1>1. CASE \E f \in Files : Age(f)
  <2>1. PICK f \in Files : rows' = [rows EXCEPT ![f].age = @ + 1]
    BY <1>1 DEF Age
  <2>2. rows \in [Files -> Row]
    BY DEF IInv, TypeOK
  <2> QED
    BY <2>1, <2>2 DEF Row
<1>2. CASE ~ \E f \in Files : Age(f)
  <2>1. ASSUME NEW w \in Workers PROVE FileRoutes(w) => rows' = rows
    BY Zenon DEF FileRoutes, Upload, IssueToken, DeleteFile, Resolve, ReadBlob, RecordDownload
  <2>2. ASSUME NEW w \in Workers
        PROVE  ErasureRoutes(w) \/ PurgeExpired(w) => rows' = rows
    BY Zenon DEF ErasureRoutes, EraseOrganization, CollectUser, DeleteUser, PurgeExpired
  <2>3. ASSUME NEW w \in Workers
        PROVE  \/ Enter(w) \/ Meter(w) \/ Unlink(w) \/ Unlinked(w)
               \/ Abort(w) \/ Refuse(w)
               => rows' = rows
    BY Zenon DEF Enter, Meter, Unlink, Unlinked, Abort, Refuse
  <2>4. /\ \A u \in Users : RemoveMember(u) => rows' = rows
        /\ \A o \in Orgs : ChangePlan(o) => rows' = rows
        /\ \A t \in Token : ExpireToken(t) => rows' = rows
    BY Zenon DEF RemoveMember, ChangePlan, ExpireToken
  <2>5. rows' = rows
    BY <1>2, <2>1, <2>2, <2>3, <2>4 DEF Next, vars
  <2> QED
    BY <2>5
<1> QED
  BY <1>1, <1>2

\* Overlapping uploads never pass the check of the quota together: a tenant's
\* files become more only up to what its plan allows at that moment.
THEOREM QuotasHold == Spec => UploadsFitTheQuota
<1> DEFINE Fits == \A o \in Orgs :
                      Cardinality(LiveIn(o)') > Cardinality(LiveIn(o)) =>
                          Cardinality(LiveIn(o)') <= Quota[plan'[o]]
<1>1. IInv /\ [Next]_vars => Fits
  <2> SUFFICES ASSUME IInv, [Next]_vars, NEW o \in Orgs,
                      Cardinality(LiveIn(o)') > Cardinality(LiveIn(o))
               PROVE  Cardinality(LiveIn(o)') <= Quota[plan'[o]]
    OBVIOUS
  <2>1. IsFiniteSet(LiveIn(o)) /\ Cardinality(LiveIn(o)) \in Nat
    BY FS_CardinalityType DEF IInv
  <2>2. ~(LiveIn(o)' \subseteq LiveIn(o))
    <3> SUFFICES ASSUME LiveIn(o)' \subseteq LiveIn(o) PROVE FALSE
      OBVIOUS
    <3>1. /\ Cardinality(LiveIn(o)') <= Cardinality(LiveIn(o))
          /\ IsFiniteSet(LiveIn(o)')
      BY <2>1, FS_Subset
    <3> QED
      BY <2>1, <3>1, FS_CardinalityType
  <2>3. PICK w \in Workers : Commit(w)
    BY <2>2, RowsCommit DEF LiveIn, TenantOf
  <2>4. PICK p \in Request : p = requests[w] /\ Carries(w, p)
    BY RequestFacts
  <2>5. /\ p.op = "upload" /\ p.rows = {} /\ p.orgs = {} /\ TenantOf(p.file) = o
        /\ \A f \in Files \ {p.file} : rows'[f] = rows[f]
    <3>1. PICK f \in Files : f \in LiveIn(o)' /\ f \notin LiveIn(o)
      BY <2>2 DEF LiveIn
    <3>2. rows'[f].status = "live" /\ rows[f].status # "live" /\ TenantOf(f) = o
      BY <3>1 DEF LiveIn, TenantOf
    <3> QED
      BY <2>3, <2>4, <3>2, CommitFacts
  <2>6. OrgOf[p.user] = o /\ Room(o) /\ plan' = plan
    <3>1. OrgOf[p.user] = o /\ Room(o)
      BY <2>4, <2>5 DEF Carries, Knows, TenantOf
    <3>2. plan' = plan
      BY <2>3, <2>4, <2>5 DEF Commit, IInv, TypeOK
    <3> QED
      BY <3>1, <3>2
  <2>7. LiveIn(o)' \subseteq LiveIn(o) \cup {p.file}
    BY <2>5 DEF LiveIn, TenantOf
  <2>8. Cardinality(LiveIn(o)') <= Cardinality(LiveIn(o)) + 1
    <3>1. /\ IsFiniteSet(LiveIn(o) \cup {p.file})
          /\ Cardinality(LiveIn(o) \cup {p.file}) \in Nat
          /\ Cardinality(LiveIn(o) \cup {p.file}) <= Cardinality(LiveIn(o)) + 1
      BY <2>1, FS_AddElement, FS_CardinalityType
    <3>2. /\ IsFiniteSet(LiveIn(o)')
          /\ Cardinality(LiveIn(o)') <= Cardinality(LiveIn(o) \cup {p.file})
      BY <2>7, <3>1, FS_Subset
    <3>3. Cardinality(LiveIn(o)') \in Nat
      BY <3>2, FS_CardinalityType
    <3> QED
      BY <2>1, <3>1, <3>2, <3>3
  <2>9. Cardinality(LiveIn(o)') \in Nat
    <3>1. IsFiniteSet(LiveIn(o) \cup {p.file})
      BY <2>1, FS_AddElement
    <3>2. IsFiniteSet(LiveIn(o)')
      BY <2>7, <3>1, FS_Subset
    <3> QED
      BY <3>2, FS_CardinalityType
  <2>10. Cardinality(LiveIn(o)') = Cardinality(LiveIn(o)) + 1
    BY <2>1, <2>8, <2>9
  <2> QED
    BY <2>6, <2>10 DEF Room
<1>2. IInv /\ [Next]_vars => [Fits]_vars
  BY <1>1
<1> HIDE DEF Fits
<1>3. Spec => [][Fits]_vars
  BY <1>2, Invariance, PTL DEF Spec
<1> QED
  BY <1>3 DEF Fits, UploadsFitTheQuota

\* Whoever purges, a deleted file of a user and a tenant that stay goes for
\* good only past the window its own tenant's plan has at that moment.
THEOREM PurgesKeepTheWindow == Spec => RetentionRespected
<1> DEFINE Respected == \A f \in Files :
           (/\ rows[f].status = "deleted" /\ rows'[f].status = "gone"
            /\ OwnerOf[f] \in users' /\ plan'[TenantOf(f)] # None)
               => rows[f].age >= Window[plan[TenantOf(f)]]
<1>1. IInv /\ [Next]_vars => Respected
  <2> SUFFICES ASSUME IInv, [Next]_vars, NEW f \in Files,
                      rows[f].status = "deleted", rows'[f].status = "gone",
                      OwnerOf[f] \in users', plan'[TenantOf(f)] # None
               PROVE  rows[f].age >= Window[plan[TenantOf(f)]]
    OBVIOUS
  <2>1. PICK w \in Workers : Commit(w)
    BY RowsCommit
  <2>2. PICK p \in Request : p = requests[w] /\ Carries(w, p)
    BY RequestFacts
  <2>3. f \in p.rows /\ p.op \notin {"upload", "delete", "download", None}
    BY <2>1, <2>2, CommitFacts
  <2>4. TenantOf(f) \in Orgs
    BY FilesAssumption DEF TenantOf
  <2>5. TenantOf(f) \notin p.orgs /\ ~(p.op = "eraseUser" /\ p.user = OwnerOf[f])
        /\ plan[TenantOf(f)] # None
    BY <2>1, <2>2, <2>4 DEF Commit
  <2>6. p.op = "purge"
    BY <2>2, <2>3, <2>5 DEF Carries, Knows, Request, Ops
  <2> QED
    BY <2>2, <2>3, <2>5, <2>6 DEF Carries, Knows, Past
<1>2. IInv /\ [Next]_vars => [Respected]_vars
  BY <1>1
<1> HIDE DEF Respected
<1>3. Spec => [][Respected]_vars
  BY <1>2, Invariance, PTL DEF Spec
<1> QED
  BY <1>3 DEF Respected, RetentionRespected


-----------------------------------------------------------------------------
(* The audit log of the same server, OpusAudit: a download by token is one   *)
(* of its open requests, the other routes are tenant requests.  Its state is *)
(* apart from the state above, and so is what is proved of it.               *)

CONSTANTS Contents, Writers, Kinds, MaxStamp

VARIABLES log, pending, request, writeLock, now

Audit == INSTANCE OpusAudit WITH lock <- writeLock

\* Sequence s begins with p.
Begins(p, s) == Len(p) <= Len(s) /\ \A i \in 1 .. Len(p) : s[i] = p[i]

\* A first entry, or one that follows an entry of the same organization.
Follows(entries, o, h) == h = << >> \/ \E f \in entries : f.org = o /\ f.hash = h

\* A request that passed get_tenant_context.
Tenant(q) == q.stage # "idle" /\ q.kind = "tenant"

\* What a request is about to record belongs to an organization.
Recording(q) ==
    /\ q.stage = "idle" => q = Audit!Idle
    /\ q.stage # "idle" => q.kind \in Kinds
    /\ q.stage \in {"read", "stamped"} => q.org \in Orgs /\ q.content \in Contents

\* The entries a request sees, and the one it is about to add, all follow one
\* that it sees.
Linked(q, seen) ==
    /\ \A e \in seen : Follows(seen, e.org, e.prev)
    /\ q.stage \in {"read", "stamped"} => Follows(seen, q.org, q.prev)

\* Every chain seen begins with the committed one; it verifies if tenant
\* requests alone made the committed one.
Extends(entries, seen) ==
    \A o \in Orgs :
        /\ Begins(Audit!LastHash(Audit!Of(entries, o)),
                  Audit!LastHash(Audit!Of(seen, o)))
        /\ Audit!TenantOnly(entries, o) => Audit!Intact(Audit!Of(seen, o))

\* prev_hash is still the head of the chain when the entry is inserted, and
\* created_at is later than that of every entry there.
AtHead(q, seen) ==
    /\ q.stage \in {"read", "stamped"} => q.prev = Audit!LastHash(Audit!Of(seen, q.org))
    /\ q.stage = "stamped" => \A f \in seen : f.stamp < q.stamp

\* What holds of a request: it has the write lock once it inserted an entry, a
\* tenant request from its start, so no other commit comes between the hash a
\* tenant request reads and its own commit.
Sound(w, entries, q, own, held, time) ==
    /\ Recording(q)
    /\ q.stage = "idle" => own = {}
    /\ own # {} \/ Tenant(q) => held = w
    /\ \A e \in own : e.kind = q.kind
    /\ Linked(q, entries \cup own)
    /\ \A e \in entries \cup own : e.stamp < time
    /\ q.stage = "stamped" => q.stamp < time
    /\ Tenant(q) => Extends(entries, entries \cup own) /\ AtHead(q, entries \cup own)

\* The inductive invariant of the log.
AuditInv ==
    /\ Audit!LogIsSound
    /\ \A w \in Writers : Sound(w, log, request[w], pending[w], writeLock, now)

-----------------------------------------------------------------------------
\* Stamps are numbers, so a chain has one that no other exceeds.
LEMMA LeastNatural ==
    ASSUME NEW S \in SUBSET Nat, S # {}
    PROVE  \E m \in S : \A k \in S : m <= k
<1>1. \E m \in S : \A k \in S : ~ (<<k, m>> \in OpToRel(<, Nat))
  BY NatLessThanWellFounded, WFMin
<1>2. ASSUME NEW k \in Nat, NEW m \in Nat, ~ (<<k, m>> \in OpToRel(<, Nat))
      PROVE m <= k
  <2>1. <<k, m>> \in Nat \X Nat /\ <<k,m>>[1] = k /\ <<k,m>>[2] = m
    OBVIOUS
  <2>2. ~ (k < m)
    BY <1>2, <2>1, Zenon DEF OpToRel
  <2> QED BY <2>2
<1> QED
  BY <1>1, <1>2

\* A chain that is not empty has a last entry.
LEMMA LastEntry ==
    ASSUME Audit!AuditAssumption, NEW entries \in SUBSET Audit!Entry, entries # {}
    PROVE  \E e \in entries : Audit!LastHash(entries) = e.hash
<1> DEFINE S == {MaxStamp - e.stamp : e \in entries}
<1>1. \A e \in entries : e.stamp \in 0 .. MaxStamp
  BY DEF Audit!Entry
<1>2. MaxStamp \in Nat
  BY DEF Audit!AuditAssumption
<1>3. S \in SUBSET Nat /\ S # {}
  BY <1>1, <1>2
<1>4. PICK m \in S : \A k \in S : m <= k
  <2> HIDE DEF S
  <2> QED
    BY <1>3, LeastNatural
<1>5. PICK e \in entries : m = MaxStamp - e.stamp
  BY <1>4
<1>6. \A f \in entries : f.stamp <= e.stamp
  <2> SUFFICES ASSUME NEW f \in entries PROVE f.stamp <= e.stamp
    OBVIOUS
  <2>1. MaxStamp - f.stamp \in S
    OBVIOUS
  <2> HIDE DEF S
  <2>2. m <= MaxStamp - f.stamp
    BY <1>4, <2>1
  <2> QED
    BY <1>1, <1>2, <1>5, <2>2
<1>7. (CHOOSE x \in entries : \A f \in entries : f.stamp <= x.stamp) \in entries
  BY <1>6
<1> QED
  BY <1>7 DEF Audit!LastHash

\* It is the one with the greatest stamp.
LEMMA LastEntryIs ==
    ASSUME Audit!AuditAssumption, NEW entries \in SUBSET Audit!Entry, NEW e \in entries,
           \A f \in entries \ {e} : f.stamp < e.stamp
    PROVE  Audit!LastHash(entries) = e.hash
<1> DEFINE x == CHOOSE x \in entries : \A f \in entries : f.stamp <= x.stamp
<1>1. \A f \in entries : f.stamp \in 0 .. MaxStamp
  BY DEF Audit!Entry
<1>2. MaxStamp \in Nat
  BY DEF Audit!AuditAssumption
<1>3. \A f \in entries : f.stamp <= e.stamp
  BY <1>1, <1>2
<1>4. x \in entries /\ \A f \in entries : f.stamp <= x.stamp
  BY <1>3
<1>5. x = e
  <2> HIDE DEF x
  <2> QED
    BY <1>1, <1>2, <1>4
<1> QED
  BY <1>5 DEF Audit!LastHash

\* last_hash gives the hash of an entry of that organization.
LEMMA HeadFollows ==
    ASSUME Audit!AuditAssumption, NEW entries \in SUBSET Audit!Entry, NEW o \in Orgs
    PROVE  /\ Audit!LastHash(Audit!Of(entries, o)) \in Audit!Hash
           /\ Follows(entries, o, Audit!LastHash(Audit!Of(entries, o)))
<1>1. /\ Audit!Of(entries, o) \in SUBSET Audit!Entry
      /\ \A e \in Audit!Of(entries, o) : e \in entries /\ e.org = o
  BY DEF Audit!Of
<1>2. CASE Audit!Of(entries, o) = {}
  BY <1>2 DEF Audit!LastHash, Follows, Audit!Hash
<1>3. CASE Audit!Of(entries, o) # {}
  <2>1. PICK e \in Audit!Of(entries, o) : Audit!LastHash(Audit!Of(entries, o)) = e.hash
    BY <1>1, <1>3, LastEntry
  <2> QED
    BY <1>1, <2>1 DEF Follows, Audit!Entry
<1> QED
  BY <1>2, <1>3

\* A writer between two requests.
LEMMA IdleRequest ==
    ASSUME Audit!AuditAssumption
    PROVE  /\ Audit!Idle \in Audit!Request /\ Audit!Idle.stage = "idle"
           /\ Recording(Audit!Idle) /\ ~ Tenant(Audit!Idle)
           /\ \A seen : Linked(Audit!Idle, seen) <=>
                         \A e \in seen : Follows(seen, e.org, e.prev)
<1>1. Audit!Idle \in Audit!Request /\ Audit!Idle.stage = "idle"
  BY DEF Audit!Idle, Audit!Request, Audit!Hash, Audit!AuditAssumption
<1> QED
  BY <1>1 DEF Recording, Tenant, Linked

\* A digest begins with every digest that it extends.
LEMMA BeginsTwice ==
    ASSUME NEW p \in Audit!Hash, NEW s \in Audit!Hash, NEW c \in Contents, Begins(p, s)
    PROVE  Begins(p, Append(s, c))
<1>1. Len(p) \in Nat /\ Len(s) \in Nat
  BY LenProperties DEF Audit!Hash
<1>2. Len(Append(s, c)) = Len(s) + 1 /\ \A i \in 1 .. Len(s) : Append(s, c)[i] = s[i]
  BY AppendProperties DEF Audit!Hash
<1> QED
  BY <1>1, <1>2 DEF Begins

-----------------------------------------------------------------------------
\* An empty log.
LEMMA AuditStart ==
    ASSUME Audit!AuditAssumption, Audit!Init
    PROVE  AuditInv
<1>1. log = {} /\ now = 0 /\ \A w \in Writers : request[w] = Audit!Idle /\ pending[w] = {}
  BY DEF Audit!Init
<1>2. Audit!TypeOK
  BY IdleRequest DEF Audit!Init, Audit!TypeOK, Audit!AuditAssumption
<1>3. \A o \in Orgs : Audit!Of(log, o) = {}
  BY <1>1 DEF Audit!Of
<1>4. Audit!NoDanglingPredecessor /\ Audit!TenantChainVerifies
  BY <1>1, <1>3 DEF Audit!NoDanglingPredecessor, Audit!TenantChainVerifies, Audit!Intact
<1>5. ASSUME NEW w \in Writers PROVE Sound(w, log, request[w], pending[w], writeLock, now)
  BY <1>1, IdleRequest DEF Sound
<1> QED
  BY <1>2, <1>4, <1>5 DEF AuditInv, Audit!LogIsSound

\* What the invariant says of one request.
LEMMA AuditFacts ==
    ASSUME Audit!AuditAssumption, AuditInv, NEW w \in Writers
    PROVE  /\ request[w] \in Audit!Request /\ pending[w] \in SUBSET Audit!Entry
           /\ Sound(w, log, request[w], pending[w], writeLock, now)
           /\ request \in [Writers -> Audit!Request]
           /\ pending \in [Writers -> SUBSET Audit!Entry] /\ log \in SUBSET Audit!Entry
           /\ writeLock \in Writers \cup {None} /\ None \notin Writers
           /\ now \in 0 .. MaxStamp /\ MaxStamp \in Nat
BY DEF AuditInv, Audit!LogIsSound, Audit!TypeOK, Audit!AuditAssumption

\* A step of w that leaves the committed entries alone.
LEMMA WriterTurns ==
    ASSUME Audit!AuditAssumption, AuditInv, NEW w \in Writers,
           NEW q \in Audit!Request, NEW own \in SUBSET Audit!Entry, UNCHANGED log,
           request' = [request EXCEPT ![w] = q], pending' = [pending EXCEPT ![w] = own],
           writeLock' \in Writers \cup {None},
           \A v \in Writers \ {w} : writeLock = v => writeLock' = v,
           now' \in 0 .. MaxStamp, now <= now',
           Sound(w, log, q, own, writeLock', now')
    PROVE  AuditInv'
<1>1. /\ request \in [Writers -> Audit!Request]
      /\ pending \in [Writers -> SUBSET Audit!Entry]
      /\ log \in SUBSET Audit!Entry /\ now \in 0 .. MaxStamp /\ MaxStamp \in Nat
  BY AuditFacts
<1>2. Audit!TypeOK'
  BY <1>1 DEF Audit!TypeOK
<1>3. Audit!LogIsSound'
  BY <1>2 DEF AuditInv, Audit!LogIsSound, Audit!NoDanglingPredecessor, Audit!TenantChainVerifies
<1>4. ASSUME NEW v \in Writers
      PROVE  Sound(v, log, request'[v], pending'[v], writeLock', now')
  <2>1. CASE v = w
    BY <1>1, <2>1
  <2>2. CASE v # w
    <3>1. /\ request'[v] = request[v] /\ pending'[v] = pending[v]
          /\ Sound(v, log, request[v], pending[v], writeLock, now)
          /\ pending[v] \in SUBSET Audit!Entry /\ request[v] \in Audit!Request
      BY <1>1, <2>2, AuditFacts
    <3>2. \A e \in log \cup pending[v] : e.stamp < now => e.stamp < now'
      BY <1>1, <3>1 DEF Audit!Entry
    <3>3. request[v].stamp < now => request[v].stamp < now'
      BY <1>1, <3>1 DEF Audit!Request
    <3> QED
      BY <2>2, <3>1, <3>2, <3>3 DEF Sound
  <2> QED
    BY <2>1, <2>2
<1> QED
  BY <1>3, <1>4 DEF AuditInv

\* What a request that has no entry of its own sees.
LEMMA NothingOwned ==
    ASSUME Audit!AuditAssumption, AuditInv, NEW w \in Writers, request[w].stage = "idle"
    PROVE  /\ pending[w] = {} /\ pending = [pending EXCEPT ![w] = {}]
           /\ Linked(Audit!Idle, log \cup {}) /\ \A e \in log \cup {} : e.stamp < now
           /\ Extends(log, log \cup {})
<1>1. /\ pending[w] = {} /\ request[w] = Audit!Idle
      /\ pending \in [Writers -> SUBSET Audit!Entry] /\ log \in SUBSET Audit!Entry
  BY AuditFacts DEF Sound, Recording
<1>2. Linked(Audit!Idle, log \cup {}) /\ \A e \in log \cup {} : e.stamp < now
  BY <1>1, AuditFacts DEF Sound
<1>3. log \cup {} = log
  OBVIOUS
<1>4. Extends(log, log)
  <2> SUFFICES ASSUME NEW o \in Orgs
               PROVE  /\ Begins(Audit!LastHash(Audit!Of(log, o)),
                                Audit!LastHash(Audit!Of(log, o)))
                      /\ Audit!TenantOnly(log, o) => Audit!Intact(Audit!Of(log, o))
    BY DEF Extends
  <2>1. Len(Audit!LastHash(Audit!Of(log, o))) \in Nat
    BY <1>1, HeadFollows, LenProperties DEF Audit!Hash
  <2> QED
    BY <2>1 DEF Begins, AuditInv, Audit!LogIsSound, Audit!TenantChainVerifies
<1> QED
  BY <1>1, <1>2, <1>3, <1>4

\* A request starts: it has no entry and sees the committed chains.
LEMMA BeginSteps ==
    ASSUME Audit!AuditAssumption, AuditInv, NEW w \in Writers,
           Audit!BeginTenant(w) \/ Audit!BeginOpen(w)
    PROVE  AuditInv'
<1>1. PICK kind \in Kinds :
         /\ request' = [request EXCEPT ![w] =
                          [Audit!Idle EXCEPT !.kind = kind, !.stage = "serving"]]
         /\ kind = "tenant" => writeLock' = w
  BY DEF Audit!BeginTenant, Audit!BeginOpen
<1>2. PICK q : q = [Audit!Idle EXCEPT !.kind = kind, !.stage = "serving"]
  OBVIOUS
<1>3. q \in Audit!Request /\ q.stage = "serving" /\ q.kind = kind
  BY <1>2, IdleRequest DEF Audit!Idle, Audit!Request
<1>4. /\ request[w].stage = "idle" /\ UNCHANGED <<log, pending, now>>
      /\ writeLock' \in Writers \cup {None}
      /\ \A v \in Writers \ {w} : writeLock = v => writeLock' = v
  BY AuditFacts, IdleRequest DEF Audit!BeginTenant, Audit!BeginOpen
<1>5. Sound(w, log, q, {}, writeLock', now')
  <2>1. Recording(q) /\ AtHead(q, log \cup {})
    BY <1>3 DEF Recording, AtHead
  <2>2. Linked(q, log \cup {})
    BY <1>3, <1>4, NothingOwned, IdleRequest DEF Linked
  <2> QED
    BY <1>1, <1>2, <1>3, <1>4, <2>1, <2>2, NothingOwned DEF Sound, Tenant
<1>6. now \in 0 .. MaxStamp /\ now <= now /\ {} \in SUBSET Audit!Entry
  BY AuditFacts
<1>7. pending' = [pending EXCEPT ![w] = {}]
  BY <1>4, NothingOwned
<1> QED
  BY <1>1, <1>2, <1>3, <1>4, <1>5, <1>6, <1>7, WriterTurns

\* A login that flushes its failure counter only takes the lock.
LEMMA FlushStep ==
    ASSUME Audit!AuditAssumption, AuditInv, NEW w \in Writers, Audit!FlushOpen(w)
    PROVE  AuditInv'
<1>1. PICK q \in Audit!Request, own \in SUBSET Audit!Entry :
         q = request[w] /\ own = pending[w]
  BY AuditFacts
<1>2. /\ request' = [request EXCEPT ![w] = q] /\ pending' = [pending EXCEPT ![w] = own]
      /\ UNCHANGED <<log, now>> /\ writeLock = None /\ writeLock' = w
  BY <1>1, AuditFacts DEF Audit!FlushOpen
<1>3. Sound(w, log, q, own, writeLock', now')
  BY <1>1, <1>2, AuditFacts DEF Sound
<1>4. now' \in 0 .. MaxStamp /\ now <= now' /\ \A v \in Writers : writeLock # v
  BY <1>2, AuditFacts
<1> QED
  BY <1>2, <1>3, <1>4, WriterTurns

\* record reads the hash of the chain it sees.
LEMMA ReadStep ==
    ASSUME Audit!AuditAssumption, AuditInv, NEW w \in Writers,
           NEW o \in Orgs, NEW c \in Contents, Audit!RecordRead(w, o, c)
    PROVE  AuditInv'
<1>1. PICK r \in Audit!Request, own \in SUBSET Audit!Entry :
         r = request[w] /\ own = pending[w]
  BY AuditFacts
<1>2. /\ Sound(w, log, r, own, writeLock, now) /\ r.stage = "serving"
      /\ UNCHANGED <<log, pending, writeLock, now>>
      /\ log \cup own \in SUBSET Audit!Entry /\ Audit!Visible(w) = log \cup own
  BY <1>1, AuditFacts DEF Audit!RecordRead, Audit!Visible
<1>3. PICK h \in Audit!Hash :
         h = Audit!LastHash(Audit!Of(log \cup own, o)) /\ Follows(log \cup own, o, h)
  BY <1>2, HeadFollows
<1>4. PICK q : q = [r EXCEPT !.stage = "read", !.org = o, !.content = c, !.prev = h]
  OBVIOUS
<1>5. /\ q \in Audit!Request /\ q.stage = "read" /\ q.org = o /\ q.content = c /\ q.prev = h
      /\ q.kind = r.kind
  BY <1>4 DEF Audit!Request
<1>6. request' = [request EXCEPT ![w] = q] /\ pending' = [pending EXCEPT ![w] = own]
  BY <1>1, <1>2, <1>3, <1>4, AuditFacts DEF Audit!RecordRead
<1>7. Recording(q) /\ Linked(q, log \cup own) /\ AtHead(q, log \cup own)
      /\ (Tenant(q) <=> Tenant(r))
  BY <1>2, <1>3, <1>5 DEF Sound, Recording, Linked, AtHead, Tenant
<1>8. Sound(w, log, q, own, writeLock', now')
  BY <1>2, <1>5, <1>7 DEF Sound
<1>9. now' \in 0 .. MaxStamp /\ now <= now' /\ writeLock' \in Writers \cup {None}
  BY <1>2, AuditFacts
<1> QED
  BY <1>2, <1>5, <1>6, <1>8, <1>9, WriterTurns

\* It stamps the entry with a time later than that of every entry there is.
LEMMA StampStep ==
    ASSUME Audit!AuditAssumption, AuditInv, NEW w \in Writers, Audit!RecordStamp(w)
    PROVE  AuditInv'
<1>1. PICK r \in Audit!Request, own \in SUBSET Audit!Entry :
         r = request[w] /\ own = pending[w]
  BY AuditFacts
<1>2. /\ Sound(w, log, r, own, writeLock, now) /\ r.stage = "read"
      /\ UNCHANGED <<log, pending, writeLock>> /\ now < MaxStamp /\ now' = now + 1
      /\ now \in 0 .. MaxStamp /\ MaxStamp \in Nat
      /\ log \cup own \in SUBSET Audit!Entry
  BY <1>1, AuditFacts DEF Audit!RecordStamp
<1>3. now' \in 0 .. MaxStamp /\ now <= now' /\ now < now'
  BY <1>2
<1>4. PICK q : q = [r EXCEPT !.stage = "stamped", !.stamp = now]
  OBVIOUS
<1>5. /\ q \in Audit!Request /\ q.stage = "stamped" /\ q.org = r.org /\ q.content = r.content
      /\ q.prev = r.prev /\ q.stamp = now /\ q.kind = r.kind
  BY <1>2, <1>4 DEF Audit!Request
<1>6. request' = [request EXCEPT ![w] = q] /\ pending' = [pending EXCEPT ![w] = own]
  BY <1>1, <1>2, <1>4, AuditFacts DEF Audit!RecordStamp
<1>7. \A e \in log \cup own : e.stamp < now'
  <2>1. \A e \in log \cup own : e.stamp \in Nat /\ e.stamp < now
    BY <1>2 DEF Sound, Audit!Entry
  <2> QED
    BY <1>2, <2>1
<1>8. /\ Recording(q) /\ Linked(q, log \cup own) /\ (Tenant(q) <=> Tenant(r))
      /\ (Tenant(r) => AtHead(q, log \cup own))
  BY <1>2, <1>5 DEF Sound, Recording, Linked, AtHead, Tenant
<1>9. Sound(w, log, q, own, writeLock', now')
  BY <1>2, <1>3, <1>5, <1>7, <1>8 DEF Sound
<1>10. writeLock' \in Writers \cup {None}
  BY <1>2, AuditFacts
<1> QED
  BY <1>2, <1>3, <1>5, <1>6, <1>9, <1>10, WriterTurns

\* A rollback takes away entries that no other request has seen.
LEMMA RollbackStep ==
    ASSUME Audit!AuditAssumption, AuditInv, NEW w \in Writers, Audit!Rollback(w)
    PROVE  AuditInv'
<1>1. /\ request' = [request EXCEPT ![w] = Audit!Idle] /\ pending' = [pending EXCEPT ![w] = {}]
      /\ UNCHANGED <<log, now>> /\ writeLock' = IF writeLock = w THEN None ELSE writeLock
  BY DEF Audit!Rollback, Audit!Release
<1>2. /\ writeLock' \in Writers \cup {None}
      /\ \A v \in Writers \ {w} : writeLock = v => writeLock' = v
      /\ now' \in 0 .. MaxStamp /\ now <= now' /\ {} \in SUBSET Audit!Entry
  BY <1>1, AuditFacts
<1>3. Linked(Audit!Idle, log \cup {})
  BY IdleRequest DEF AuditInv, Audit!LogIsSound, Audit!NoDanglingPredecessor, Follows
<1>4. \A e \in log \cup {} : e.stamp < now'
  BY <1>1, AuditFacts DEF Sound
<1>5. Sound(w, log, Audit!Idle, {}, writeLock', now')
  BY <1>3, <1>4, IdleRequest DEF Sound
<1> QED
  BY <1>1, <1>2, <1>5, IdleRequest, WriterTurns

\* An entry with the greatest stamp comes after the others.
LEMMA EarlierEntries ==
    ASSUME NEW entries, NEW more, NEW e, more = entries \cup {e}, e.stamp \in Nat,
           \A f \in entries : f.stamp < e.stamp /\ f.stamp \in Nat
    PROVE  /\ {f \in more : f.stamp < e.stamp} = entries
           /\ \A x \in entries :
                 {f \in more : f.stamp < x.stamp} = {f \in entries : f.stamp < x.stamp}
<1>1. ~ (e.stamp < e.stamp)
  OBVIOUS
<1>2. \A x \in entries : ~ (e.stamp < x.stamp)
  OBVIOUS
<1> QED
  BY <1>1, <1>2, Zenon

\* A tenant request inserts at the end of the chain it sees.
LEMMA TenantInserts ==
    ASSUME Audit!AuditAssumption,
           NEW entries \in SUBSET Audit!Entry, NEW seen \in SUBSET Audit!Entry,
           NEW q \in Audit!Request, NEW e \in Audit!Entry, e = Audit!NewEntry(q),
           q.stage = "stamped", q.org \in Orgs, q.content \in Contents,
           Extends(entries, seen), AtHead(q, seen)
    PROVE  Extends(entries, seen \cup {e})
<1> DEFINE more == seen \cup {e}
<1>1. /\ e.org = q.org /\ e.stamp = q.stamp /\ e.prev = q.prev
      /\ e.hash = Append(e.prev, q.content)  /\ e.content = q.content
  BY DEF Audit!NewEntry
<1>2. e.prev = Audit!LastHash(Audit!Of(seen, q.org)) /\ \A f \in seen : f.stamp < e.stamp
  BY <1>1 DEF AtHead
<1>3. \A f \in seen \cup {e} : f.stamp \in Nat
  BY DEF Audit!Entry
<1>4. e \notin seen
  BY <1>2, <1>3
<1> SUFFICES ASSUME NEW o \in Orgs
             PROVE  /\ Begins(Audit!LastHash(Audit!Of(entries, o)),
                              Audit!LastHash(Audit!Of(more, o)))
                    /\ Audit!TenantOnly(entries, o) => Audit!Intact(Audit!Of(more, o))
  BY DEF Extends
<1>5. /\ Begins(Audit!LastHash(Audit!Of(entries, o)), Audit!LastHash(Audit!Of(seen, o)))
      /\ Audit!TenantOnly(entries, o) => Audit!Intact(Audit!Of(seen, o))
  BY DEF Extends
<1>6. CASE o # q.org
  <2>1. Audit!Of(more, o) = Audit!Of(seen, o)
    BY <1>1, <1>6 DEF Audit!Of
  <2> QED
    BY <1>5, <2>1
<1>7. CASE o = q.org
  <2>1. /\ Audit!Of(more, o) = Audit!Of(seen, o) \cup {e}
        /\ \A f \in Audit!Of(seen, o) : f \in seen
    BY <1>1, <1>7 DEF Audit!Of
  <2>2. Audit!LastHash(Audit!Of(more, o)) = e.hash
    <3>1. \A f \in Audit!Of(more, o) \ {e} : f.stamp < e.stamp
      BY <1>2, <2>1
    <3>2. Audit!Of(more, o) \in SUBSET Audit!Entry
      BY DEF Audit!Of
    <3> QED
      BY <2>1, <3>1, <3>2, LastEntryIs
  <2>3. Begins(Audit!LastHash(Audit!Of(entries, o)), Audit!LastHash(Audit!Of(more, o)))
    <3>1. /\ Audit!LastHash(Audit!Of(entries, o)) \in Audit!Hash
          /\ Audit!LastHash(Audit!Of(seen, o)) \in Audit!Hash
      BY HeadFollows
    <3>2. PICK p \in Audit!Hash, s \in Audit!Hash :
             /\ p = Audit!LastHash(Audit!Of(entries, o))
             /\ s = Audit!LastHash(Audit!Of(seen, o))
      BY <3>1
    <3>3. Begins(p, Append(s, q.content))
      BY <1>5, <3>2, BeginsTwice
    <3> QED
      BY <1>1, <1>2, <1>7, <2>2, <3>2, <3>3
  <2>4. /\ Audit!Of(more, o) = Audit!Of(seen, o) \cup {e}
        /\ \A f \in Audit!Of(seen, o) : f.stamp < e.stamp /\ f.stamp \in Nat
        /\ e.stamp \in Nat
    BY <1>2, <1>3, <2>1
  <2>5. /\ {f \in Audit!Of(more, o) : f.stamp < e.stamp} = Audit!Of(seen, o)
        /\ \A x \in Audit!Of(seen, o) : {f \in Audit!Of(more, o) : f.stamp < x.stamp}
                                    = {f \in Audit!Of(seen, o) : f.stamp < x.stamp}
    <3>1. PICK S, T : S = Audit!Of(more, o) /\ T = Audit!Of(seen, o)
      OBVIOUS
    <3>2. /\ S = T \cup {e} /\ e.stamp \in Nat
          /\ \A f \in T : f.stamp < e.stamp /\ f.stamp \in Nat
      BY <2>4, <3>1
    <3>3. /\ {f \in S : f.stamp < e.stamp} = T
          /\ \A x \in T : {f \in S : f.stamp < x.stamp} = {f \in T : f.stamp < x.stamp}
      BY <3>2, EarlierEntries
    <3> QED
      BY <3>1, <3>3
  <2>6. ASSUME Audit!Intact(Audit!Of(seen, o)) PROVE Audit!Intact(Audit!Of(more, o))
    <3> SUFFICES ASSUME NEW x \in Audit!Of(more, o)
                 PROVE  /\ x.prev = Audit!LastHash({f \in Audit!Of(more, o) : f.stamp < x.stamp})
                        /\ x.hash = Append(x.prev, x.content)
      BY DEF Audit!Intact
    <3>1. CASE x = e
      <4>1. {f \in Audit!Of(more, o) : f.stamp < x.stamp} = Audit!Of(seen, o)
        BY <2>5, <3>1
      <4> QED
        BY <1>1, <1>2, <1>7, <3>1, <4>1
    <3>2. CASE x \in Audit!Of(seen, o)
      <4>1. {f \in Audit!Of(more, o) : f.stamp < x.stamp}
              = {f \in Audit!Of(seen, o) : f.stamp < x.stamp}
        BY <2>5, <3>2
      <4> QED
        BY <2>6, <3>2, <4>1 DEF Audit!Intact
    <3> QED
      BY <2>1, <3>1, <3>2
  <2> QED
    BY <1>5, <2>3, <2>6
<1> QED
  BY <1>6, <1>7

\* record inserts its entry into the chain that the request sees.
LEMMA InsertStep ==
    ASSUME Audit!AuditAssumption, AuditInv, NEW w \in Writers, Audit!RecordInsert(w)
    PROVE  AuditInv'
<1>1. PICK r \in Audit!Request, own \in SUBSET Audit!Entry :
         r = request[w] /\ own = pending[w]
  BY AuditFacts
<1>2. /\ Sound(w, log, r, own, writeLock, now) /\ r.stage = "stamped"
      /\ UNCHANGED <<log, now>> /\ writeLock \in {None, w} /\ writeLock' = w
      /\ log \in SUBSET Audit!Entry /\ log \cup own \in SUBSET Audit!Entry /\ now \in 0 .. MaxStamp
  BY <1>1, AuditFacts DEF Audit!RecordInsert
<1>3. /\ r.org \in Orgs /\ r.content \in Contents /\ r.kind \in Kinds
      /\ r.prev \in Audit!Hash /\ r.stamp \in 0 .. MaxStamp /\ r.stamp < now
  BY <1>2 DEF Sound, Recording, Audit!Request
<1>4. PICK e : e = Audit!NewEntry(r)
  OBVIOUS
<1>5. e \in Audit!Entry /\ e.org = r.org /\ e.prev = r.prev /\ e.kind = r.kind /\ e.stamp = r.stamp
  <2>1. Append(r.prev, r.content) \in Audit!Hash
    BY <1>3, AppendProperties DEF Audit!Hash
  <2> QED
    BY <1>3, <1>4, <2>1 DEF Audit!NewEntry, Audit!Entry
<1>6. PICK q : q = [r EXCEPT !.stage = "serving"]
  OBVIOUS
<1>7. q \in Audit!Request /\ q.stage = "serving" /\ q.kind = r.kind
  BY <1>6 DEF Audit!Request
<1>8. PICK more : more = own \cup {e}
  OBVIOUS
<1>9. /\ request' = [request EXCEPT ![w] = q] /\ pending' = [pending EXCEPT ![w] = more]
      /\ more \in SUBSET Audit!Entry
  BY <1>1, <1>4, <1>5, <1>6, <1>8, AuditFacts DEF Audit!RecordInsert
<1>10. log \cup more = (log \cup own) \cup {e}
  BY <1>8
<1>11. Linked(q, log \cup more)
  <2>1. /\ \A f \in log \cup own : Follows(log \cup own, f.org, f.prev)
        /\ Follows(log \cup own, e.org, e.prev)
    BY <1>2, <1>5 DEF Sound, Linked
  <2>2. \A o, h : Follows(log \cup own, o, h) => Follows(log \cup more, o, h)
    BY <1>10 DEF Follows
  <2> QED
    BY <1>7, <1>10, <2>1, <2>2 DEF Linked
<1>12. Tenant(q) => Extends(log, log \cup more) /\ AtHead(q, log \cup more)
  <2>1. ASSUME Tenant(q) PROVE Extends(log, (log \cup own) \cup {e})
    <3>1. Extends(log, log \cup own) /\ AtHead(r, log \cup own)
      BY <1>2, <1>7, <2>1 DEF Sound, Tenant
    <3> QED
      BY <1>2, <1>3, <1>4, <1>5, <3>1, TenantInserts
  <2> QED
    BY <1>7, <1>10, <2>1 DEF AtHead
<1>13. Recording(q) /\ \A f \in log \cup more : f.stamp < now
  BY <1>2, <1>3, <1>5, <1>7, <1>10 DEF Sound, Recording
<1>14. \A f \in more : f.kind = q.kind
  BY <1>2, <1>5, <1>7, <1>8 DEF Sound
<1>15. Sound(w, log, q, more, writeLock', now')
  BY <1>2, <1>7, <1>11, <1>12, <1>13, <1>14 DEF Sound
<1>16. /\ writeLock' \in Writers \cup {None}
       /\ \A v \in Writers \ {w} : writeLock = v => writeLock' = v
       /\ now' \in 0 .. MaxStamp /\ now <= now'
  BY <1>2, AuditFacts
<1> QED
  BY <1>2, <1>7, <1>9, <1>15, <1>16, WriterTurns

\* What a commit makes of the log.
LEMMA CommitExtends ==
    ASSUME Audit!AuditAssumption, AuditInv, NEW w \in Writers, Audit!Commit(w), NEW o \in Orgs
    PROVE  /\ log' = log \cup pending[w]
           /\ Audit!TenantOnly(log', o) =>
                 /\ Audit!TenantOnly(log, o)
                 /\ Audit!Of(log', o) = Audit!Of(log, o) \/ Extends(log, log')
<1>1. PICK r \in Audit!Request, own \in SUBSET Audit!Entry :
         r = request[w] /\ own = pending[w]
  BY AuditFacts
<1>2. Sound(w, log, r, own, writeLock, now) /\ r.stage = "serving" /\ log' = log \cup own
  BY <1>1, AuditFacts DEF Audit!Commit
<1>3. Audit!TenantOnly(log', o) => Audit!TenantOnly(log, o)
  BY <1>2 DEF Audit!TenantOnly, Audit!Of
<1>4. ASSUME Audit!TenantOnly(log', o), Audit!Of(log', o) # Audit!Of(log, o)
      PROVE  Extends(log, log')
  <2>1. PICK e \in own : e.org = o
    BY <1>2, <1>4 DEF Audit!Of
  <2>2. e.kind = "tenant" /\ e.kind = r.kind
    BY <1>2, <1>4, <2>1 DEF Audit!TenantOnly, Audit!Of, Sound
  <2> QED
    BY <1>2, <2>2 DEF Sound, Tenant
<1> QED
  BY <1>1, <1>2, <1>3, <1>4

\* A commit keeps the log sound, and what every other request has read of it.
LEMMA EntriesCommit ==
    ASSUME Audit!AuditAssumption, AuditInv, NEW w \in Writers, Audit!Commit(w)
    PROVE  AuditInv'
<1>1. PICK r \in Audit!Request, own \in SUBSET Audit!Entry :
         r = request[w] /\ own = pending[w]
  BY AuditFacts
<1>2. /\ Sound(w, log, r, own, writeLock, now) /\ r.stage = "serving" /\ own # {}
      /\ log' = log \cup own /\ now' = now
      /\ writeLock' = IF writeLock = w THEN None ELSE writeLock
      /\ request' = [request EXCEPT ![w] = Audit!Idle] /\ pending' = [pending EXCEPT ![w] = {}]
  BY <1>1, AuditFacts DEF Audit!Commit, Audit!Release
<1>3. writeLock = w /\ writeLock' = None
  BY <1>2 DEF Sound
<1>4. log' \in SUBSET Audit!Entry /\ log' \cup {} = log'
  BY <1>2, AuditFacts
<1>5. /\ \A e \in log' : Follows(log', e.org, e.prev)
      /\ \A e \in log' : e.stamp < now
  BY <1>2 DEF Sound, Linked
<1>6. Audit!LogIsSound'
  <2>1. Audit!TypeOK'
    BY <1>2, <1>3, <1>4, AuditFacts, IdleRequest DEF Audit!TypeOK
  <2>2. Audit!NoDanglingPredecessor'
    BY <1>5 DEF Audit!NoDanglingPredecessor, Follows
  <2>3. Audit!TenantChainVerifies'
    <3> SUFFICES ASSUME NEW o \in Orgs, Audit!TenantOnly(log', o)
                 PROVE  Audit!Intact(Audit!Of(log', o))
      BY DEF Audit!TenantChainVerifies, Audit!TenantOnly, Audit!Intact, Audit!Of, Audit!LastHash
    <3>1. /\ Audit!TenantOnly(log, o)
          /\ Audit!Of(log', o) = Audit!Of(log, o) \/ Extends(log, log')
      BY CommitExtends
    <3> QED
      BY <3>1 DEF Extends, AuditInv, Audit!LogIsSound, Audit!TenantChainVerifies
  <2> QED
    BY <2>1, <2>2, <2>3 DEF Audit!LogIsSound
<1>7. ASSUME NEW v \in Writers
      PROVE  Sound(v, log', request'[v], pending'[v], writeLock', now')
  <2>1. CASE v = w
    <3>1. request'[v] = Audit!Idle /\ pending'[v] = {}
      BY <1>2, <2>1, AuditFacts
    <3> QED
      BY <1>2, <1>4, <1>5, <3>1, IdleRequest DEF Sound
  <2>2. CASE v # w
    <3>1. PICK q \in Audit!Request : q = request[v]
      BY AuditFacts
    <3>2. /\ Sound(v, log, q, pending[v], writeLock, now)
          /\ request'[v] = q /\ pending'[v] = pending[v]
      BY <1>2, <2>2, <3>1, AuditFacts
    <3>3. pending[v] = {} /\ ~ Tenant(q)
      BY <1>3, <2>2, <3>2 DEF Sound
    <3>4. \A o, h : Follows(log \cup {}, o, h) => Follows(log', o, h)
      BY <1>2 DEF Follows
    <3>5. Linked(q, log' \cup {})
      BY <1>4, <1>5, <3>2, <3>3, <3>4 DEF Sound, Linked
    <3> QED
      BY <1>2, <1>4, <1>5, <3>2, <3>3, <3>5 DEF Sound
  <2> QED
    BY <2>1, <2>2
<1> QED
  BY <1>6, <1>7 DEF AuditInv

\* Every step of the log.
LEMMA AuditStep ==
    ASSUME Audit!AuditAssumption, AuditInv, [Audit!Next]_Audit!vars
    PROVE  AuditInv'
<1>1. CASE UNCHANGED Audit!vars
  BY <1>1 DEF Audit!vars, AuditInv, Audit!LogIsSound, Audit!TypeOK,
              Audit!NoDanglingPredecessor, Audit!TenantChainVerifies
<1>2. CASE Audit!Next
  <2>1. PICK w \in Writers : \/ Audit!BeginTenant(w) \/ Audit!BeginOpen(w) \/ Audit!FlushOpen(w)
                             \/ \E o \in Orgs, c \in Contents : Audit!RecordRead(w, o, c)
                             \/ Audit!RecordStamp(w) \/ Audit!RecordInsert(w)
                             \/ Audit!Commit(w) \/ Audit!Rollback(w)
    BY <1>2 DEF Audit!Next
  <2> QED
    BY <2>1, BeginSteps, FlushStep, ReadStep, StampStep, InsertStep, EntriesCommit, RollbackStep
<1> QED
  BY <1>1, <1>2

\* The invariant holds in every state.
LEMMA AuditInvariance == Audit!AuditAssumption => (Audit!Spec => []AuditInv)
<1> SUFFICES ASSUME Audit!AuditAssumption PROVE Audit!Spec => []AuditInv
  OBVIOUS
<1>1. Audit!Init => AuditInv
  BY AuditStart
<1>2. AuditInv /\ [Audit!Next]_Audit!vars => AuditInv'
  BY AuditStep
<1> QED
  BY <1>1, <1>2, PTL DEF Audit!Spec

\* services/audit_service.py: no entry follows a hash that was rolled back, and
\* the chain of an organization that only requests under /organizations wrote
\* to passes verify_chain, whatever logins and downloads do to other chains.
THEOREM AuditLogIsSound == Audit!AuditAssumption => (Audit!Spec => []Audit!LogIsSound)
<1>1. AuditInv => Audit!LogIsSound
  BY DEF AuditInv
<1> QED
  BY <1>1, AuditInvariance, PTL

\* The digest that an auditor noted of such a chain stays a prefix of every
\* later one: record only adds at the end.
THEOREM AuditDigestsExtend == Audit!AuditAssumption => (Audit!Spec => Audit!HeadOnlyExtends)
<1> SUFFICES ASSUME Audit!AuditAssumption PROVE Audit!Spec => Audit!HeadOnlyExtends
  OBVIOUS
<1> DEFINE Grows(o) ==
      LET old == Audit!LastHash(Audit!Of(log, o))
          new == Audit!LastHash(Audit!Of(log', o))
      IN  Audit!TenantOnly(log', o) =>
              Len(old) <= Len(new) /\ SubSeq(new, 1, Len(old)) = old
<1>1. ASSUME AuditInv, [Audit!Next]_Audit!vars, log' # log PROVE \A o \in Orgs : Grows(o)
  <2>1. PICK w \in Writers : Audit!Commit(w)
    BY <1>1 DEF Audit!Next, Audit!vars, Audit!BeginTenant, Audit!BeginOpen,
                Audit!FlushOpen, Audit!RecordRead, Audit!RecordStamp,
                Audit!RecordInsert, Audit!Rollback
  <2> SUFFICES ASSUME NEW o \in Orgs, Audit!TenantOnly(log', o)
               PROVE  LET old == Audit!LastHash(Audit!Of(log, o))
                          new == Audit!LastHash(Audit!Of(log', o))
                      IN  Len(old) <= Len(new) /\ SubSeq(new, 1, Len(old)) = old
    OBVIOUS
  <2>2. log \in SUBSET Audit!Entry /\ log' \in SUBSET Audit!Entry
    BY <1>1, <2>1, AuditFacts, CommitExtends
  <2>3. PICK old \in Audit!Hash, new \in Audit!Hash :
           old = Audit!LastHash(Audit!Of(log, o)) /\ new = Audit!LastHash(Audit!Of(log', o))
    BY <2>2, HeadFollows
  <2>4. Begins(old, new)
    <3>1. Audit!Of(log', o) = Audit!Of(log, o) \/ Extends(log, log')
      BY <1>1, <2>1, CommitExtends
    <3>2. Begins(old, old)
      BY LenProperties DEF Begins, Audit!Hash
    <3> QED
      BY <2>3, <3>1, <3>2 DEF Extends
  <2>5. Len(old) <= Len(new) /\ SubSeq(new, 1, Len(old)) = old
    BY <2>4, LenProperties, SubSeqProperties DEF Begins, Audit!Hash
  <2> QED
    BY <2>3, <2>5
<1>2. AuditInv /\ [Audit!Next]_Audit!vars => [\A o \in Orgs : Grows(o)]_log
  BY <1>1
<1> QED
  BY <1>2, AuditInvariance, PTL DEF Audit!Spec, Audit!HeadOnlyExtends
============================================================================
