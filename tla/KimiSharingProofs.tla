------------------------- MODULE KimiSharingProofs --------------------------
(***************************************************************************)
(* Theorems of KimiSharing, for every set of users and requests, every     *)
(* bound and every regime under which clients issue their requests.        *)
(***************************************************************************)
EXTENDS KimiSharing, SequenceTheorems, FiniteSetTheorems, TLAPS

-----------------------------------------------------------------------------
(* The inductive invariant.                                                *)

\* What every request in flight carries, whatever the regime.
Carries(q) ==
    /\ q # Idle => q.user \in Users /\ q.op \in Ops
    /\ q.op = "share" => q.to \in Users /\ q.level # 0
    /\ q.stage = "ready" /\ q.op = "operate" => q.lamport # 0

RequestsCarry == \A w \in Workers : Carries(requests[w])

\* The log has a greatest timestamp, and a timestamp read and not yet written
\* is greater than all that were in the log when it was read.
LogHasMaximum ==
    operations # <<>> => \E l \in Lamports : \A k \in Lamports : k <= l

Follows(q) ==
    /\ q.seen <= Len(operations)
    /\ \A i \in 1 .. q.seen : operations[i].lamport < q.lamport

TimestampsFollow ==
    tenant = "live" =>
        \A w \in Workers :
            requests[w].stage = "ready" /\ requests[w].op = "operate"
                => Follows(requests[w])

SeenPrecede == tenant = "live" =>
    \A j \in DOMAIN operations : operations[j].seen < j

\* The updates of presence that found no row of u and will insert one.
Inserting(u) == {w \in Workers : /\ requests[w].stage = "ready"
                                 /\ requests[w].op = "presence"
                                 /\ requests[w].user = u
                                 /\ ~ requests[w].found}

PresenceIsBounded ==
    \A u \in Users : presence[u] + Cardinality(Inserting(u)) <= Cardinality(Workers)

\* What is issued alone is alone in flight.
AloneIsAlone ==
    \A w \in Workers : requests[w].op \in regime.alone =>
        \A v \in Workers \ {w} : requests[v] = Idle

PresenceIsFound ==
    "presence" \in regime.alone =>
        \A u \in Users : presence[u] = 0 \/ Inserting(u) = {}

\* With erasures alone, whoever is in flight is still in a live tenant.
NobodyIsErasedInFlight ==
    Erasures \subseteq regime.alone =>
        /\ \A w \in Workers :
              /\ requests[w] # Idle => roles[requests[w].user] # None
              /\ requests[w].op = "share" => roles[requests[w].to] # None
        /\ tenant = "erased" => /\ \A u \in Users : roles[u] = None
                                /\ \A w \in Workers : requests[w] = Idle

\* Shared once, a user has no grant while one is in flight, and then one.
SharedOnce ==
    regime.once =>
        /\ \A u \in Users : Resolves(u)
        /\ \A w \in Workers : requests[w].op = "share" =>
              /\ grants[requests[w].to] = <<>>
              /\ \A v \in Workers \ {w} : requests[v].to # requests[w].to

LogInv == /\ LogHasMaximum /\ TimestampsFollow /\ SeenPrecede
          /\ OperationsFollowWhatTheySaw

PresenceInv == PresenceIsBounded /\ PresenceIsFound /\ PresenceIsUpserted

ErasureInv == NobodyIsErasedInFlight /\ ErasureIsComplete

GrantsInv == SharedOnce /\ AccessHeldUntilCommit

IInv ==
    /\ TypeOK
    /\ RequestsCarry /\ AloneIsAlone
    /\ LogInv
    /\ PresenceInv
    /\ ErasureInv
    /\ GrantsInv

LEMMA IdleIsRequest == Idle \in Request /\ Carries(Idle) /\ Idle.op = None
                       /\ Idle.stage = "idle" /\ None \notin Ops
  BY SharingAssumption DEF Idle, Request, Carries, Ops, Levels

LEMMA InsertingIsFinite ==
    ASSUME NEW u
    PROVE  /\ IsFiniteSet(Inserting(u)) /\ IsFiniteSet(Workers)
           /\ Cardinality(Inserting(u)) \in Nat /\ Cardinality(Workers) \in Nat
           /\ Cardinality(Inserting(u)) <= Cardinality(Workers)
<1>1. Inserting(u) \in SUBSET Workers
  BY DEF Inserting
<1> QED
  BY <1>1, SharingAssumption, FS_Subset, FS_CardinalityType

LEMMA InitIInv == Init => IInv
<1> SUFFICES ASSUME Init PROVE IInv
  OBVIOUS
<1>1. \A w \in Workers : requests[w] = Idle
  BY DEF Init
<1>2. \A u \in Users : Inserting(u) = {} /\ Cardinality({}) = 0
  BY <1>1, FS_EmptySet, IdleIsRequest DEF Inserting
<1>3. Cardinality(Workers) \in Nat
  BY InsertingIsFinite
<1>4. TypeOK
  BY <1>3, SharingAssumption, IdleIsRequest DEF Init, TypeOK, Note
<1>5. RequestsCarry /\ AloneIsAlone
  BY <1>1, IdleIsRequest DEF RequestsCarry, AloneIsAlone
<1>6. LogInv
  BY <1>1, IdleIsRequest DEF Init, LogInv, LogHasMaximum, TimestampsFollow, SeenPrecede,
     OperationsFollowWhatTheySaw
<1>7. PresenceInv
  <2>1. ASSUME NEW u \in Users PROVE presence[u] = 0 /\ Cardinality(Inserting(u)) = 0
    BY <1>2 DEF Init
  <2> QED
    BY <1>2, <1>3, <2>1 DEF PresenceInv, PresenceIsBounded, PresenceIsFound,
       PresenceIsUpserted
<1>8. ErasureInv
  BY <1>1, IdleIsRequest DEF Ops, Init, ErasureInv, NobodyIsErasedInFlight, ErasureIsComplete
<1>9. GrantsInv
  <2>1. Len(<<>>) = 0
    BY EmptySeq
  <2>2. None \notin DOMAIN Needed /\ "share" \in Ops
    BY SharingAssumption DEF Needed, Ops
  <2> QED
    BY <1>1, <2>1, <2>2, IdleIsRequest
    DEF Init, GrantsInv, SharedOnce, Resolves, AccessHeldUntilCommit
<1> QED
  BY <1>4, <1>5, <1>6, <1>7, <1>8, <1>9 DEF IInv

-----------------------------------------------------------------------------
(* What keeps each part of the invariant.                                  *)

\* Requests end or go on as what they are.
Continue == \A v \in Workers :
    \/ requests'[v] = Idle
    \/ /\ requests[v] # Idle
       /\ requests'[v].op = requests[v].op /\ requests'[v].user = requests[v].user
       /\ requests'[v].to = requests[v].to /\ requests'[v].level = requests[v].level

LEMMA AloneKept ==
    ASSUME IInv, Continue, regime' = regime
    PROVE  AloneIsAlone'
<1> SUFFICES ASSUME NEW w \in Workers, requests'[w].op \in regime.alone,
                    NEW v \in Workers \ {w}
             PROVE  requests'[v] = Idle
  BY DEF AloneIsAlone
<1>1. regime.alone \subseteq Ops
  BY SharingAssumption DEF IInv, TypeOK
<1>2. requests[w].op \in regime.alone
  BY <1>1, IdleIsRequest DEF Continue
<1> QED
  BY <1>2 DEF Continue, IInv, AloneIsAlone

LEMMA LogKept ==
    ASSUME IInv, UNCHANGED <<tenant, operations>>,
           \A v \in Workers :
               requests'[v].stage = "ready" /\ requests'[v].op = "operate"
                   => requests'[v] = requests[v] \/ Follows(requests'[v])
    PROVE  LogInv'
<1>1. \A q : Follows(q)' <=> Follows(q)
  BY DEF Follows
<1> QED
  BY <1>1 DEF IInv, LogInv, LogHasMaximum, Lamports, TimestampsFollow, SeenPrecede,
          OperationsFollowWhatTheySaw

LEMMA PresenceKept ==
    ASSUME IInv, UNCHANGED <<presence, regime>>,
           \A u \in Users : Inserting(u)' \subseteq Inserting(u)
    PROVE  PresenceInv'
<1>1. ASSUME NEW u \in Users
      PROVE  /\ Cardinality(Inserting(u)') \in Nat /\ Cardinality(Inserting(u)) \in Nat
             /\ Cardinality(Inserting(u)') <= Cardinality(Inserting(u))
  BY InsertingIsFinite, FS_Subset, FS_CardinalityType
<1>2. Cardinality(Workers) \in Nat /\ \A u \in Users : presence[u] \in Nat
  <2>1. Cardinality(Workers) \in Nat
    BY InsertingIsFinite
  <2> QED
    BY <2>1 DEF IInv, TypeOK
<1>3. PresenceIsBounded'
  BY <1>1, <1>2 DEF IInv, PresenceInv, PresenceIsBounded
<1> QED
  BY <1>3 DEF IInv, PresenceInv, PresenceIsFound, PresenceIsUpserted

LEMMA ErasureKept ==
    ASSUME IInv, Continue, UNCHANGED <<tenant, roles, regime>>,
           Erasures \subseteq regime.alone =>
               /\ \A u \in Users : roles[u] = None => grants'[u] = grants[u]
               /\ tenant = "erased" => UNCHANGED <<operations, presence>>
    PROVE  ErasureInv'
<1> SUFFICES ASSUME Erasures \subseteq regime.alone PROVE ErasureInv'
  BY DEF ErasureInv, NobodyIsErasedInFlight, ErasureIsComplete
<1>1. \A v \in Workers :
         /\ requests'[v] # Idle => roles[requests'[v].user] # None
         /\ requests'[v].op = "share" => roles[requests'[v].to] # None
  BY IdleIsRequest DEF Continue, IInv, ErasureInv, NobodyIsErasedInFlight, Ops
<1>2. tenant = "erased" => \A v \in Workers : requests'[v] = Idle
  BY DEF Continue, IInv, ErasureInv, NobodyIsErasedInFlight
<1> QED
  BY <1>1, <1>2 DEF IInv, ErasureInv, NobodyIsErasedInFlight, ErasureIsComplete

LEMMA SharedOnceKept ==
    ASSUME IInv, Continue, UNCHANGED <<grants, regime>>
    PROVE  SharedOnce'
<1>1. "share" \in Ops
  BY DEF Ops
<1>2. \A u \in Users : Resolves(u)' <=> Resolves(u)
  BY DEF Resolves
<1>3. ASSUME NEW w \in Workers, requests'[w].op = "share"
      PROVE  /\ requests[w].op = "share" /\ requests'[w].to = requests[w].to
             /\ requests[w].to \in Users
  BY <1>1, <1>3, IdleIsRequest DEF Continue, IInv, RequestsCarry, Carries
<1>4. None \notin Users /\ Idle.to = None
  BY SharingAssumption DEF Idle
<1>5. ASSUME regime.once, NEW w \in Workers, requests'[w].op = "share"
      PROVE  /\ grants[requests'[w].to] = <<>>
             /\ \A v \in Workers \ {w} : requests'[v].to # requests'[w].to
  BY <1>3, <1>4, <1>5 DEF Continue, IInv, GrantsInv, SharedOnce
<1> QED
  BY <1>2, <1>5 DEF IInv, GrantsInv, SharedOnce

\* Access that nothing lowers is held.
LEMMA AccessKept ==
    ASSUME IInv, Continue, regime' = regime,
           Erasures \subseteq regime.alone /\ regime.once =>
               \A v \in Workers, u \in Users :
                   /\ requests[v].op \in DOMAIN Needed /\ requests'[v] # Idle
                   /\ requests[v].user = u
                   => NoteLevel(u)' >= NoteLevel(u),
           \A u \in Users : NoteLevel(u) \in Nat /\ NoteLevel(u)' \in Nat
    PROVE  AccessHeldUntilCommit'
<1> SUFFICES ASSUME Erasures \subseteq regime.alone, regime.once,
                    NEW w \in Workers, requests'[w].op \in DOMAIN Needed,
                    NEW u, u = requests'[w].user
             PROVE  NoteLevel(u)' >= Needed[requests'[w].op]
  BY DEF AccessHeldUntilCommit
<1>1. None \notin DOMAIN Needed /\ \A op \in DOMAIN Needed : Needed[op] \in Nat
  BY SharingAssumption DEF Needed, Ops, ReadLevel, WriteLevel, AdminLevel
<1>2. requests'[w] # Idle /\ requests[w] # Idle
      /\ requests'[w].op = requests[w].op /\ requests'[w].user = requests[w].user
      /\ requests[w].user \in Users
  BY <1>1, IdleIsRequest DEF Continue, IInv, RequestsCarry, Carries
<1>3. NoteLevel(u) >= Needed[requests[w].op]
  BY <1>2 DEF IInv, GrantsInv, AccessHeldUntilCommit
<1> QED
  BY <1>1, <1>2, <1>3

LEMMA LevelType ==
    /\ TypeOK  => \A u \in Users : NoteLevel(u) \in Levels
    /\ TypeOK' => \A u \in Users : NoteLevel(u)' \in Levels
<1> USE DEF NoteLevel, Combined, Combine, Granted, ReadLevel, AdminLevel, Levels
<1>1. ASSUME TypeOK, NEW u \in Users PROVE NoteLevel(u) \in Levels
  <2>1. ShareLevel(u) \in Levels
    BY <1>1, ElementOfSeq DEF TypeOK, ShareLevel
  <2> QED
    BY <2>1
<1>2. ASSUME TypeOK', NEW u \in Users PROVE NoteLevel(u)' \in Levels
  <2>1. ShareLevel(u)' \in Levels
    BY <1>2, ElementOfSeq DEF TypeOK, ShareLevel
  <2> QED
    BY <2>1
<1> QED
  BY <1>1, <1>2

LEMMA GrantsKept ==
    ASSUME IInv, TypeOK', Continue, UNCHANGED <<roles, note, grants, regime>>
    PROVE  GrantsInv'
<1>1. \A u \in Users : NoteLevel(u)' = NoteLevel(u) /\ NoteLevel(u) \in Nat
  BY LevelType DEF NoteLevel, Resolves, ShareLevel, Levels, IInv
<1>2. \A v \in Workers : requests[v].op \in DOMAIN Needed => requests[v].user \in Users
  BY IdleIsRequest, SharingAssumption DEF IInv, RequestsCarry, Carries, Needed, Ops
<1> QED
  BY <1>1, <1>2, SharedOnceKept, AccessKept DEF GrantsInv

-----------------------------------------------------------------------------
(* A request begins.                                                       *)

LEMMA BeginStep ==
    ASSUME IInv, NEW w \in Workers, NEW q \in Request, Begin(w, q),
           q.stage # "idle", q.op \in Ops, q.user \in Users,
           q.stage = "ready" => q.op \notin {"operate", "presence"},
           IF q.op = "share"
           THEN /\ q.to \in Users /\ q.level # 0 /\ roles[q.to] # None
                /\ regime.once => NotSharedWith(q.to)
           ELSE q.to = None
    PROVE  IInv'
<1>1. /\ requests' = [requests EXCEPT ![w] = q] /\ requests[w] = Idle
      /\ UNCHANGED <<tenant, roles, note, grants, operations, presence, regime>>
      /\ requests \in [Workers -> Request]
  BY DEF Begin, IInv, TypeOK
<1>2. \A v \in Workers : requests'[v] = IF v = w THEN q ELSE requests[v]
  BY <1>1
<1>3. q # Idle /\ Carries(q)
  BY IdleIsRequest DEF Carries
<1>4. TypeOK'
  BY <1>1 DEF IInv, TypeOK
<1>5. RequestsCarry'
  BY <1>2, <1>3 DEF RequestsCarry, Carries, IInv
<1>6. AloneIsAlone'
  BY <1>1, <1>2 DEF AloneIsAlone, Begin
<1>7. LogInv'
  BY <1>1, <1>2, LogKept
<1>8. PresenceInv'
  <2>1. \A u \in Users : Inserting(u)' \subseteq Inserting(u)
    BY <1>2 DEF Inserting
  <2> QED
    BY <1>1, <2>1, PresenceKept
<1>9. ErasureInv'
  <2>1. roles[q.user] # None
    BY DEF Begin
  <2> QED
    BY <1>1, <1>2, <1>3, <2>1 DEF IInv, ErasureInv, NobodyIsErasedInFlight, ErasureIsComplete
<1>10. AccessHeldUntilCommit'
  <2>1. \A u : NoteLevel(u)' = NoteLevel(u)
    BY <1>1 DEF NoteLevel, Resolves, ShareLevel
  <2>2. q.op \in DOMAIN Needed => NoteLevel(q.user) >= Needed[q.op]
    BY DEF Begin
  <2> QED
    BY <1>1, <1>2, <2>1, <2>2 DEF IInv, GrantsInv, AccessHeldUntilCommit
<1>11. SharedOnce'
  <2> SUFFICES ASSUME regime.once PROVE SharedOnce'
    BY <1>1 DEF SharedOnce
  <2>1. \A u \in Users : Resolves(u)'
    BY <1>1 DEF Resolves, IInv, GrantsInv, SharedOnce
  <2>2. ASSUME NEW x \in Workers, requests'[x].op = "share"
        PROVE  /\ grants[requests'[x].to] = <<>>
               /\ \A v \in Workers \ {x} : requests'[v].to # requests'[x].to
    <3>1. CASE x = w
      BY <1>2, <2>2, <3>1 DEF NotSharedWith
    <3>2. CASE x # w
      <4>1. /\ requests'[x] = requests[x] /\ requests[x].to \in Users
            /\ grants[requests[x].to] = <<>>
            /\ \A v \in Workers \ {x} : requests[v].to # requests[x].to
        BY <1>2, <2>2, <3>2 DEF IInv, RequestsCarry, Carries, GrantsInv, SharedOnce
      <4>2. q.to # requests[x].to
        BY <4>1, SharingAssumption DEF NotSharedWith
      <4> QED
        BY <1>2, <4>1, <4>2
    <3> QED
      BY <3>1, <3>2
  <2> QED
    BY <1>1, <2>1, <2>2 DEF SharedOnce
<1> QED
  BY <1>4, <1>5, <1>6, <1>7, <1>8, <1>9, <1>10, <1>11 DEF IInv, GrantsInv

LEMMA StartSteps ==
    ASSUME IInv, NEW w \in Workers, NEW u \in Users,
           \/ CreateNoteStart(w, u) \/ ShareNoteStart(w, u) \/ DeleteNoteStart(w, u)
           \/ SubmitOperationStart(w, u) \/ UpdatePresenceStart(w, u)
           \/ EraseUserStart(w, u) \/ EraseOrganizationStart(w, u)
    PROVE  IInv'
<1>1. ASSUME NEW stage \in {"checked", "ready"}, NEW op \in Ops \ {"share"},
             Begin(w, [Idle EXCEPT !.stage = stage, !.op = op, !.user = u]),
             stage = "ready" => op \notin {"operate", "presence"}
      PROVE  IInv'
  <2> DEFINE q == [Idle EXCEPT !.stage = stage, !.op = op, !.user = u]
  <2>1. /\ q \in Request /\ q.stage = stage /\ q.op = op /\ q.user = u /\ q.to = None
    BY IdleIsRequest DEF Request, Idle
  <2>2. Begin(w, q)
    BY <1>1
  <2> HIDE DEF q
  <2> QED
    BY <1>1, <2>1, <2>2, BeginStep
<1>2. CASE ShareNoteStart(w, u)
  <2>1. PICK to \in Users, level \in Levels \ {0} :
            /\ roles[to] # None
            /\ regime.once => NotSharedWith(to)
            /\ Begin(w, [Idle EXCEPT !.stage = "ready", !.op = "share", !.user = u,
                                     !.to = to, !.level = level])
    BY <1>2 DEF ShareNoteStart
  <2> DEFINE q == [Idle EXCEPT !.stage = "ready", !.op = "share", !.user = u,
                               !.to = to, !.level = level]
  <2>2. /\ q \in Request /\ q.stage = "ready" /\ q.op = "share" /\ q.user = u
        /\ q.to = to /\ q.level = level
    BY IdleIsRequest DEF Request, Idle, Ops
  <2>3. Begin(w, q) /\ "share" \in Ops
    BY <2>1 DEF Ops
  <2> HIDE DEF q
  <2> QED
    BY <2>1, <2>2, <2>3, BeginStep
<1>3. CASE ~ ShareNoteStart(w, u)
  <2>1. {"create", "operate", "presence", "delete", "erase", "eraseOrg"}
            \subseteq Ops \ {"share"}
    BY DEF Ops
  <2> QED
    BY <1>1, <1>3, <2>1 DEF CreateNoteStart, DeleteNoteStart, SubmitOperationStart,
       UpdatePresenceStart, EraseUserStart, EraseOrganizationStart
<1> QED
  BY <1>2, <1>3

-----------------------------------------------------------------------------
(* A request reads what its write depends on.                              *)

\* The step of one request, from what it was to q.
LEMMA ContinueFacts ==
    ASSUME IInv, NEW w \in Workers, NEW q \in Request,
           requests' = [requests EXCEPT ![w] = q],
           \/ q = Idle
           \/ /\ requests[w] # Idle /\ q.op = requests[w].op /\ q.user = requests[w].user
              /\ q.to = requests[w].to /\ q.level = requests[w].level
    PROVE  /\ Continue /\ requests' \in [Workers -> Request]
           /\ \A v \in Workers : requests'[v] = IF v = w THEN q ELSE requests[v]
  BY DEF Continue, IInv, TypeOK

\* max_lamport.
LEMMA MaximumIsGreatest ==
    ASSUME IInv
    PROVE  /\ MaxLamport \in Nat
           /\ \A i \in 1 .. Len(operations) : operations[i].lamport <= MaxLamport
<1>1. /\ operations \in Seq(Operation) /\ Len(operations) \in Nat
      /\ DOMAIN operations = 1 .. Len(operations)
      /\ \A i \in 1 .. Len(operations) : operations[i] \in Operation
  BY DEF IInv, TypeOK
<1>2. CASE operations = <<>>
  BY <1>1, <1>2, EmptySeq DEF MaxLamport
<1>3. CASE operations # <<>>
  <2>1. /\ MaxLamport \in Lamports
        /\ \A k \in Lamports : k <= MaxLamport
    BY <1>3 DEF MaxLamport, IInv, LogInv, LogHasMaximum
  <2>2. Lamports \subseteq Nat
    BY <1>1 DEF Lamports, Operation
  <2>3. \A i \in 1 .. Len(operations) : operations[i].lamport \in Lamports
    BY <1>1 DEF Lamports
  <2> QED
    BY <2>1, <2>2, <2>3
<1> QED
  BY <1>2, <1>3

LEMMA ReadLamportStep ==
    ASSUME IInv, NEW w \in Workers, ReadLamport(w)
    PROVE  IInv'
<1> DEFINE q == [requests[w] EXCEPT !.stage = "ready", !.lamport = MaxLamport + 1,
                                    !.seen = Len(operations)]
<1>1. /\ requests[w] \in Request /\ Carries(requests[w]) /\ requests[w] # Idle
      /\ requests[w].op = "operate"
  BY IdleIsRequest DEF ReadLamport, IInv, TypeOK, RequestsCarry
<1>2. MaxLamport \in Nat /\ Len(operations) \in Nat
  BY MaximumIsGreatest DEF IInv, TypeOK
<1> DEFINE next == MaxLamport + 1
<1>3. next \in Nat /\ next # 0 /\ \A i \in 1 .. Len(operations) : operations[i].lamport < next
  <2>1. \A i \in 1 .. Len(operations) : operations[i].lamport \in Nat
    <3>1. \A i \in 1 .. Len(operations) : operations[i] \in Operation
      BY DEF IInv, TypeOK
    <3> QED
      BY <3>1 DEF Operation
  <2> QED
    BY <1>2, <2>1, MaximumIsGreatest
<1>4. requests' = [requests EXCEPT ![w] = q]
  BY DEF ReadLamport
<1>5. q = [requests[w] EXCEPT !.stage = "ready", !.lamport = next,
                              !.seen = Len(operations)]
  OBVIOUS
<1> HIDE DEF next, q
<1>6. /\ q \in Request /\ q.stage = "ready" /\ q.op = "operate" /\ q.lamport = next
      /\ q.user = requests[w].user /\ q.to = requests[w].to
      /\ q.level = requests[w].level /\ q.seen = Len(operations)
  BY <1>1, <1>2, <1>3, <1>5 DEF Request
<1>7. Continue /\ \A v \in Workers : requests'[v] = IF v = w THEN q ELSE requests[v]
  BY <1>1, <1>4, <1>6, ContinueFacts
<1>8. Carries(q) /\ Follows(q)
  BY <1>1, <1>2, <1>3, <1>6 DEF Carries, Follows
<1>9. UNCHANGED <<tenant, roles, note, grants, operations, presence, regime>>
  BY DEF ReadLamport
<1>10. TypeOK'
  BY <1>4, <1>6, <1>9 DEF IInv, TypeOK
<1>11. RequestsCarry'
  BY <1>7, <1>8 DEF RequestsCarry, Carries, IInv
<1>12. LogInv'
  BY <1>7, <1>8, <1>9, LogKept
<1>13. \A u \in Users : Inserting(u)' \subseteq Inserting(u)
  BY <1>6, <1>7 DEF Inserting
<1> QED
  BY <1>7, <1>9, <1>10, <1>11, <1>12, <1>13, AloneKept, PresenceKept, ErasureKept,
     GrantsKept DEF IInv

LEMMA ReadPresenceStep ==
    ASSUME IInv, NEW w \in Workers, ReadPresence(w)
    PROVE  IInv'
<1> DEFINE found == presence[requests[w].user] = 1
           q     == [requests[w] EXCEPT !.stage = "ready", !.found = found]
<1>1. /\ requests[w] \in Request /\ Carries(requests[w]) /\ requests[w] # Idle
      /\ requests[w].op = "presence" /\ requests[w].user \in Users
  BY IdleIsRequest DEF ReadPresence, IInv, TypeOK, RequestsCarry, Carries
<1>2. /\ requests' = [requests EXCEPT ![w] = q] /\ presence[requests[w].user] <= 1
      /\ requests[w].stage = "checked"
      /\ UNCHANGED <<tenant, roles, note, grants, operations, presence, regime>>
  BY DEF ReadPresence
<1>3. found \in BOOLEAN
  OBVIOUS
<1> HIDE DEF found
<1>4. /\ q \in Request /\ q.stage = "ready" /\ q.op = "presence" /\ q.found = found
      /\ q.user = requests[w].user /\ q.to = requests[w].to
      /\ q.level = requests[w].level
  BY <1>1, <1>3 DEF Request
<1> HIDE DEF q
<1>5. Continue /\ \A v \in Workers : requests'[v] = IF v = w THEN q ELSE requests[v]
  BY <1>1, <1>2, <1>4, ContinueFacts
<1>6. Carries(q)
  BY <1>1, <1>4 DEF Carries
<1>7. TypeOK'
  BY <1>2, <1>4 DEF IInv, TypeOK
<1>8. RequestsCarry'
  BY <1>5, <1>6 DEF RequestsCarry, Carries, IInv
<1>9. LogInv'
  BY <1>2, <1>4, <1>5, LogKept
<1>10. ASSUME NEW u \in Users
       PROVE  presence[u] = 0 \/ Inserting(u)' \subseteq Inserting(u)
  <2>1. presence[u] \in Nat
    <3>1. Cardinality(Workers) \in Nat
      BY InsertingIsFinite
    <3> QED
      BY <3>1 DEF IInv, TypeOK
  <2>2. CASE u # requests[w].user \/ found
    BY <1>4, <1>5, <2>2 DEF Inserting
  <2>3. CASE u = requests[w].user /\ ~ found
    BY <1>2, <2>1, <2>3 DEF found
  <2> QED
    BY <2>2, <2>3
<1>11. PresenceInv'
  <2>1. ASSUME NEW u \in Users
        PROVE  presence[u] + Cardinality(Inserting(u)') <= Cardinality(Workers)
    <3>1. /\ presence[u] \in Nat
          /\ Cardinality(Inserting(u)) \in Nat /\ Cardinality(Workers) \in Nat
          /\ presence[u] + Cardinality(Inserting(u)) <= Cardinality(Workers)
      BY InsertingIsFinite DEF IInv, TypeOK, PresenceInv, PresenceIsBounded
    <3>2. Inserting(u)' \in SUBSET Workers
      BY DEF Inserting
    <3>3. /\ Cardinality(Inserting(u)') \in Nat
          /\ Cardinality(Inserting(u)') <= Cardinality(Workers)
      BY <3>2, SharingAssumption, FS_Subset, FS_CardinalityType
    <3>4. CASE presence[u] = 0
      BY <3>1, <3>3, <3>4
    <3>5. CASE Inserting(u)' \subseteq Inserting(u)
      <4>1. Cardinality(Inserting(u)') <= Cardinality(Inserting(u))
        BY <3>5, InsertingIsFinite, FS_Subset
      <4> QED
        BY <3>1, <3>3, <4>1
    <3> QED
      BY <1>10, <3>4, <3>5
  <2>2. PresenceIsBounded'
    BY <1>2, <2>1 DEF PresenceIsBounded
  <2>3. PresenceIsFound'
    BY <1>2, <1>10 DEF PresenceIsFound, IInv, PresenceInv
  <2> QED
    BY <1>2, <2>2, <2>3 DEF PresenceInv, PresenceIsUpserted, IInv
<1> QED
  BY <1>2, <1>5, <1>7, <1>8, <1>9, <1>11, AloneKept, ErasureKept, GrantsKept DEF IInv

-----------------------------------------------------------------------------
(* A request ends.                                                         *)

LEMMA EndFacts ==
    ASSUME IInv, NEW w \in Workers, End(w), regime' = regime
    PROVE  /\ Continue /\ requests' \in [Workers -> Request]
           /\ \A v \in Workers : requests'[v] = IF v = w THEN Idle ELSE requests[v]
           /\ RequestsCarry' /\ AloneIsAlone'
           /\ \A u \in Users : Inserting(u)' = Inserting(u) \ {w}
<1>1. /\ Continue /\ requests' \in [Workers -> Request]
      /\ \A v \in Workers : requests'[v] = IF v = w THEN Idle ELSE requests[v]
  BY IdleIsRequest, ContinueFacts DEF End
<1>2. RequestsCarry'
  BY <1>1, IdleIsRequest DEF RequestsCarry, Carries, IInv
<1>3. \A u \in Users : Inserting(u)' = Inserting(u) \ {w}
  BY <1>1, IdleIsRequest DEF Inserting
<1> QED
  BY <1>1, <1>2, <1>3, AloneKept

\* Only a request that is not in the way of an erasure sees a live tenant.
LEMMA InFlightTenantLives ==
    ASSUME IInv, NEW w \in Workers, requests[w] # Idle, Erasures \subseteq regime.alone
    PROVE  tenant # "erased"
  BY DEF IInv, ErasureInv, NobodyIsErasedInFlight

LEMMA AbortStep ==
    ASSUME IInv, NEW w \in Workers, Abort(w)
    PROVE  IInv'
<1>1. End(w) /\ UNCHANGED <<tenant, roles, note, grants, operations, presence, regime>>
  BY DEF Abort
<1>2. TypeOK'
  BY <1>1, EndFacts DEF IInv, TypeOK
<1>3. LogInv'
  BY <1>1, EndFacts, IdleIsRequest, LogKept
<1> QED
  BY <1>1, <1>2, <1>3, EndFacts, PresenceKept, ErasureKept, GrantsKept DEF IInv

LEMMA CreateNoteStep ==
    ASSUME IInv, NEW w \in Workers, CreateNote(w)
    PROVE  IInv'
<1>1. /\ End(w) /\ UNCHANGED <<tenant, roles, grants, operations, presence, regime>>
      /\ note.status = "unused"
      /\ note' = [status |-> "live", owner |-> requests[w].user]
      /\ requests[w].user \in Users
  BY IdleIsRequest DEF CreateNote, IInv, RequestsCarry, Carries
<1>2. TypeOK'
  BY <1>1, EndFacts DEF IInv, TypeOK, Note
<1>3. LogInv'
  BY <1>1, EndFacts, IdleIsRequest, LogKept
<1>4. \A u \in Users : NoteLevel(u) \in Nat /\ NoteLevel(u)' \in Nat /\ NoteLevel(u) = 0
  BY <1>1, <1>2, LevelType DEF IInv, Levels, NoteLevel
<1>5. \A v \in Workers : requests[v].op \in DOMAIN Needed => requests[v].user \in Users
  BY IdleIsRequest, SharingAssumption DEF IInv, RequestsCarry, Carries, Needed, Ops
<1>6. AccessHeldUntilCommit'
  BY <1>1, <1>4, <1>5, EndFacts, AccessKept
<1> QED
  BY <1>1, <1>2, <1>3, <1>6, EndFacts, PresenceKept, ErasureKept, SharedOnceKept
  DEF IInv, GrantsInv

\* The only grant of a user takes nothing away.
LEMMA GrantRaises ==
    ASSUME IInv, NEW w \in Workers, ShareNote(w), regime.once, NEW u \in Users
    PROVE  NoteLevel(u)' >= NoteLevel(u)
<1> DEFINE q == requests[w]
<1>1. /\ q \in Request /\ q.to \in Users /\ q.level \in Levels \ {0}
      /\ grants \in [Users -> Seq(Levels \ {0})]
      /\ grants[q.to] = <<>>
      /\ grants' = [grants EXCEPT ![q.to] = Append(@, q.level)]
      /\ UNCHANGED <<roles, note>>
  BY DEF ShareNote, IInv, TypeOK, RequestsCarry, Carries, GrantsInv, SharedOnce, Request
<1>2. NoteLevel(u) \in Levels
  BY LevelType DEF IInv
<1>3. CASE u # q.to
  <2>1. grants'[u] = grants[u]
    BY <1>1, <1>3
  <2>2. NoteLevel(u)' = NoteLevel(u)
    BY <1>1, <2>1 DEF NoteLevel, Resolves, ShareLevel
  <2> QED
    BY <1>2, <2>2 DEF Levels
<1>4. CASE u = q.to
  <2>1. grants'[u] = <<q.level>>
    BY <1>1, <1>4
  <2>2. ShareLevel(u) = 0 /\ ShareLevel(u)' = q.level
    BY <1>1, <1>4, <2>1 DEF ShareLevel
  <2>3. Resolves(u) /\ Resolves(u)'
    BY <1>1, <1>4, <2>1 DEF Resolves
  <2> QED
    BY <1>1, <2>2, <2>3 DEF NoteLevel, Combined, Combine, Granted, ReadLevel,
       AdminLevel, Levels
<1> QED
  BY <1>3, <1>4

LEMMA ShareNoteStep ==
    ASSUME IInv, NEW w \in Workers, ShareNote(w)
    PROVE  IInv'
<1> DEFINE q == requests[w]
<1>1. /\ End(w) /\ UNCHANGED <<tenant, roles, note, operations, presence, regime>>
      /\ grants' = [grants EXCEPT ![q.to] = Append(@, q.level)]
      /\ q \in Request /\ q # Idle /\ q.op = "share"
      /\ q.to \in Users /\ q.level \in Levels \ {0}
      /\ grants \in [Users -> Seq(Levels \ {0})]
  BY IdleIsRequest DEF ShareNote, IInv, TypeOK, RequestsCarry, Carries, Request
<1>2. grants' \in [Users -> Seq(Levels \ {0})]
  <2>1. Append(grants[q.to], q.level) \in Seq(Levels \ {0})
    BY <1>1, AppendProperties
  <2> QED
    BY <1>1, <2>1
<1>3. TypeOK'
  BY <1>1, <1>2, EndFacts DEF IInv, TypeOK
<1>4. LogInv'
  BY <1>1, EndFacts, IdleIsRequest, LogKept
<1>5. ErasureInv'
  <2>1. ASSUME Erasures \subseteq regime.alone PROVE roles[q.to] # None
    BY <1>1, <2>1 DEF IInv, ErasureInv, NobodyIsErasedInFlight
  <2> QED
    BY <1>1, <2>1, EndFacts, ErasureKept
<1>6. SharedOnce'
  <2> SUFFICES ASSUME regime.once PROVE SharedOnce'
    BY <1>1 DEF SharedOnce
  <2>1. grants[q.to] = <<>> /\ grants'[q.to] = <<q.level>>
    <3>1. grants[q.to] = <<>>
      BY <1>1 DEF IInv, GrantsInv, SharedOnce
    <3> QED
      BY <1>1, <3>1
  <2>2. \A u \in Users \ {q.to} : grants'[u] = grants[u]
    BY <1>1
  <2>3. \A u \in Users : Resolves(u)'
    <3>1. Len(<<q.level>>) = 1
      OBVIOUS
    <3>2. \A u \in Users : Len(grants[u]) <= 1
      BY DEF IInv, GrantsInv, SharedOnce, Resolves
    <3>3. \A u \in Users : grants'[u] = grants[u] \/ grants'[u] = <<q.level>>
      BY <2>1, <2>2
    <3>4. ASSUME NEW u \in Users PROVE Len(grants'[u]) <= 1
      <4>1. CASE grants'[u] = grants[u]
        BY <3>2, <4>1
      <4>2. CASE grants'[u] = <<q.level>>
        <5>1. Len(grants'[u]) = 1
          BY <3>1, <4>2, Zenon
        <5> QED
          BY <5>1
      <4> QED
        BY <3>3, <4>1, <4>2
    <3> QED
      BY <3>4 DEF Resolves
  <2>4. ASSUME NEW x \in Workers, requests'[x].op = "share"
        PROVE  /\ grants'[requests'[x].to] = <<>>
               /\ \A v \in Workers \ {x} : requests'[v].to # requests'[x].to
    <3>1. x # w /\ requests'[x] = requests[x]
      BY <1>1, <2>4, EndFacts, IdleIsRequest DEF Ops
    <3>2. /\ requests[x].to \in Users \ {q.to} /\ grants[requests[x].to] = <<>>
          /\ \A v \in Workers \ {x} : requests[v].to # requests[x].to
      BY <2>4, <3>1 DEF IInv, RequestsCarry, Carries, GrantsInv, SharedOnce
    <3>3. Idle.to # requests[x].to
      BY <3>2, SharingAssumption DEF Idle
    <3> QED
      BY <1>1, <2>2, <3>1, <3>2, <3>3, EndFacts
  <2> QED
    BY <1>1, <2>3, <2>4 DEF SharedOnce
<1>7. AccessHeldUntilCommit'
  <2>1. \A u \in Users : NoteLevel(u) \in Nat /\ NoteLevel(u)' \in Nat
    BY <1>3, LevelType DEF IInv, Levels
  <2>2. \A v \in Workers : requests[v].op \in DOMAIN Needed => requests[v].user \in Users
    BY IdleIsRequest, SharingAssumption DEF IInv, RequestsCarry, Carries, Needed, Ops
  <2> QED
    BY <1>1, <2>1, <2>2, EndFacts, GrantRaises, AccessKept
<1> QED
  BY <1>1, <1>3, <1>4, <1>5, <1>6, <1>7, EndFacts, PresenceKept DEF IInv, GrantsInv

\* Nothing else is in flight when what is issued alone ends.
LEMMA AloneEnds ==
    ASSUME IInv, NEW w \in Workers, End(w), regime' = regime,
           Erasures \subseteq regime.alone, requests[w].op \in Erasures
    PROVE  \A v \in Workers : requests'[v] = Idle
  BY EndFacts DEF IInv, AloneIsAlone

LEMMA DeleteNoteStep ==
    ASSUME IInv, NEW w \in Workers, DeleteNote(w)
    PROVE  IInv'
<1>1. /\ End(w) /\ UNCHANGED <<tenant, roles, grants, operations, presence, regime>>
      /\ note' = [note EXCEPT !.status = "deleted"] /\ requests[w].op \in Erasures
  BY DEF DeleteNote, Erasures
<1>2. TypeOK'
  BY <1>1, EndFacts DEF IInv, TypeOK, Note
<1>3. LogInv'
  BY <1>1, EndFacts, IdleIsRequest, LogKept
<1>4. AccessHeldUntilCommit'
  BY <1>1, <1>2, EndFacts, AloneEnds, AccessKept, LevelType DEF IInv, Levels
<1> QED
  BY <1>1, <1>2, <1>3, <1>4, EndFacts, PresenceKept, ErasureKept, SharedOnceKept
  DEF IInv, GrantsInv

LEMMA SubmitOperationStep ==
    ASSUME IInv, NEW w \in Workers, SubmitOperation(w)
    PROVE  IInv'
<1> DEFINE q   == requests[w]
           row == [lamport |-> q.lamport, seen |-> q.seen]
<1>1. /\ End(w) /\ UNCHANGED <<tenant, roles, note, grants, presence, regime>>
      /\ operations' = Append(operations, row)
      /\ q \in Request /\ q # Idle /\ q.stage = "ready" /\ q.op = "operate"
      /\ q.lamport \in Nat \ {0} /\ q.seen \in Nat
      /\ operations \in Seq(Operation)
  BY IdleIsRequest DEF SubmitOperation, IInv, TypeOK, RequestsCarry, Carries, Request
<1>2. row \in Operation /\ row.lamport = q.lamport /\ row.seen = q.seen
  BY <1>1 DEF Operation
<1>3. \A i \in 1 .. Len(operations) : operations[i] \in Operation
  BY <1>1
<1> DEFINE n == Len(operations)
<1>4. /\ operations' \in Seq(Operation) /\ Len(operations') = n + 1 /\ n \in Nat
      /\ DOMAIN operations = 1 .. n /\ DOMAIN operations' = 1 .. n + 1
      /\ operations'[n + 1] = row
      /\ \A i \in 1 .. n : operations'[i] = operations[i]
  BY <1>1, <1>2, AppendProperties, LenProperties
<1> HIDE DEF row, n
<1>5. TypeOK'
  BY <1>1, <1>4, EndFacts DEF IInv, TypeOK
<1>6. LogHasMaximum'
  <2>1. MaxLamport \in Nat /\ \A i \in 1 .. n : operations[i].lamport <= MaxLamport
    BY MaximumIsGreatest DEF n
  <2>2. \A i \in 1 .. n + 1 : operations'[i].lamport \in Nat
    <3>1. \A i \in 1 .. n + 1 : operations'[i] \in Operation
      BY <1>4
    <3> QED
      BY <3>1 DEF Operation
  <2>3. ASSUME NEW j \in 1 .. n + 1,
               \A i \in 1 .. n + 1 : operations'[i].lamport <= operations'[j].lamport
        PROVE  LogHasMaximum'
    BY <1>4, <2>3 DEF LogHasMaximum, Lamports
  <2>4. CASE n = 0
    <3>1. \A i \in 1 .. n + 1 : i = 1
      BY <2>4
    <3> QED
      BY <1>4, <2>2, <2>3, <2>4, <3>1
  <2>5. CASE n # 0
    <3>1. operations # <<>>
      BY <1>4, <2>5
    <3>2. MaxLamport \in Lamports
      BY <3>1 DEF MaxLamport, IInv, LogInv, LogHasMaximum
    <3>3. PICK j \in 1 .. n : operations[j].lamport = MaxLamport
      BY <1>4, <3>2 DEF Lamports
    <3>4. CASE row.lamport <= MaxLamport
      <4>1. j \in 1 .. n + 1
        BY <1>4
      <4>2. \A i \in 1 .. n + 1 : i \in 1 .. n \/ i = n + 1
        BY <1>4
      <4> QED
        BY <1>4, <2>1, <2>3, <3>3, <3>4, <4>1, <4>2
    <3>5. CASE row.lamport > MaxLamport
      <4>1. n + 1 \in 1 .. n + 1 /\ row.lamport \in Nat
        BY <1>1, <1>2, <1>4
      <4>2. ASSUME NEW i \in 1 .. n + 1
            PROVE  operations'[i].lamport <= operations'[n + 1].lamport
        <5>1. CASE i \in 1 .. n
          <6>1. operations'[i].lamport <= MaxLamport /\ operations'[i].lamport \in Nat
            BY <1>4, <2>1, <2>2, <5>1
          <6> QED
            BY <1>4, <2>1, <3>5, <4>1, <6>1
        <5>2. CASE i = n + 1
          BY <2>2, <5>2
        <5> QED
          BY <1>4, <5>1, <5>2
      <4> QED
        BY <2>3, <4>1, <4>2
    <3> QED
      BY <1>1, <1>2, <2>1, <3>4, <3>5
  <2> QED
    BY <2>4, <2>5
<1>7. ASSUME tenant = "live"
      PROVE  /\ \A v \in Workers :
                    requests'[v].stage = "ready" /\ requests'[v].op = "operate"
                        => Follows(requests[v])'
             /\ \A j \in 1 .. n + 1 :
                    /\ operations'[j].seen < j
                    /\ \A i \in 1 .. operations'[j].seen :
                           operations'[i].lamport < operations'[j].lamport
  <2>1. Follows(q)
    BY <1>1, <1>7 DEF IInv, LogInv, TimestampsFollow
  <2>2. ASSUME NEW v \in Workers,
               requests'[v].stage = "ready", requests'[v].op = "operate"
        PROVE  Follows(requests[v])'
    <3>1. requests'[v] = requests[v] /\ requests[v] \in Request
      BY <1>1, <2>2, EndFacts, IdleIsRequest DEF IInv, TypeOK
    <3>2. Follows(requests[v]) /\ requests[v].seen \in Nat
      BY <1>7, <2>2, <3>1 DEF IInv, LogInv, TimestampsFollow, Request
    <3>3. /\ requests[v].seen <= n
          /\ \A i \in 1 .. requests[v].seen : operations[i].lamport < requests[v].lamport
      BY <3>2 DEF Follows, n
    <3>4. \A i \in 1 .. requests[v].seen : i \in 1 .. n
      BY <1>4, <3>2, <3>3
    <3> QED
      BY <1>4, <3>1, <3>2, <3>3, <3>4 DEF Follows
  <2>3. ASSUME NEW j \in 1 .. n + 1
        PROVE  /\ operations'[j].seen < j
               /\ \A i \in 1 .. operations'[j].seen :
                      operations'[i].lamport < operations'[j].lamport
    <3>1. CASE j \in 1 .. n
      <4>1. operations'[j] = operations[j] /\ operations[j].seen \in Nat
        BY <1>3, <1>4, <3>1 DEF Operation, n
      <4>2. /\ operations[j].seen < j
            /\ \A i \in 1 .. operations[j].seen :
                   operations[i].lamport < operations[j].lamport
        BY <1>4, <1>7, <3>1
        DEF IInv, LogInv, SeenPrecede, OperationsFollowWhatTheySaw
      <4>3. \A i \in 1 .. operations[j].seen : i \in 1 .. n
        BY <1>4, <3>1, <4>1, <4>2
      <4> QED
        BY <1>4, <4>1, <4>2, <4>3
    <3>2. CASE j = n + 1
      <4>1. /\ row.seen <= n
            /\ \A i \in 1 .. row.seen : operations[i].lamport < row.lamport
        BY <1>2, <2>1 DEF Follows, n
      <4>2. row.seen \in Nat /\ row.seen < n + 1
        BY <1>1, <1>2, <1>4, <4>1
      <4>3. \A i \in 1 .. row.seen : i \in 1 .. n
        BY <1>4, <4>1, <4>2
      <4> QED
        BY <1>4, <3>2, <4>1, <4>2, <4>3
    <3> QED
      BY <1>4, <3>1, <3>2
  <2> QED
    BY <2>2, <2>3
<1>8. LogInv'
  BY <1>1, <1>4, <1>6, <1>7
  DEF LogInv, TimestampsFollow, SeenPrecede, OperationsFollowWhatTheySaw
<1> QED
  BY <1>1, <1>5, <1>8, EndFacts, InFlightTenantLives, PresenceKept, ErasureKept,
     GrantsKept DEF IInv

LEMMA UpdatePresenceStep ==
    ASSUME IInv, NEW w \in Workers, UpdatePresence(w)
    PROVE  IInv'
<1> DEFINE q == requests[w]
<1>1. /\ End(w) /\ UNCHANGED <<tenant, roles, note, grants, operations, regime>>
      /\ q # Idle /\ q.stage = "ready" /\ q.op = "presence" /\ q.user \in Users
      /\ presence' = IF q.found THEN presence
                     ELSE [presence EXCEPT ![q.user] = @ + 1]
  BY IdleIsRequest DEF UpdatePresence, IInv, RequestsCarry, Carries
<1>2. Cardinality(Workers) \in Nat
  BY InsertingIsFinite
<1>3. presence \in [Users -> 0 .. Cardinality(Workers)]
  BY DEF IInv, TypeOK
<1>4. ASSUME NEW u \in Users
      PROVE  /\ Inserting(u)' = Inserting(u) \ {w}
             /\ Cardinality(Inserting(u)') \in Nat
             /\ presence'[u] \in Nat
             /\ presence'[u] + Cardinality(Inserting(u)') <= Cardinality(Workers)
  <2>1. Inserting(u)' = Inserting(u) \ {w}
    BY <1>1, EndFacts
  <2>2. /\ Cardinality(Inserting(u)) \in Nat /\ presence[u] \in Nat
        /\ presence[u] + Cardinality(Inserting(u)) <= Cardinality(Workers)
    BY <1>2, <1>3, InsertingIsFinite DEF IInv, PresenceInv, PresenceIsBounded
  <2>3. /\ Cardinality(Inserting(u)') \in Nat
        /\ Cardinality(Inserting(u)') = IF w \in Inserting(u)
                                        THEN Cardinality(Inserting(u)) - 1
                                        ELSE Cardinality(Inserting(u))
    <3>1. IsFiniteSet(Inserting(u)) /\ IsFiniteSet(Inserting(u) \ {w})
      BY InsertingIsFinite, FS_RemoveElement
    <3> QED
      BY <2>1, <3>1, FS_RemoveElement, FS_CardinalityType
  <2>4. CASE w \in Inserting(u)
    <3>1. u = q.user /\ ~ q.found
      BY <2>4 DEF Inserting
    <3>2. presence'[u] = presence[u] + 1
      BY <1>1, <1>3, <3>1
    <3> QED
      BY <1>2, <2>1, <2>2, <2>3, <2>4, <3>2
  <2>5. CASE w \notin Inserting(u)
    <3>1. u # q.user \/ q.found
      BY <1>1, <2>5 DEF Inserting
    <3>2. presence'[u] = presence[u]
      BY <1>1, <1>3, <3>1
    <3> QED
      BY <1>2, <2>1, <2>2, <2>3, <2>5, <3>2
  <2> QED
    BY <2>4, <2>5
<1>5. TypeOK'
  <2>1. \A u \in Users : presence'[u] \in 0 .. Cardinality(Workers)
    BY <1>2, <1>4
  <2>2. presence' \in [Users -> 0 .. Cardinality(Workers)]
    BY <1>1, <1>3, <2>1
  <2> QED
    BY <1>1, <2>2, EndFacts DEF IInv, TypeOK
<1>6. LogInv'
  BY <1>1, EndFacts, IdleIsRequest, LogKept
<1>7. PresenceInv'
  <2>1. PresenceIsBounded'
    BY <1>4 DEF PresenceIsBounded
  <2>2. ASSUME "presence" \in regime.alone, NEW u \in Users
        PROVE  presence'[u] <= 1 /\ (presence'[u] = 0 \/ Inserting(u)' = {})
    <3>1. presence[u] \in Nat /\ presence[u] <= 1
      BY <1>2, <1>3, <2>2 DEF IInv, PresenceInv, PresenceIsUpserted
    <3>2. \A v \in Workers \ {w} : requests[v] = Idle
      BY <1>1, <2>2 DEF IInv, AloneIsAlone
    <3>3. Inserting(u)' = {}
      BY <1>4, <3>2, IdleIsRequest DEF Inserting
    <3>4. CASE u = q.user /\ ~ q.found
      <4>1. w \in Inserting(u)
        BY <1>1, <3>4 DEF Inserting
      <4>2. presence[u] = 0
        BY <2>2, <4>1 DEF IInv, PresenceInv, PresenceIsFound
      <4> QED
        BY <1>1, <1>3, <3>3, <3>4, <4>2
    <3>5. CASE u # q.user \/ q.found
      BY <1>1, <1>3, <3>1, <3>3, <3>5
    <3> QED
      BY <3>4, <3>5
  <2> QED
    BY <1>1, <2>1, <2>2 DEF PresenceInv, PresenceIsFound, PresenceIsUpserted
<1> QED
  BY <1>1, <1>5, <1>6, <1>7, EndFacts, InFlightTenantLives, ErasureKept, GrantsKept
  DEF IInv

LEMMA EraseUserStep ==
    ASSUME IInv, NEW w \in Workers, EraseUser(w)
    PROVE  IInv'
<1> DEFINE u == requests[w].user
<1>1. /\ End(w) /\ UNCHANGED <<tenant, note, operations, presence, regime>>
      /\ u \in Users /\ requests[w].op \in Erasures /\ requests[w] # Idle
      /\ roles' = [roles EXCEPT ![u] = None] /\ grants' = [grants EXCEPT ![u] = <<>>]
  BY IdleIsRequest DEF EraseUser, Without, Erasures, IInv, RequestsCarry, Carries
<1>2. /\ grants \in [Users -> Seq(Levels \ {0})] /\ <<>> \in Seq(Levels \ {0})
      /\ roles \in [Users -> Roles \cup {None}]
  BY DEF IInv, TypeOK
<1>3. TypeOK'
  BY <1>1, <1>2, EndFacts DEF IInv, TypeOK
<1>4. LogInv'
  BY <1>1, EndFacts, IdleIsRequest, LogKept
<1>5. ErasureInv'
  <2> SUFFICES ASSUME Erasures \subseteq regime.alone PROVE ErasureInv'
    BY <1>1 DEF ErasureInv, NobodyIsErasedInFlight, ErasureIsComplete
  <2>1. \A v \in Workers : requests'[v] = Idle
    BY <1>1, AloneEnds
  <2>2. tenant # "erased"
    BY <1>1, InFlightTenantLives
  <2>3. \A v \in Users : roles'[v] = None => grants'[v] = <<>>
    BY <1>1, <1>2 DEF IInv, ErasureInv, ErasureIsComplete
  <2> QED
    BY <1>1, <2>1, <2>2, <2>3, IdleIsRequest
    DEF ErasureInv, NobodyIsErasedInFlight, ErasureIsComplete, Ops
<1>6. SharedOnce'
  <2> SUFFICES ASSUME regime.once PROVE SharedOnce'
    BY <1>1 DEF SharedOnce
  <2>1. \A v \in Users : grants'[v] \in {grants[v], <<>>} /\ Len(<<>>) = 0
    BY <1>1, <1>2, EmptySeq
  <2>2. \A v \in Users : Len(grants'[v]) <= 1
    BY <2>1 DEF IInv, GrantsInv, SharedOnce, Resolves
  <2>3. ASSUME NEW x \in Workers, requests'[x].op = "share"
        PROVE  /\ grants'[requests'[x].to] = <<>>
               /\ \A v \in Workers \ {x} : requests'[v].to # requests'[x].to
    <3>1. requests'[x] = requests[x]
      BY <1>1, <2>3, EndFacts, IdleIsRequest DEF Ops
    <3>2. /\ requests[x].to \in Users /\ grants[requests[x].to] = <<>>
          /\ \A v \in Workers \ {x} : requests[v].to # requests[x].to
      BY <2>3, <3>1 DEF IInv, RequestsCarry, Carries, GrantsInv, SharedOnce
    <3>3. Idle.to # requests[x].to
      BY <3>2, SharingAssumption DEF Idle
    <3> QED
      BY <1>1, <2>1, <3>1, <3>2, <3>3, EndFacts
  <2> QED
    BY <1>1, <2>2, <2>3 DEF SharedOnce, Resolves
<1>7. AccessHeldUntilCommit'
  BY <1>1, <1>3, EndFacts, AloneEnds, AccessKept, LevelType DEF IInv, Levels
<1> QED
  BY <1>1, <1>3, <1>4, <1>5, <1>6, <1>7, EndFacts, PresenceKept DEF IInv, GrantsInv

LEMMA EraseOrganizationStep ==
    ASSUME IInv, NEW w \in Workers, EraseOrganization(w)
    PROVE  IInv'
<1>1. /\ End(w) /\ regime' = regime /\ tenant' = "erased"
      /\ requests[w].op \in Erasures
      /\ roles' = [u \in Users |-> None] /\ grants' = [u \in Users |-> <<>>]
      /\ operations' = <<>> /\ presence' = [u \in Users |-> 0]
      /\ note' = IF note.status = "unused" THEN note ELSE [note EXCEPT !.status = "gone"]
  BY DEF EraseOrganization, Erasures
<1>2. Cardinality(Workers) \in Nat /\ Len(<<>>) = 0
  BY InsertingIsFinite, EmptySeq
<1>3. TypeOK'
  <2>1. note' \in Note
    BY <1>1 DEF IInv, TypeOK, Note
  <2>2. presence' \in [Users -> 0 .. Cardinality(Workers)]
    BY <1>1, <1>2
  <2> QED
    BY <1>1, <2>1, <2>2, EndFacts DEF IInv, TypeOK
<1>4. LogInv'
  BY <1>1 DEF LogInv, LogHasMaximum, TimestampsFollow, SeenPrecede,
              OperationsFollowWhatTheySaw
<1>5. PresenceInv'
  <2>1. ASSUME NEW u \in Users
        PROVE  /\ presence'[u] = 0
               /\ presence'[u] + Cardinality(Inserting(u)') <= Cardinality(Workers)
    <3>1. Inserting(u)' \in SUBSET Workers
      BY DEF Inserting
    <3>2. /\ Cardinality(Inserting(u)') \in Nat
          /\ Cardinality(Inserting(u)') <= Cardinality(Workers)
      BY <3>1, SharingAssumption, FS_Subset, FS_CardinalityType
    <3> QED
      BY <1>1, <3>2
  <2> QED
    BY <2>1 DEF PresenceInv, PresenceIsBounded, PresenceIsFound, PresenceIsUpserted
<1>6. ErasureInv'
  <2> SUFFICES ASSUME Erasures \subseteq regime.alone PROVE ErasureInv'
    BY <1>1 DEF ErasureInv, NobodyIsErasedInFlight, ErasureIsComplete
  <2>1. \A v \in Workers : requests'[v] = Idle
    BY <1>1, AloneEnds
  <2> QED
    BY <1>1, <2>1, IdleIsRequest
    DEF ErasureInv, NobodyIsErasedInFlight, ErasureIsComplete, Ops
<1>7. SharedOnce'
  <2> SUFFICES ASSUME regime.once PROVE SharedOnce'
    BY <1>1 DEF SharedOnce
  <2>1. \A u \in Users : Len(grants'[u]) <= 1
    BY <1>1, <1>2
  <2>2. ASSUME NEW x \in Workers, requests'[x].op = "share"
        PROVE  /\ grants'[requests'[x].to] = <<>>
               /\ \A v \in Workers \ {x} : requests'[v].to # requests'[x].to
    <3>1. requests'[x] = requests[x]
      BY <1>1, <2>2, EndFacts, IdleIsRequest DEF Ops
    <3>2. /\ requests[x].to \in Users
          /\ \A v \in Workers \ {x} : requests[v].to # requests[x].to
      BY <2>2, <3>1 DEF IInv, RequestsCarry, Carries, GrantsInv, SharedOnce
    <3>3. Idle.to # requests[x].to
      BY <3>2, SharingAssumption DEF Idle
    <3> QED
      BY <1>1, <3>1, <3>2, <3>3, EndFacts
  <2> QED
    BY <1>1, <2>1, <2>2 DEF SharedOnce, Resolves
<1>8. AccessHeldUntilCommit'
  BY <1>1, <1>3, EndFacts, AloneEnds, AccessKept, LevelType DEF IInv, Levels
<1> QED
  BY <1>1, <1>3, <1>4, <1>5, <1>6, <1>7, <1>8, EndFacts DEF IInv, GrantsInv

-----------------------------------------------------------------------------
(* The theorems.                                                           *)

LEMMA NextIInv == IInv /\ [Next]_vars => IInv'
<1> SUFFICES ASSUME IInv, [Next]_vars PROVE IInv'
  OBVIOUS
<1>1. CASE UNCHANGED vars
  <2> USE <1>1 DEF vars
  <2>1. TypeOK' /\ RequestsCarry' /\ AloneIsAlone'
    BY DEF IInv, TypeOK, RequestsCarry, Carries, AloneIsAlone
  <2>2. Continue
    BY DEF Continue
  <2>3. LogInv'
    BY LogKept
  <2>4. PresenceInv'
    BY PresenceKept DEF Inserting
  <2> QED
    BY <2>1, <2>2, <2>3, <2>4, ErasureKept, GrantsKept DEF IInv
<1>2. ASSUME NEW w \in Workers,
             NoteRoutes(w) \/ CollabRoutes(w) \/ AdminRoutes(w) \/ Abort(w)
      PROVE  IInv'
  BY <1>2, StartSteps, ReadLamportStep, ReadPresenceStep, AbortStep, CreateNoteStep,
     ShareNoteStep, DeleteNoteStep, SubmitOperationStep, UpdatePresenceStep,
     EraseUserStep, EraseOrganizationStep
  DEF NoteRoutes, CollabRoutes, AdminRoutes
<1> QED
  BY <1>1, <1>2 DEF Next

LEMMA Invariance == Spec => []IInv
  BY InitIInv, NextIInv, PTL DEF Spec

\* However requests overlap, a second presence row needs two overlapping
\* updates of presence, an erasure that overlaps nothing leaves no grant and
\* no row behind, and whoever passed the check of access still has it at the
\* commit unless an erasure or a second grant overlaps.
THEOREM SharingStaysConsistent == Spec => []SharingIsConsistent
<1>1. IInv => SharingIsConsistent
  BY DEF IInv, SharingIsConsistent, PresenceInv, ErasureInv, GrantsInv
<1> QED
  BY <1>1, Invariance, PTL

\* The Lamport clock of submit_operation: an operation is timestamped after
\* every operation that was in the log when max_lamport was read, whatever
\* was written between that read and its own insert.
THEOREM TimestampsFollowTheLog == Spec => []OperationsFollowWhatTheySaw
<1>1. IInv => OperationsFollowWhatTheySaw
  BY DEF IInv, LogInv
<1> QED
  BY <1>1, Invariance, PTL

\* As long as a note is shared once with each user, no step that changes the
\* grants lowers what a user may do with it (note_permission takes a maximum).
THEOREM GrantsOnlyAdd == Spec => SharingNeverTakesAway
<1> DEFINE A == (regime.once /\ grants' # grants /\ tenant' = "live") =>
                    \A u \in Users : roles'[u] # None => NoteLevel(u)' >= NoteLevel(u)
<1>1. IInv /\ IInv' /\ [Next]_vars => [A]_vars
  <2> SUFFICES ASSUME IInv, IInv', [Next]_vars, regime.once, grants' # grants,
                      tenant' = "live", NEW u \in Users, roles'[u] # None
               PROVE  NoteLevel(u)' >= NoteLevel(u)
    OBVIOUS
  <2>0. PICK w \in Workers :
           NoteRoutes(w) \/ CollabRoutes(w) \/ AdminRoutes(w) \/ Abort(w)
    BY DEF Next, vars
  <2>1. ShareNote(w) \/ EraseUser(w) \/ EraseOrganization(w)
    <3>1. ~Abort(w)
      BY DEF Abort
    <3>2. ~CollabRoutes(w)
      BY DEF CollabRoutes, SubmitOperationStart, UpdatePresenceStart, Begin,
             ReadLamport, SubmitOperation, ReadPresence, UpdatePresence
    <3>3. NoteRoutes(w) => ShareNote(w)
      BY ZenonT(40) DEF NoteRoutes, CreateNoteStart, ShareNoteStart, DeleteNoteStart, Begin,
             CreateNote, DeleteNote
    <3>4. AdminRoutes(w) => EraseUser(w) \/ EraseOrganization(w)
      BY DEF AdminRoutes, EraseUserStart, EraseOrganizationStart, Begin
    <3> QED
      BY <2>0, <3>1, <3>2, <3>3, <3>4
  <2>2. CASE ShareNote(w)
    BY <2>2, GrantRaises
  <2>3. CASE EraseUser(w)
    <3>1. /\ requests[w].user # u /\ note' = note
          /\ grants'[u] = grants[u] /\ roles'[u] = roles[u]
      BY <2>3 DEF EraseUser, Without, IInv, TypeOK
    <3>2. NoteLevel(u)' = NoteLevel(u)
      BY <3>1 DEF NoteLevel, Resolves, ShareLevel
    <3> QED
      BY <3>2, LevelType DEF IInv, Levels
  <2>4. CASE EraseOrganization(w)
    BY <2>4 DEF EraseOrganization
  <2> QED
    BY <2>1, <2>2, <2>3, <2>4
<1> QED
  BY <1>1, Invariance, PTL DEF Spec, SharingNeverTakesAway

-----------------------------------------------------------------------------
(* The audit log of the same server, KimiAudit: shares, deletions and        *)
(* erasures are among the requests that record an event.  Its state is       *)
(* apart from the state above, and so is what is proved of it.               *)

CONSTANTS Events, Kinds

VARIABLES log, request, mutex, lock

Audit == INSTANCE KimiAudit

\* The hash of a row of the log, or that of the empty log.
ChainKnows(h) == h = << >> \/ \E i \in DOMAIN log : log[i].hash = h

\* AuditLog.record read the hash from the log (core/compliance.py); under the
\* write lock of its own request no row came after it.
Chaining(q) ==
    q.stage \in {"inserting", "recorded"} =>
        /\ ChainKnows(q.prev)
        /\ q.kind = "write" => q.prev = Audit!LastHash(log)

\* The write lock of the database is held from the first write of a request
\* to its commit: from the insert of the event, or before it read the head.
Excluding(q) ==
    \/ q.stage = "recorded"
    \/ q.kind = "write" /\ q.stage \in {"written", "chaining", "inserting"}

\* A request has a kind and an event from its start to its end.
Begun(q) ==
    /\ q.stage = "idle" => q = Audit!Idle
    /\ q.stage # "idle" => q.kind # None /\ q.event # None

\* What holds of each request.
AuditRequests ==
    \A w \in Workers :
        /\ Begun(request[w]) /\ Chaining(request[w])
        /\ Excluding(request[w]) => lock = w

\* An event is recorded once.
EventsDiffer ==
    /\ \A i, j \in DOMAIN log : log[i].event = log[j].event => i = j
    /\ \A w \in Workers : request[w].event # None =>
          /\ \A i \in DOMAIN log : log[i].event # request[w].event
          /\ \A v \in Workers \ {w} : request[v].event # request[w].event

\* Every row hashes its predecessor, which for a writing request is the last
\* row that was committed.
RowsChain ==
    \A i \in DOMAIN log :
        /\ log[i].hash = Append(log[i].prev, log[i].event)
        /\ log[i].kind = "write" =>
              log[i].prev = IF i = 1 THEN << >> ELSE log[i - 1].hash

\* The inductive invariant of the log.
AuditInv == Audit!LogIsSound /\ AuditRequests /\ EventsDiffer /\ RowsChain

\* A worker between two requests has no event and no kind.
LEMMA IdleRequest ==
    /\ Audit!Idle \in Audit!Request /\ Audit!Idle.stage = "idle"
    /\ Audit!Idle.kind = None /\ Audit!Idle.event = None
BY DEF Audit!Idle, Audit!Request, Audit!Hash

\* Nor does it hold a lock or a hash to chain to.
LEMMA IdleHasNothing == Begun(Audit!Idle) /\ Chaining(Audit!Idle) /\ ~ Excluding(Audit!Idle)
BY IdleRequest DEF Begun, Chaining, Excluding

\* An empty log.
LEMMA AuditStart ==
    ASSUME Audit!AuditAssumption, Audit!Init
    PROVE  AuditInv
<1>1. log = << >> /\ DOMAIN log = {}
  BY DEF Audit!Init
<1>2. Audit!LogIsSound
  <2>1. Audit!TypeOK
    BY IdleRequest DEF Audit!Init, Audit!TypeOK
  <2> QED
    BY <1>1, <2>1 DEF Audit!LogIsSound, Audit!OnlyExportsFork, Audit!NoDanglingPredecessor
<1>3. \A w \in Workers : request[w] = Audit!Idle
  BY DEF Audit!Init
<1>4. AuditRequests
  <2>1. Begun(Audit!Idle) /\ Chaining(Audit!Idle) /\ ~ Excluding(Audit!Idle)
    BY IdleHasNothing
  <2> QED
    BY <1>3, <2>1 DEF AuditRequests
<1> QED
  BY <1>1, <1>2, <1>3, <1>4, IdleRequest DEF AuditInv, EventsDiffer, RowsChain

\* A step that leaves the log alone.
LEMMA RequestTurns ==
    ASSUME Audit!AuditAssumption, AuditInv, NEW w \in Workers, NEW q \in Audit!Request,
           request' = [request EXCEPT ![w] = q], UNCHANGED log,
           mutex' \in Workers \cup {None}, lock' \in Workers \cup {None},
           Begun(q), Chaining(q), Excluding(q) => lock' = w,
           q.event = None \/ q.event = request[w].event \/ Audit!Fresh(q.event),
           \A v \in Workers \ {w} : lock = v => lock' = v
    PROVE  AuditInv'
<1>1. request \in [Workers -> Audit!Request]
  BY DEF AuditInv, Audit!LogIsSound, Audit!TypeOK
<1>2. request'[w] = q /\ \A v \in Workers \ {w} : request'[v] = request[v]
  BY <1>1
<1>3. Audit!LogIsSound'
  <2>1. Audit!TypeOK'
    BY <1>1 DEF AuditInv, Audit!LogIsSound, Audit!TypeOK
  <2> QED
    BY <2>1 DEF AuditInv, Audit!LogIsSound, Audit!OnlyExportsFork, Audit!NoDanglingPredecessor
<1>4. AuditRequests'
  <2> SUFFICES ASSUME NEW v \in Workers
               PROVE  /\ Begun(request'[v]) /\ Chaining(request[v])'
                      /\ Excluding(request'[v]) => lock' = v
    BY DEF AuditRequests, Begun, Excluding, Audit!Idle
  <2>1. CASE v = w
    <3>1. Chaining(request[v])'
      BY <1>2, <2>1 DEF Chaining, ChainKnows, Audit!LastHash
    <3> QED
      BY <1>2, <2>1, <3>1
  <2>2. CASE v # w
    <3>1. Chaining(request[v])'
      BY <1>2, <2>2 DEF AuditInv, AuditRequests, Chaining, ChainKnows, Audit!LastHash
    <3> QED
      BY <1>2, <2>2, <3>1 DEF AuditInv, AuditRequests
  <2> QED
    BY <2>1, <2>2
<1>5. EventsDiffer'
  <2>1. \A v \in Workers \ {w} : q.event # None => request[v].event # q.event
    BY DEF AuditInv, EventsDiffer, Audit!Fresh
  <2>2. \A i \in DOMAIN log : q.event # None => log[i].event # q.event
    BY DEF AuditInv, EventsDiffer, Audit!Fresh
  <2>3. ASSUME NEW v \in Workers, request'[v].event # None
        PROVE  /\ \A i \in DOMAIN log : log[i].event # request'[v].event
               /\ \A x \in Workers \ {v} : request'[x].event # request'[v].event
    <3>1. CASE v = w
      BY <1>2, <2>1, <2>2, <2>3, <3>1
    <3>2. CASE v # w
      BY <1>2, <2>1, <2>3, <3>2 DEF AuditInv, EventsDiffer
    <3> QED
      BY <3>1, <3>2
  <2> QED
    BY <2>3 DEF AuditInv, EventsDiffer
<1>6. RowsChain'
  BY DEF AuditInv, RowsChain
<1> QED
  BY <1>3, <1>4, <1>5, <1>6 DEF AuditInv

\* What the invariant says of one request.
LEMMA AuditFacts ==
    ASSUME Audit!AuditAssumption, AuditInv, NEW w \in Workers
    PROVE  /\ request[w] \in Audit!Request /\ Begun(request[w]) /\ Chaining(request[w])
           /\ Excluding(request[w]) => lock = w
           /\ mutex \in Workers \cup {None} /\ lock \in Workers \cup {None}
           /\ log \in Seq(Audit!Entry)
BY DEF AuditInv, AuditRequests, Audit!LogIsSound, Audit!TypeOK

\* The hash to chain to is known.
LEMMA HeadIsKnown ==
    ASSUME Audit!AuditAssumption, AuditInv
    PROVE  Audit!LastHash(log) \in Audit!Hash /\ ChainKnows(Audit!LastHash(log))
<1>1. log \in Seq(Audit!Entry)
  BY DEF AuditInv, Audit!LogIsSound, Audit!TypeOK
<1>2. CASE log = << >>
  BY <1>2 DEF Audit!LastHash, ChainKnows, Audit!Hash
<1>3. CASE log # << >>
  <2>1. Len(log) \in DOMAIN log /\ log[Len(log)] \in Audit!Entry
    BY <1>1, <1>3, LenProperties, ElementOfSeq, EmptySeq
  <2> QED
    BY <1>3, <2>1 DEF Audit!LastHash, ChainKnows, Audit!Entry
<1> QED
  BY <1>2, <1>3

\* Every step of a request before its commit, and its rollback.
LEMMA RequestSteps ==
    ASSUME Audit!AuditAssumption, AuditInv, NEW w \in Workers,
           \/ \E kind \in Kinds, e \in Events : Audit!Begin(w, kind, e)
           \/ Audit!Write(w) \/ Audit!Acquire(w) \/ Audit!ReadHead(w) \/ Audit!Insert(w)
           \/ Audit!Abort(w) \/ Audit!Timeout(w)
    PROVE  AuditInv'
<1>0. PICK r \in Audit!Request : r = request[w]
  BY AuditFacts
<1>1. /\ Begun(r) /\ Chaining(r)
      /\ Excluding(r) => lock = w
      /\ mutex \in Workers \cup {None} /\ lock \in Workers \cup {None}
      /\ None \notin Workers
  BY <1>0, AuditFacts DEF Audit!AuditAssumption
<1>2. CASE \E kind \in Kinds, e \in Events : Audit!Begin(w, kind, e)
  <2>1. PICK kind \in Kinds, e \in Events : Audit!Begin(w, kind, e)
    BY <1>2
  <2> DEFINE q == [Audit!Idle EXCEPT !.stage = "serving", !.kind = kind, !.event = e]
  <2>2. /\ q \in Audit!Request /\ q.stage = "serving" /\ q.kind = kind /\ q.event = e
    BY IdleRequest DEF Audit!Idle, Audit!Request
  <2>3. request' = [request EXCEPT ![w] = q] /\ Audit!Fresh(e) /\ UNCHANGED <<log, mutex, lock>>
    BY <2>1 DEF Audit!Begin
  <2> HIDE DEF q
  <2>4. kind # None /\ e # None
    BY DEF Audit!AuditAssumption
  <2>5. Begun(q) /\ Chaining(q) /\ ~ Excluding(q)
    BY <2>2, <2>4 DEF Begun, Chaining, Excluding
  <2> QED
    BY <1>1, <2>2, <2>3, <2>5, <1>0, RequestTurns
<1>3. CASE Audit!Write(w)
  <2> DEFINE q == [r EXCEPT !.stage = "written"]
  <2>1. /\ q \in Audit!Request /\ q.stage = "written" /\ q.kind = r.kind /\ q.event = r.event
    BY DEF Audit!Request
  <2>2. /\ request' = [request EXCEPT ![w] = q] /\ UNCHANGED <<log, mutex>>
        /\ lock = None /\ lock' = w /\ r.stage = "serving"
    BY <1>0, <1>3 DEF Audit!Write, Audit!Advance
  <2> HIDE DEF q
  <2>3. Begun(q) /\ Chaining(q)
    BY <1>1, <2>1, <2>2 DEF Begun, Chaining
  <2> QED
    BY <1>1, <2>1, <2>2, <2>3, <1>0, RequestTurns
<1>4. CASE Audit!Acquire(w)
  <2> DEFINE q == [r EXCEPT !.stage = "chaining"]
  <2>1. /\ q \in Audit!Request /\ q.stage = "chaining" /\ q.kind = r.kind /\ q.event = r.event
    BY DEF Audit!Request
  <2>2. /\ request' = [request EXCEPT ![w] = q] /\ UNCHANGED <<log, lock>> /\ mutex' = w
        /\ r.stage = IF r.kind = "write" THEN "written" ELSE "serving"
    BY <1>0, <1>4 DEF Audit!Acquire, Audit!Advance
  <2> HIDE DEF q
  <2>3. Begun(q) /\ Chaining(q) /\ (Excluding(q) => lock = w)
    BY <1>1, <2>1, <2>2 DEF Begun, Chaining, Excluding
  <2> QED
    BY <1>1, <2>1, <2>2, <2>3, <1>0, RequestTurns
<1>5. CASE Audit!ReadHead(w)
  <2>1. PICK h \in Audit!Hash : h = Audit!LastHash(log) /\ ChainKnows(h)
    BY HeadIsKnown
  <2> DEFINE q == [r EXCEPT !.stage = "inserting", !.prev = h]
  <2>2. /\ q \in Audit!Request /\ q.stage = "inserting" /\ q.kind = r.kind /\ q.event = r.event
        /\ q.prev = h
    BY DEF Audit!Request
  <2>3. /\ request' = [request EXCEPT ![w] = q] /\ UNCHANGED <<log, mutex, lock>>
        /\ r.stage = "chaining"
    BY <1>0, <1>5, <2>1 DEF Audit!ReadHead, Audit!Visible
  <2> HIDE DEF q
  <2>4. Begun(q) /\ Chaining(q) /\ (Excluding(q) => lock = w)
    BY <1>1, <2>1, <2>2, <2>3 DEF Begun, Chaining, Excluding
  <2> QED
    BY <1>1, <2>2, <2>3, <2>4, <1>0, RequestTurns
<1>6. CASE Audit!Insert(w)
  <2> DEFINE q == [r EXCEPT !.stage = "recorded"]
  <2>1. /\ q \in Audit!Request /\ q.stage = "recorded" /\ q.kind = r.kind /\ q.event = r.event
        /\ q.prev = r.prev
    BY DEF Audit!Request
  <2>2. /\ request' = [request EXCEPT ![w] = q] /\ UNCHANGED log /\ mutex' = None
        /\ lock \in {None, w} /\ lock' = w /\ r.stage = "inserting"
    BY <1>0, <1>6 DEF Audit!Insert, Audit!Advance
  <2> HIDE DEF q
  <2>3. Begun(q) /\ Chaining(q)
    BY <1>1, <2>1, <2>2 DEF Begun, Chaining
  <2> QED
    BY <1>1, <2>1, <2>2, <2>3, <1>0, RequestTurns
<1>7. CASE Audit!Abort(w) \/ Audit!Timeout(w)
  <2>1. /\ request' = [request EXCEPT ![w] = Audit!Idle] /\ UNCHANGED log
        /\ mutex' = Audit!Released(mutex, w) /\ lock' = Audit!Released(lock, w)
    BY <1>7 DEF Audit!Abort, Audit!Timeout, Audit!Fail
  <2>2. Begun(Audit!Idle) /\ Chaining(Audit!Idle) /\ ~ Excluding(Audit!Idle)
    BY IdleHasNothing
  <2>3. /\ mutex' \in Workers \cup {None} /\ lock' \in Workers \cup {None}
        /\ \A v \in Workers \ {w} : lock = v => lock' = v
    BY <1>1, <2>1 DEF Audit!Released
  <2> QED
    BY <2>1, <2>2, <2>3, IdleRequest, <1>0, RequestTurns
<1> QED
  BY <1>2, <1>3, <1>4, <1>5, <1>6, <1>7

\* The head of the log is not yet the hash that a row follows.
LEMMA HeadIsUnused ==
    ASSUME Audit!AuditAssumption, AuditInv, NEW i \in DOMAIN log
    PROVE  log[i].prev # Audit!LastHash(log)
<1> SUFFICES ASSUME log[i].prev = Audit!LastHash(log) PROVE FALSE
  OBVIOUS
<1> DEFINE n == Len(log)
<1>1. /\ log \in Seq(Audit!Entry) /\ n \in Nat /\ DOMAIN log = 1 .. n /\ i \in 1 .. n
      /\ log # << >>
  BY LenProperties, EmptySeq DEF AuditInv, Audit!LogIsSound, Audit!TypeOK
<1>2. \A k \in 1 .. n : /\ log[k].prev \in Audit!Hash /\ log[k].event \in Events
                        /\ log[k].hash = Append(log[k].prev, log[k].event)
  <2>1. \A k \in 1 .. n : log[k] \in Audit!Entry
    BY <1>1, ElementOfSeq
  <2> QED
    BY <1>1, <2>1 DEF Audit!Entry, AuditInv, RowsChain
<1>3. n \in 1 .. n /\ Audit!LastHash(log) = Append(log[n].prev, log[n].event)
  BY <1>1, <1>2 DEF Audit!LastHash
<1>4. log[i].prev # << >>
  <2>1. log[n].prev \in Seq(Events) /\ log[n].event \in Events
    BY <1>2, <1>3 DEF Audit!Hash
  <2>2. Append(log[n].prev, log[n].event) # << >>
    BY <2>1, AppendProperties
  <2> QED
    BY <1>3, <2>2
<1>5. PICK j \in 1 .. i - 1 : log[j].hash = log[i].prev
  BY <1>4 DEF AuditInv, Audit!LogIsSound, Audit!NoDanglingPredecessor
<1>6. j \in 1 .. n /\ j # n
  <2>1. n \in Nat /\ i \in 1 .. n /\ j \in 1 .. i - 1
    BY <1>1, <1>5
  <2> HIDE DEF n
  <2> QED
    BY <2>1
<1>7. Append(log[j].prev, log[j].event) = Append(log[n].prev, log[n].event)
  BY <1>2, <1>3, <1>5, <1>6
<1>8. log[j].event = log[n].event
  BY <1>2, <1>3, <1>6, <1>7, AppendProperties DEF Audit!Hash
<1> QED
  BY <1>1, <1>3, <1>6, <1>8 DEF AuditInv, EventsDiffer

\* The commit appends the row: only an export can follow a row that already has
\* a successor, as the head has none and a writing request chains to the head.
LEMMA CommitStep ==
    ASSUME Audit!AuditAssumption, AuditInv, NEW w \in Workers, Audit!Commit(w)
    PROVE  AuditInv'
<1> DEFINE n == Len(log)
<1>1. PICK r \in Audit!Request : r = request[w]
  BY AuditFacts
<1>2. /\ Begun(r) /\ Chaining(r) /\ r.stage = "recorded" /\ lock = w
      /\ log \in Seq(Audit!Entry) /\ n \in Nat /\ DOMAIN log = 1 .. n
      /\ request \in [Workers -> Audit!Request] /\ mutex \in Workers \cup {None}
  BY <1>1, AuditFacts, LenProperties
  DEF Audit!Commit, Excluding, AuditInv, Audit!LogIsSound, Audit!TypeOK
<1>3. PICK e : e = Audit!NewEntry(r)
  OBVIOUS
<1>4. /\ e \in Audit!Entry /\ e.event = r.event /\ e.kind = r.kind /\ e.prev = r.prev
      /\ e.hash = Append(e.prev, e.event) /\ e.event \in Events
  <2>1. r.kind \in Kinds /\ r.event \in Events /\ r.prev \in Seq(Events)
    BY <1>2 DEF Begun, Audit!Request, Audit!Hash
  <2>2. Append(r.prev, r.event) \in Seq(Events)
    BY <2>1, AppendProperties
  <2> QED
    BY <1>3, <2>1, <2>2 DEF Audit!NewEntry, Audit!Entry, Audit!Hash
<1>5. /\ log' = Append(log, e) /\ request' = [request EXCEPT ![w] = Audit!Idle]
      /\ lock' = None /\ mutex' = mutex
  BY <1>1, <1>3 DEF Audit!Commit
<1>6. /\ log' \in Seq(Audit!Entry) /\ DOMAIN log' = 1 .. n + 1 /\ Len(log') = n + 1
      /\ log'[n + 1] = e /\ \A i \in 1 .. n : log'[i] = log[i]
  BY <1>2, <1>4, <1>5, AppendProperties, LenProperties
<1>7. request'[w] = Audit!Idle /\ \A v \in Workers \ {w} : request'[v] = request[v]
  BY <1>2, <1>5
<1>8. /\ e.prev = << >> \/ \E j \in 1 .. n : log[j].hash = e.prev
      /\ e.kind = "write" => e.prev = Audit!LastHash(log)
  BY <1>2, <1>4 DEF Chaining, ChainKnows
<1>9. Audit!LogIsSound'
  <2>1. Audit!TypeOK'
    BY <1>2, <1>5, <1>6, IdleRequest DEF Audit!TypeOK
  <2>2. Audit!OnlyExportsFork'
    <3> SUFFICES ASSUME NEW i \in 1 .. n + 1, NEW j \in 1 .. n + 1,
                        i < j, log'[i].prev = log'[j].prev
                 PROVE  log'[j].kind = "export"
      BY <1>6 DEF Audit!OnlyExportsFork
    <3>1. i \in 1 .. n /\ i \in DOMAIN log
      BY <1>2
    <3>2. CASE j \in 1 .. n
      BY <1>2, <1>6, <3>1, <3>2 DEF AuditInv, Audit!LogIsSound, Audit!OnlyExportsFork
    <3>3. CASE j = n + 1
      <4>1. log[i].prev = e.prev
        BY <1>6, <3>1, <3>3
      <4>2. e.kind # "write"
        BY <1>8, <3>1, <4>1, HeadIsUnused
      <4>3. e.kind \in Kinds
        BY <1>4 DEF Audit!Entry
      <4> QED
        BY <1>6, <3>3, <4>2, <4>3 DEF Audit!AuditAssumption
    <3> QED
      BY <1>2, <3>2, <3>3
  <2>3. Audit!NoDanglingPredecessor'
    <3> SUFFICES ASSUME NEW i \in 1 .. n + 1
                 PROVE  \/ log'[i].prev = << >>
                        \/ \E j \in 1 .. i - 1 : log'[j].hash = log'[i].prev
      BY <1>6 DEF Audit!NoDanglingPredecessor
    <3>1. CASE i \in 1 .. n
      <4>1. \/ log[i].prev = << >>
            \/ \E j \in 1 .. i - 1 : log[j].hash = log[i].prev
        BY <1>2, <3>1 DEF AuditInv, Audit!LogIsSound, Audit!NoDanglingPredecessor
      <4>2. \A j \in 1 .. i - 1 : j \in 1 .. n
        BY <1>2, <3>1
      <4> QED
        BY <1>6, <3>1, <4>1, <4>2
    <3>2. CASE i = n + 1
      BY <1>2, <1>6, <1>8, <3>2
    <3> QED
      BY <1>2, <3>1, <3>2
  <2> QED
    BY <2>1, <2>2, <2>3 DEF Audit!LogIsSound
<1>10. AuditRequests'
  <2> SUFFICES ASSUME NEW v \in Workers
               PROVE  /\ Begun(request'[v]) /\ Chaining(request[v])'
                      /\ Excluding(request'[v]) => lock' = v
    BY DEF AuditRequests, Begun, Excluding, Audit!Idle
  <2>1. CASE v = w
    BY <1>7, <2>1, IdleRequest DEF Begun, Chaining, Excluding
  <2>2. CASE v # w
    <3>1. PICK q \in Audit!Request : q = request[v]
      BY AuditFacts
    <3>2. Begun(q) /\ Chaining(q) /\ ~ Excluding(q) /\ request'[v] = q
      BY <1>2, <1>7, <2>2, <3>1, AuditFacts
    <3>3. q.stage \in {"inserting", "recorded"} => q.kind # "write" /\ q.stage # "recorded"
      BY <3>2 DEF Excluding
    <3>4. \A h : ChainKnows(h) => ChainKnows(h)'
      BY <1>2, <1>6 DEF ChainKnows
    <3>5. Chaining(request[v])'
      BY <3>2, <3>3, <3>4 DEF Chaining
    <3> QED
      BY <3>2, <3>5
  <2> QED
    BY <2>1, <2>2
<1>11. EventsDiffer'
  <2>1. /\ \A i \in 1 .. n : log[i].event # e.event
        /\ \A v \in Workers \ {w} : request[v].event # e.event
        /\ e.event # None
    BY <1>1, <1>2, <1>4 DEF AuditInv, EventsDiffer, Begun
  <2>2. \A i, j \in 1 .. n + 1 : log'[i].event = log'[j].event => i = j
    <3>1. \A i, j \in 1 .. n : log[i].event = log[j].event => i = j
      BY <1>2 DEF AuditInv, EventsDiffer
    <3>2. \A i \in 1 .. n + 1 : i \in 1 .. n \/ i = n + 1
      BY <1>2
    <3> QED
      BY <1>6, <2>1, <3>1, <3>2, Zenon
  <2>3. ASSUME NEW v \in Workers, request'[v].event # None
        PROVE  /\ \A i \in 1 .. n + 1 : log'[i].event # request'[v].event
               /\ \A x \in Workers \ {v} : request'[x].event # request'[v].event
    <3>1. v # w /\ request'[v] = request[v]
      BY <1>7, <2>3, IdleRequest
    <3>2. \A x \in Workers \ {v} : request'[x].event # request'[v].event
      BY <1>7, <2>3, <3>1, IdleRequest DEF AuditInv, EventsDiffer
    <3>3. \A i \in 1 .. n : log[i].event # request[v].event
      BY <1>2, <2>3, <3>1 DEF AuditInv, EventsDiffer
    <3> QED
      BY <1>2, <1>6, <2>1, <3>1, <3>2, <3>3
  <2> QED
    BY <1>6, <2>2, <2>3 DEF EventsDiffer
<1>12. RowsChain'
  <2> SUFFICES ASSUME NEW i \in 1 .. n + 1
               PROVE  /\ log'[i].hash = Append(log'[i].prev, log'[i].event)
                      /\ log'[i].kind = "write" =>
                            log'[i].prev = IF i = 1 THEN << >> ELSE log'[i - 1].hash
    BY <1>6 DEF RowsChain
  <2>1. CASE i \in 1 .. n
    <3>1. i = 1 \/ i - 1 \in 1 .. n
      BY <1>2, <2>1
    <3> QED
      BY <1>2, <1>6, <2>1, <3>1 DEF AuditInv, RowsChain
  <2>2. CASE i = n + 1
    <3>1. Audit!LastHash(log) = IF n = 0 THEN << >> ELSE log[n].hash
      BY <1>2, EmptySeq, LenProperties DEF Audit!LastHash
    <3>2. n # 0 => n \in 1 .. n /\ n + 1 # 1
      BY <1>2
    <3> QED
      BY <1>2, <1>4, <1>6, <1>8, <2>2, <3>1, <3>2
  <2> QED
    BY <1>2, <2>1, <2>2
<1> QED
  BY <1>9, <1>10, <1>11, <1>12 DEF AuditInv

\* Every step of the log.
LEMMA AuditStep ==
    ASSUME Audit!AuditAssumption, AuditInv, [Audit!Next]_Audit!vars
    PROVE  AuditInv'
<1>1. CASE UNCHANGED Audit!vars
  BY <1>1 DEF Audit!vars, AuditInv, Audit!LogIsSound, Audit!TypeOK,
              Audit!OnlyExportsFork, Audit!NoDanglingPredecessor, AuditRequests,
              EventsDiffer, RowsChain, Begun, Chaining, ChainKnows, Audit!LastHash,
              Excluding
<1>2. CASE Audit!Next
  <2>1. PICK w \in Workers : \/ \E kind \in Kinds, e \in Events : Audit!Begin(w, kind, e)
                             \/ Audit!Write(w) \/ Audit!Acquire(w)
                             \/ Audit!ReadHead(w) \/ Audit!Insert(w)
                             \/ Audit!Commit(w) \/ Audit!Abort(w) \/ Audit!Timeout(w)
    BY <1>2 DEF Audit!Next
  <2> QED
    BY <2>1, RequestSteps, CommitStep
<1> QED
  BY <1>1, <1>2

\* The invariant holds in every state.
LEMMA AuditInvariance == Audit!AuditAssumption => (Audit!Spec => []AuditInv)
<1> SUFFICES ASSUME Audit!AuditAssumption PROVE Audit!Spec => []AuditInv
  OBVIOUS
<1>1. Audit!Init => AuditInv
  BY AuditStart
<1>2. AuditInv /\ [Audit!Next]_Audit!vars => AuditInv'
  BY AuditStep
<1> QED
  BY <1>1, <1>2, PTL DEF Audit!Spec

\* Every row of the audit log of core/compliance.py follows the genesis or a row
\* committed before it, and of two rows that follow the same row the later one
\* is a data export's: an export reads the head before it takes the write lock,
\* every other route of the server takes it first.
THEOREM AuditLogIsSound == Audit!AuditAssumption => (Audit!Spec => []Audit!LogIsSound)
<1>1. AuditInv => Audit!LogIsSound
  BY DEF AuditInv
<1> QED
  BY <1>1, AuditInvariance, PTL

\* Every row was recorded by a request that had written before.
OnlyWrites == \A i \in DOMAIN log : log[i].kind = "write"

\* Without exports AuditLog.verify_chain accepts the log that the server itself
\* wrote, however the requests overlap, fail and roll back.
THEOREM WritesVerify ==
    Audit!AuditAssumption =>
        (Audit!Spec => [](OnlyWrites => Audit!UntamperedLogVerifies))
<1>1. AuditInv => (OnlyWrites => Audit!UntamperedLogVerifies)
  BY DEF AuditInv, RowsChain, OnlyWrites, Audit!UntamperedLogVerifies, Audit!Intact
<1> QED
  BY <1>1, AuditInvariance, PTL
============================================================================
