-------------------------- MODULE OpusNotesProofs ---------------------------
(***************************************************************************)
(* Theorems of OpusNotes, for every set of users, requests and links and   *)
(* every bound: the note is consistent, rebased edits keep their place,    *)
(* and the server implements NoteStore with fresh reads.                   *)
(***************************************************************************)
EXTENDS OpusNotes, SequenceTheorems, WellFoundedInduction, TLAPS

-----------------------------------------------------------------------------
(* The inductive invariant.                                                *)

\* The row of the note is that of the last body committed to it.
NoteIsLatest ==
    /\ note.version = Len(contents)
    /\ note.status = "unused" <=> contents = <<>>
    /\ contents # <<>> => note.body = contents[Len(contents)]

\* What the cache holds was committed under the version it is kept by.
CacheIsCommitted ==
    /\ cache.version <= Len(contents)
    /\ cache.version > 0 => cache.body = contents[cache.version]

\* A request works under the lock from Meter to the end of its session.
HoldsLock(w) == requests[w].stage \in {"locked", "written"} => lock = w

\* A request that is about to commit has prepared what its operation says.
Prepared(q) ==
    \/ /\ q.op = "create" /\ note.status = "unused"
       /\ q.row.status = "live" /\ q.row.version = 1
    \/ /\ q.op \in {"edit", "operate"} /\ note.status = "live"
       /\ q.row.status = "live" /\ q.row.version = note.version + 1
       /\ q.op = "operate" => q.applied \in Operation
    \/ q.op = "delete" /\ q.row = [note EXCEPT !.status = "deleted"]
    \/ q.op = "share" /\ q.row = NoRow /\ q.grant.to \in Users
    \/ q.op = "link" /\ q.row = NoRow /\ q.link \in Links

\* What a request knows, at each stage, of the note it reads or writes.
Knows(q) ==
    /\ q.stage \in {"entered", "locked"} => q.user \in Users /\ q.row = NoRow
    /\ q.stage = "written" => q.user \in Users /\ Prepared(q)
    /\ q.stage = "committed" => q.applied \in Operation
    /\ q.stage = "loaded" => /\ q.row.version \in DOMAIN contents
                             /\ q.row.body = contents[q.row.version]
    /\ q.stage = "answered" => /\ q.base \in DOMAIN contents
                               /\ \E i \in q.base .. Len(contents) :
                                      q.answer = contents[i]

RequestsKnow == \A w \in Workers : HoldsLock(w) /\ Knows(requests[w])

IInv ==
    /\ TypeOK
    /\ NoteIsLatest
    /\ CacheIsCommitted
    /\ RequestsKnow
    /\ AccessHeldUntilCommit

-----------------------------------------------------------------------------
(* What the text and the log are, from which edits keep their place.       *)

\* No mark occurs twice in a body, and none is newer than the body.
Marked(body, v) ==
    /\ IsInjective(body)
    /\ \A j \in DOMAIN body : body[j][1] <= v

\* Operation o made the body of its version from the body before it.
Made(o) ==
    /\ o.version \in 2 .. Len(contents)
    /\ contents[o.version] = Apply(contents[o.version - 1], o)

\* The log has operations that were committed, each once.
LogIsMade ==
    \A i \in DOMAIN oplog :
        /\ Made(oplog[i])
        /\ \A j \in DOMAIN oplog : oplog[i].version = oplog[j].version => i = j

\* What a request is about to commit, and what it has still to log.
Edits(q) ==
    /\ q.stage = "written" /\ q.op \in {"create", "edit", "operate"} =>
          Marked(q.row.body, note.version + 1)
    /\ q.stage = "written" /\ q.op = "operate" =>
          /\ q.applied.version = note.version + 1
          /\ q.row.body = Apply(note.body, q.applied)
    /\ q.stage = "committed" =>
          /\ Made(q.applied)
          /\ \A i \in DOMAIN oplog : oplog[i].version # q.applied.version

UnloggedDiffer ==
    \A v, w \in Workers :
        /\ requests[v].stage = "committed" /\ requests[w].stage = "committed"
        /\ requests[v].applied.version = requests[w].applied.version
        => v = w

TextInv ==
    /\ \A v \in DOMAIN contents : Marked(contents[v], v)
    /\ LogIsMade /\ UnloggedDiffer
    /\ \A w \in Workers : Edits(requests[w])
    /\ OperationsKeepTheirPlace

-----------------------------------------------------------------------------
(* What the model's operators return.                                      *)

LEMMA LeastNatural ==
    ASSUME NEW S \in SUBSET Nat, S # {}
    PROVE  \E m \in S : \A k \in S : m <= k
<1>1. \E m \in S : \A k \in S : ~ (<<k, m>> \in OpToRel(<, Nat))
  BY NatLessThanWellFounded, WFMin
<1>2. ASSUME NEW k \in Nat, NEW m \in Nat, ~ (<<k, m>> \in OpToRel(<, Nat))
      PROVE m <= k
  <2>1. <<k, m>> \in Nat \X Nat /\ <<k,m>>[1] = k /\ <<k,m>>[2] = m
    OBVIOUS
  <2>2. ~ (k < m)
    BY <1>2, <2>1, Zenon DEF OpToRel
  <2> QED BY <2>2
<1> QED
  BY <1>1, <1>2

\* Induction, for a set instead of a predicate.
LEMMA Induction ==
    ASSUME NEW S, 0 \in S, \A n \in Nat : n \in S => n + 1 \in S
    PROVE  \A n \in Nat : n \in S
<1> DEFINE Out == Nat \ S
<1> SUFFICES ASSUME Out # {} PROVE FALSE
  OBVIOUS
<1>1. PICK m \in Out : \A k \in Out : m <= k
  <2> HIDE DEF Out
  <2>1. Out \in SUBSET Nat
    BY DEF Out
  <2> QED
    BY <2>1, LeastNatural
<1>2. m - 1 \in Nat /\ m - 1 \notin Out /\ (m - 1) + 1 = m
  BY <1>1
<1> QED
  BY <1>2

\* The fold of Rebase, operation by operation.  It is defined (step 6) by
\* induction on the operations folded.
Rebases(steps, pos, base) ==
    /\ steps[0] = pos
    /\ \A i \in 1 .. Len(oplog) :
          steps[i] = IF oplog[i].version > base THEN Shift(steps[i - 1], oplog[i])
                     ELSE steps[i - 1]
    /\ Rebase(pos, base) = steps[Len(oplog)]

LEMMA RebaseSteps ==
    ASSUME oplog \in Seq(Operation), NEW pos, NEW base
    PROVE  \E steps : Rebases(steps, pos, base)
<1> DEFINE N == Len(oplog)
           op(p, o) == IF o.version > base THEN Shift(p, o) ELSE p
           Def(g, t) == IF t = {} THEN pos ELSE op(g[t \ {Max(t)}], oplog[Max(t)])
           Solves(g, n) == g = [t \in SUBSET (1 .. n) |-> Def(g, t)]
<1>1. N \in Nat /\ DOMAIN oplog = 1 .. N
  OBVIOUS
<1>3. \A n \in Nat : \A t \in SUBSET (1 .. n) : n \in t => Max(t) = n
  <2> SUFFICES ASSUME NEW n \in Nat, NEW t \in SUBSET (1 .. n), n \in t
               PROVE  Max(t) = n
    OBVIOUS
  <2>1. n \in t /\ \A y \in t : n >= y
    OBVIOUS
  <2>2. Max(t) \in t /\ \A y \in t : Max(t) >= y
    BY <2>1, Zenon DEF Max
  <2>3. Max(t) \in 1 .. n /\ n >= Max(t) /\ Max(t) >= n
    BY <2>1, <2>2
  <2> QED
    BY <2>3
<1>4. Rebase(pos, base) = (CHOOSE g : Solves(g, N))[1 .. N]
  BY <1>1, Zenon DEF Rebase, FoldLeft, MapThenFoldSet
<1> HIDE DEF op
<1>5. ASSUME NEW n \in 0 .. N - 1, NEW g, Solves(g, n)
      PROVE  \E h : Solves(h, n + 1)
  <2> DEFINE h == [t \in SUBSET (1 .. n + 1) |->
                      IF n + 1 \in t THEN op(g[t \ {n + 1}], oplog[n + 1]) ELSE g[t]]
  <2>1. ASSUME NEW t \in SUBSET (1 .. n + 1) PROVE h[t] = Def(h, t)
    <3>1. CASE n + 1 \in t
      <4>1. Max(t) = n + 1
        BY <1>3, <3>1
      <4>2. t \ {n + 1} \in SUBSET (1 .. n)
        OBVIOUS
      <4>3. h[t \ {n + 1}] = g[t \ {n + 1}]
        BY <4>2
      <4> QED BY <3>1, <4>1, <4>3
    <3>2. CASE n + 1 \notin t
      <4>0. ASSUME NEW y \in t PROVE y \in 1 .. n
        <5>1. y \in 1 .. n + 1 /\ y # n + 1
          BY <3>2
        <5> QED
          BY <5>1
      <4>1. t \in SUBSET (1 .. n) /\ t \ {Max(t)} \in SUBSET (1 .. n)
        BY <4>0
      <4>2. g[t] = Def(g, t)
        BY <4>1, <1>5
      <4>3. h[t] = g[t] /\ h[t \ {Max(t)}] = g[t \ {Max(t)}]
        BY <3>2, <4>1
      <4> QED BY <4>2, <4>3
    <3> QED BY <3>1, <3>2
  <2>2. Solves(h, n + 1)
    <3> HIDE DEF Def
    <3> QED BY <2>1
  <2> QED BY <2>2
<1>6. \E g : Solves(g, N)
  <2> DEFINE S == {n \in Nat : n <= N => \E g : Solves(g, n)}
  <2>1. 0 \in S
    <3>1. Solves([t \in SUBSET (1 .. 0) |-> pos], 0)
      OBVIOUS
    <3> QED BY <3>1
  <2> HIDE DEF Solves
  <2>2. ASSUME NEW n \in Nat, n \in S PROVE n + 1 \in S
    BY <1>1, <1>5, <2>2
  <2>3. \A n \in Nat : n \in S
    <3> HIDE DEF S
    <3> QED BY <2>1, <2>2, Induction
  <2> QED BY <1>1, <2>3
<1>7. PICK g : Solves(g, N) /\ Rebase(pos, base) = g[1 .. N]
  <2>1. Solves(CHOOSE g : Solves(g, N), N)
    BY <1>6, Zenon
  <2> QED BY <1>4, <2>1
<1> DEFINE steps == [n \in 0 .. N |-> g[1 .. n]]
<1>8. \A t \in SUBSET (1 .. N) : g[t] = Def(g, t)
  BY <1>7
<1>9. steps[0] = pos
  <2>1. 1 .. 0 = {} /\ {} \in SUBSET (1 .. N) /\ 0 \in 0 .. N
    BY <1>1
  <2>2. g[{}] = Def(g, {})
    BY <1>8, <2>1
  <2> QED BY <2>1, <2>2
<1>10. ASSUME NEW i \in 1 .. N PROVE steps[i] = op(steps[i - 1], oplog[i])
  <2>1. 1 .. i \in SUBSET (1 .. N) /\ i \in 1 .. i /\ (1 .. i) \ {i} = 1 .. i - 1
    BY <1>1
  <2>2. Max(1 .. i) = i
    BY <1>3, <2>1
  <2>3. g[1 .. i] = op(g[1 .. i - 1], oplog[i])
    BY <1>8, <2>1, <2>2
  <2> QED BY <1>1, <2>3
<1>11. Rebases(steps, pos, base)
  <2>1. Rebase(pos, base) = steps[N]
    BY <1>1, <1>7
  <2> HIDE DEF steps
  <2> QED BY <1>9, <1>10, <2>1 DEF Rebases, op
<1> QED BY <1>11

LEMMA ShiftType ==
    ASSUME NEW pos \in Nat, NEW o \in Operation
    PROVE  Shift(pos, o) \in Nat
<1>1. o.at \in Nat /\ o.length \in Nat
  BY NotesAssumption DEF Operation
<1>2. o.at < pos - o.length => pos - o.length \in Nat
  BY <1>1
<1> QED
  BY <1>1, <1>2 DEF Shift

\* A rebased position is a position, whatever the log holds, and so is every
\* position on the way.
LEMMA StepsType ==
    ASSUME oplog \in Seq(Operation), NEW pos \in Nat, NEW base, NEW steps,
           Rebases(steps, pos, base)
    PROVE  \A i \in 0 .. Len(oplog) : steps[i] \in Nat
<1> DEFINE N == Len(oplog)
           S == {n \in Nat : n <= N => steps[n] \in Nat}
<1>1. N \in Nat /\ \A i \in 1 .. N : oplog[i] \in Operation
  OBVIOUS
<1>2. 0 \in S
  BY DEF Rebases
<1>3. ASSUME NEW n \in Nat, n \in S PROVE n + 1 \in S
  <2> SUFFICES ASSUME n + 1 <= N PROVE steps[n + 1] \in Nat
    OBVIOUS
  <2>1. n + 1 \in 1 .. N /\ (n + 1) - 1 = n /\ steps[n] \in Nat
    BY <1>1, <1>3
  <2>2. PICK o \in Operation : o = oplog[n + 1]
    BY <1>1, <2>1
  <2>3. Shift(steps[n], oplog[n + 1]) \in Nat
    BY <2>1, <2>2, ShiftType
  <2> QED BY <2>1, <2>3 DEF Rebases
<1>4. \A n \in Nat : n \in S
  <2> HIDE DEF S
  <2> QED BY <1>2, <1>3, Induction
<1> QED BY <1>1, <1>4

LEMMA RebaseType ==
    ASSUME oplog \in Seq(Operation), NEW pos \in Nat, NEW base
    PROVE  Rebase(pos, base) \in Nat
<1>1. PICK steps : Rebases(steps, pos, base)
  BY RebaseSteps
<1>2. Len(oplog) \in 0 .. Len(oplog)
  OBVIOUS
<1> QED
  BY <1>1, <1>2, StepsType DEF Rebases

LEMMA TextType ==
    ASSUME NEW version \in 1 .. MaxVersion, NEW length \in Nat
    PROVE  /\ Text(version, length) \in Bodies /\ Len(Text(version, length)) = length
           /\ \A i \in 1 .. length : Text(version, length)[i] = <<version, i>>
<1> DEFINE text == Text(version, length)
<1>1. text = [i \in 1 .. length |-> <<version, i>>]
  BY DEF Text
<1>2. \A i \in 1 .. length : <<version, i>> \in Marks
  BY DEF Marks
<1>3. text \in [1 .. length -> Marks]
  BY <1>1, <1>2
<1>4. text \in Seq(Marks)
  BY <1>3, SeqDef
<1>5. Len(text) \in Nat /\ 1 .. Len(text) = 1 .. length
  BY <1>3, <1>4, LenProperties
<1>6. Len(text) = length
  BY <1>5
<1> QED
  BY <1>1, <1>4, <1>6 DEF Bodies

\* The place of an operation in a body, the end of what it removes, and the
\* text it leaves there.
Start(body, o) == Clamp(o.at, body)

End(body, o) ==
    IF o.kind = "delete" THEN Clamp(Start(body, o) + o.length, body)
    ELSE Start(body, o)

Inserted(o) == IF o.kind = "insert" THEN Text(o.version, o.length) ELSE <<>>

LEMMA SpliceType ==
    ASSUME NEW body \in Bodies, NEW o \in Operation
    PROVE  /\ Start(body, o) \in 0 .. Len(body)
           /\ End(body, o) \in Start(body, o) .. Len(body)
           /\ Inserted(o) \in Bodies
           /\ Len(Inserted(o)) = IF o.kind = "insert" THEN o.length ELSE 0
           /\ \A i \in 1 .. Len(Inserted(o)) : Inserted(o)[i] = <<o.version, i>>
           /\ Apply(body, o) = SubSeq(body, 1, Start(body, o)) \o Inserted(o)
                                  \o SubSeq(body, End(body, o) + 1, Len(body))
           /\ Apply(body, o) \in Bodies
<1>1. /\ Len(body) \in Nat /\ o.at \in Nat /\ o.length \in Nat
      /\ o.version \in 1 .. MaxVersion /\ o.kind \in {"insert", "delete"}
  BY NotesAssumption, LenProperties DEF Bodies, Operation
<1>2. Start(body, o) \in 0 .. Len(body)
  BY <1>1 DEF Start, Clamp
<1>3. End(body, o) \in Start(body, o) .. Len(body)
  BY <1>1, <1>2 DEF End, Clamp
<1>4. /\ Inserted(o) \in Bodies
      /\ Len(Inserted(o)) = IF o.kind = "insert" THEN o.length ELSE 0
      /\ \A i \in 1 .. Len(Inserted(o)) : Inserted(o)[i] = <<o.version, i>>
  <2>1. CASE o.kind = "insert"
    <3>1. Inserted(o) = Text(o.version, o.length)
      BY <2>1 DEF Inserted
    <3> QED
      BY <1>1, <2>1, <3>1, TextType
  <2>2. CASE o.kind # "insert"
    <3>1. Inserted(o) = <<>>
      BY <2>2 DEF Inserted
    <3> QED
      BY <2>2, <3>1, EmptySeq DEF Bodies
  <2> QED
    BY <2>1, <2>2
<1>5. Apply(body, o) = SubSeq(body, 1, Start(body, o)) \o Inserted(o)
                          \o SubSeq(body, End(body, o) + 1, Len(body))
  BY DEF Apply, Start, End, Inserted
<1>6. Apply(body, o) \in Bodies
  <2>1. PICK at, end, text : /\ at = Start(body, o) /\ end = End(body, o)
                             /\ text = Inserted(o)
    OBVIOUS
  <2>2. SubSeq(body, 1, at) \in Seq(Marks) /\ SubSeq(body, end + 1, Len(body)) \in Seq(Marks)
    BY <1>1, <1>2, <1>3, <2>1, SubSeqProperties DEF Bodies
  <2>3. SubSeq(body, 1, at) \o text \o SubSeq(body, end + 1, Len(body)) \in Seq(Marks)
    BY <1>4, <2>1, <2>2, ConcatProperties DEF Bodies
  <2> QED
    BY <1>5, <2>1, <2>3 DEF Bodies
<1> QED
  BY <1>2, <1>3, <1>4, <1>5, <1>6

\* The places of an operation in a body of n marks.
PlacesOf(o, n, at, end, l) ==
    /\ at = IF o.at <= n THEN o.at ELSE n
    /\ o.kind = "insert" => end = at /\ l = o.length
    /\ o.kind = "delete" => end = IF at + o.length <= n THEN at + o.length ELSE n
    /\ o.kind = "delete" => l = 0
    /\ at \in Nat /\ end \in Nat /\ l \in Nat /\ at <= end /\ end <= n

LEMMA SpliceFacts ==
    ASSUME NEW body \in Bodies, NEW o \in Operation
    PROVE  PlacesOf(o, Len(body), Start(body, o), End(body, o), Len(Inserted(o)))
<1>1. PICK n, at, end, l : /\ n = Len(body) /\ at = Start(body, o)
                           /\ end = End(body, o) /\ l = Len(Inserted(o))
  OBVIOUS
<1>2. n \in Nat /\ o.at \in Nat /\ o.length \in Nat /\ o.kind \in {"insert", "delete"}
  BY <1>1, NotesAssumption, LenProperties DEF Bodies, Operation
<1>3. at \in 0 .. n /\ end \in at .. n /\ l = IF o.kind = "insert" THEN o.length ELSE 0
  BY <1>1, SpliceType
<1>4. at = IF o.at <= n THEN o.at ELSE n
  BY <1>1 DEF Start, Clamp
<1>5. end = IF o.kind = "delete" THEN IF at + o.length <= n THEN at + o.length ELSE n
            ELSE at
  BY <1>1 DEF End, Clamp
<1>6. PlacesOf(o, n, at, end, l)
  BY <1>2, <1>3, <1>4, <1>5 DEF PlacesOf
<1> QED
  BY <1>1, <1>6

LEMMA FirstBodyType == FirstBody \in Bodies /\ Marked(FirstBody, 1)
<1>1. {1} \X (Nat \ {0}) \subseteq Marks
  BY NotesAssumption DEF Marks
<1>2. FirstBody \in Seq({1} \X (Nat \ {0})) /\ IsInjective(FirstBody)
  BY NotesAssumption
<1>3. FirstBody \in Bodies
  BY <1>1, <1>2, SeqMonotonic DEF Bodies
<1>4. ASSUME NEW j \in DOMAIN FirstBody PROVE FirstBody[j][1] <= 1
  <2>1. FirstBody[j] \in {1} \X (Nat \ {0})
    BY <1>2, <1>4, LenProperties, ElementOfSeq
  <2> QED
    BY <2>1
<1> QED
  BY <1>2, <1>3, <1>4 DEF Marked

LEMMA TrimmedType ==
    ASSUME NEW log \in Seq(Operation)
    PROVE  Trimmed(log) \in Seq(Operation) /\ Len(Trimmed(log)) <= OplogLimit
  BY NotesAssumption, LenProperties, SubSeqProperties DEF Trimmed

LEMMA IdleIsRequest == Idle \in Request /\ NoRow \in Row /\ NoEntry \in Entry
<1>1. NoRow \in Row
  BY NotesAssumption DEF NoRow, Row, Bodies
<1> QED
  BY <1>1, NotesAssumption
  DEF Idle, Request, NoGrant, Levels, NoOperation, NoEntry, Entry, Bodies

-----------------------------------------------------------------------------
(* The initial state.                                                      *)

LEMMA InitIInv == Init => IInv
<1> SUFFICES ASSUME Init PROVE IInv
  OBVIOUS
<1>1. TypeOK
  BY NotesAssumption, IdleIsRequest DEF Init, TypeOK, Levels
<1>2. NoteIsLatest /\ CacheIsCommitted
  BY DEF Init, NoteIsLatest, CacheIsCommitted, NoRow, NoEntry
<1>3. RequestsKnow /\ AccessHeldUntilCommit
  BY DEF Init, RequestsKnow, HoldsLock, Knows, AccessHeldUntilCommit, Idle
<1> QED
  BY <1>1, <1>2, <1>3 DEF IInv

-----------------------------------------------------------------------------
(* Steps that change one request and the memory of the process, and leave  *)
(* the rows alone.                                                         *)

MemoryIsSound ==
    /\ cache' \in Entry
    /\ cache'.version <= Len(contents)
    /\ cache'.version > 0 => cache'.body = contents[cache'.version]
    /\ oplog' \in Seq(Operation) /\ Len(oplog') <= OplogLimit

RowsUnchanged == UNCHANGED <<note, roles, shares, links, contents, workload>>

LEMMA RequestStep ==
    ASSUME IInv, NEW w \in Workers, NEW q \in Request,
           requests' = [requests EXCEPT ![w] = q],
           Knows(q),
           q.stage = "written" =>
               /\ requests[w].stage = "locked" /\ q.user = requests[w].user
               /\ q.op \in DOMAIN Needed => May(w, Needed[q.op]),
           lock' \in Workers \cup {None},
           q.stage \in {"locked", "written"} => lock' = w,
           \A v \in Workers \ {w} : lock = v => lock' = v,
           MemoryIsSound, RowsUnchanged
    PROVE  IInv'
<1>1. TypeOK'
  BY DEF IInv, TypeOK, MemoryIsSound, RowsUnchanged
<1>2. NoteIsLatest' /\ CacheIsCommitted'
  BY DEF IInv, NoteIsLatest, CacheIsCommitted, MemoryIsSound, RowsUnchanged
<1>3. \A v \in Workers : requests'[v] = IF v = w THEN q ELSE requests[v]
  BY DEF IInv, TypeOK
<1>4. RequestsKnow'
  <2>1. \A r : Knows(r)' <=> Knows(r)
    BY DEF Knows, Prepared, RowsUnchanged
  <2>2. ASSUME NEW v \in Workers PROVE HoldsLock(v)' /\ Knows(requests'[v])
    BY <1>3 DEF HoldsLock, RequestsKnow, IInv
  <2> QED
    BY <2>1, <2>2 DEF RequestsKnow
<1>5. AccessHeldUntilCommit'
  BY <1>3 DEF IInv, AccessHeldUntilCommit, May, NoteLevel, RowsUnchanged
<1> QED
  BY <1>1, <1>2, <1>4, <1>5 DEF IInv

LEMMA MemoryKept ==
    ASSUME IInv, RowsUnchanged, cache' \in {cache, NoEntry}, oplog' = oplog
    PROVE  MemoryIsSound
  BY IdleIsRequest DEF IInv, TypeOK, CacheIsCommitted, MemoryIsSound, RowsUnchanged,
                       NoEntry

\* Idle and answered requests hold nothing.
LEMMA RequestFacts ==
    ASSUME IInv, NEW w \in Workers
    PROVE  /\ requests[w] \in Request /\ HoldsLock(w) /\ Knows(requests[w])
           /\ lock \in Workers \cup {None} /\ Released(w) \in Workers \cup {None}
           /\ \A v \in Workers \ {w} : lock = v => Released(w) = v
           /\ note \in Row /\ contents \in Seq(Bodies)
           /\ Knows(Idle)
  BY NotesAssumption DEF IInv, TypeOK, RequestsKnow, Released, Knows, Idle

LEMMA EnterStep ==
    ASSUME IInv, NEW w \in Workers, Enter(w)
    PROVE  IInv'
<1>0. PICK u \in Users : requests' = [requests EXCEPT ![w] =
                                      [Idle EXCEPT !.stage = "entered", !.user = u]]
  BY DEF Enter
<1> DEFINE q == [Idle EXCEPT !.stage = "entered", !.user = u]
<1>1. q \in Request /\ Knows(q) /\ q.stage = "entered"
  BY IdleIsRequest DEF Idle, Request, Knows
<1>2. MemoryIsSound
  BY MemoryKept DEF Enter, RowsUnchanged
<1>3. requests' = [requests EXCEPT ![w] = q]
  BY <1>0
<1> HIDE DEF q
<1> QED
  BY <1>1, <1>2, <1>3, RequestFacts, RequestStep DEF Enter, RowsUnchanged

LEMMA MeterStep ==
    ASSUME IInv, NEW w \in Workers, Meter(w)
    PROVE  IInv'
<1> DEFINE q == [requests[w] EXCEPT !.stage = "locked"]
<1>1. q \in Request /\ Knows(q) /\ q.stage = "locked"
  BY RequestFacts DEF Meter, Request, Knows
<1>2. MemoryIsSound
  BY MemoryKept DEF Meter, RowsUnchanged
<1>3. requests' = [requests EXCEPT ![w] = q]
  BY DEF Meter
<1> HIDE DEF q
<1>4. /\ lock' = w /\ \A v \in Workers : lock # v
      /\ RowsUnchanged
  BY NotesAssumption DEF Meter, RowsUnchanged, LockIsFree
<1> QED
  BY <1>1, <1>2, <1>3, <1>4, RequestStep

\* What the services leave behind them.
LEMMA PreparedStep ==
    ASSUME IInv, NEW w \in Workers, NEW op \in Ops, NEW new \in Request,
           Prepare(w, op, new), new.user = requests[w].user,
           Prepared([new EXCEPT !.stage = "written", !.op = op]),
           op \in DOMAIN Needed => May(w, Needed[op]),
           cache' \in {cache, NoEntry}
    PROVE  IInv'
<1> DEFINE q == [new EXCEPT !.stage = "written", !.op = op]
<1>1. q \in Request /\ q.stage = "written" /\ q.op = op /\ q.user = requests[w].user
  BY DEF Request
<1>2. Knows(q) /\ lock = w
  BY <1>1, RequestFacts DEF Prepare, Knows, HoldsLock
<1>3. MemoryIsSound
  BY MemoryKept DEF Prepare, RowsUnchanged
<1>4. requests' = [requests EXCEPT ![w] = q] /\ requests[w].stage = "locked"
  BY DEF Prepare
<1> HIDE DEF q
<1> QED
  BY <1>1, <1>2, <1>3, <1>4, RequestStep DEF Prepare, RowsUnchanged

LEMMA CreateStep ==
    ASSUME IInv, NEW w \in Workers, CreateNote(w)
    PROVE  IInv'
<1> DEFINE row == [status |-> "live", owner |-> requests[w].user,
                   version |-> 1, body |-> FirstBody]
           new == [requests[w] EXCEPT !.row = row]
<1>1. requests[w] \in Request /\ requests[w].user \in Users
  BY RequestFacts DEF CreateNote, Knows
<1>2. row \in Row
  <2>1. FirstBody \in Bodies
    BY FirstBodyType
  <2> QED
    BY <1>1, <2>1, NotesAssumption DEF Row
<1>3. new \in Request /\ new.user = requests[w].user
  BY <1>1, <1>2 DEF Request
<1>4. Prepared([new EXCEPT !.stage = "written", !.op = "create"])
  BY <1>1 DEF CreateNote, Prepared, Request
<1>5. "create" \in Ops /\ "create" \notin DOMAIN Needed
  BY DEF Ops, Needed
<1> HIDE DEF new
<1> QED
  BY <1>3, <1>4, <1>5, PreparedStep DEF CreateNote, new

\* Under the lock the cache and the row of a live note agree.
LEMMA DecryptedIsCurrent ==
    ASSUME IInv, note.status = "live"
    PROVE  /\ Len(contents) \in Nat \ {0} /\ note.version = Len(contents)
           /\ Decrypted = contents[note.version] /\ Decrypted \in Bodies
<1>1. contents \in Seq(Bodies) /\ contents # <<>>
  BY DEF IInv, TypeOK, NoteIsLatest
<1>2. Len(contents) \in Nat \ {0}
  BY <1>1, LenProperties, EmptySeq
<1> QED
  BY <1>1, <1>2, ElementOfSeq
  DEF IInv, NoteIsLatest, CacheIsCommitted, Decrypted

LEMMA GetStep ==
    ASSUME IInv, NEW w \in Workers, GetNote(w)
    PROVE  IInv'
<1> DEFINE q == Answered("read", note.version, Decrypted)
<1>0. note.status = "live"
  BY DEF GetNote, May
<1>1. /\ note.version \in 1 .. Len(contents) /\ note.version \in 0 .. MaxVersion
      /\ note.version = Len(contents) /\ Decrypted = contents[note.version]
      /\ Decrypted \in Bodies
  BY <1>0, DecryptedIsCurrent, RequestFacts DEF Row
<1>2. q \in Request /\ q.stage = "answered"
  BY <1>1, IdleIsRequest DEF Answered, Idle, Request, Ops
<1>3. Knows(q)
  <2>1. q.base = note.version /\ q.answer = contents[note.version]
    BY <1>1 DEF Answered, Idle
  <2>2. note.version \in DOMAIN contents
    BY <1>1, RequestFacts, LenProperties
  <2> QED
    BY <1>1, <1>2, <2>1, <2>2 DEF Knows
<1>4. MemoryIsSound
  BY <1>1 DEF GetNote, MemoryIsSound, Entry, IInv, TypeOK
<1>5. requests' = [requests EXCEPT ![w] = q]
  BY DEF GetNote
<1> HIDE DEF q
<1> QED
  BY <1>2, <1>3, <1>4, <1>5, RequestFacts, RequestStep DEF GetNote, RowsUnchanged

LEMMA EditedType ==
    ASSUME IInv, note.status = "live", note.version < MaxVersion, NEW body \in Bodies
    PROVE  /\ Edited(body) \in Row /\ Edited(body).status = "live"
           /\ Edited(body).version = note.version + 1 /\ Edited(body).body = body
           /\ note.version + 1 \in 1 .. MaxVersion
<1>1. note \in Row /\ note.version \in 0 .. MaxVersion
  BY DEF IInv, TypeOK, Row
<1>2. note.version + 1 \in 0 .. MaxVersion /\ note.version + 1 \in 1 .. MaxVersion
  BY <1>1, NotesAssumption
<1> DEFINE version == note.version + 1
<1>3. Edited(body) = [note EXCEPT !.version = version, !.body = body]
  BY DEF Edited
<1>4. version \in 0 .. MaxVersion
  BY <1>2
<1>5. version = note.version + 1 /\ version \in 1 .. MaxVersion
  BY <1>2
<1> HIDE DEF version
<1> QED
  BY <1>1, <1>3, <1>4, <1>5 DEF Row

LEMMA UpdateStep ==
    ASSUME IInv, NEW w \in Workers, UpdateNote(w)
    PROVE  IInv'
<1>1. PICK body \in {Decrypted, Text(note.version + 1, 1)} :
          /\ Prepare(w, "edit", [requests[w] EXCEPT !.row = Edited(body)])
          /\ cache' = Kept(Edited(body))
  BY DEF UpdateNote
<1>2. /\ May(w, WriteLevel) /\ note.status = "live" /\ note.version < MaxVersion
      /\ requests[w] \in Request
  BY RequestFacts DEF UpdateNote, May
<1>3. body \in Bodies
  <2>1. Decrypted \in Bodies
    BY <1>2, DecryptedIsCurrent
  <2>2. Text(note.version + 1, 1) \in Bodies
    <3>1. note.version + 1 \in 1 .. MaxVersion
      BY <1>2, <2>1, EditedType
    <3> QED
      BY <3>1, TextType
  <2> QED
    BY <2>1, <2>2
<1> DEFINE new == [requests[w] EXCEPT !.row = Edited(body)]
<1>4. new \in Request /\ new.user = requests[w].user /\ new.row = Edited(body)
  BY <1>2, <1>3, EditedType DEF Request
<1>5. Prepared([new EXCEPT !.stage = "written", !.op = "edit"])
  BY <1>2, <1>3, <1>4, EditedType DEF Prepared, Request
<1>6. "edit" \in Ops /\ Needed["edit"] = WriteLevel
  BY DEF Ops, Needed
<1> HIDE DEF new
<1> QED
  BY <1>1, <1>2, <1>4, <1>5, <1>6, PreparedStep DEF Kept, new

LEMMA OperateStep ==
    ASSUME IInv, NEW w \in Workers, ApplyOperation(w)
    PROVE  IInv'
<1>1. PICK kind \in {"insert", "delete"}, length \in Lengths, base \in 1 .. note.version :
      \E pos \in 0 .. Len(contents[base]) + 1 :
          LET o   == [version |-> note.version + 1, kind |-> kind,
                      at |-> Rebase(pos, base), length |-> length]
              row == Edited(Apply(Decrypted, o))
          IN  /\ Prepare(w, "operate",
                         [requests[w] EXCEPT
                              !.row = row, !.base = base, !.asked = pos,
                              !.rebased = LogCovers(base), !.applied = o])
              /\ cache' = Kept(row)
  BY DEF ApplyOperation
<1>2. /\ May(w, WriteLevel) /\ note.status = "live" /\ note.version < MaxVersion
      /\ requests[w] \in Request /\ Decrypted \in Bodies
  BY RequestFacts, DecryptedIsCurrent DEF ApplyOperation, May
<1>3. note.version + 1 \in 1 .. MaxVersion
  BY <1>2, EditedType
<1>4. base \in 0 .. MaxVersion /\ Len(contents[base]) \in Nat
  <2>1. base \in 1 .. Len(contents) /\ note.version \in 0 .. MaxVersion
    BY <1>2, DecryptedIsCurrent, RequestFacts DEF Row
  <2>2. contents[base] \in Bodies
    BY <2>1, RequestFacts, ElementOfSeq
  <2> QED
    BY <2>1, <2>2, LenProperties, NotesAssumption DEF Bodies
<1> DEFINE applied(pos) == [version |-> note.version + 1, kind |-> kind,
                            at |-> Rebase(pos, base), length |-> length]
<1>5. PICK pos \in 0 .. Len(contents[base]) + 1 :
          /\ Prepare(w, "operate",
                     [requests[w] EXCEPT
                          !.row = Edited(Apply(Decrypted, applied(pos))), !.base = base,
                          !.asked = pos, !.rebased = LogCovers(base),
                          !.applied = applied(pos)])
          /\ cache' = Kept(Edited(Apply(Decrypted, applied(pos))))
  BY <1>1
<1>6. pos \in Nat /\ Rebase(pos, base) \in Nat
  BY <1>4, RebaseType DEF IInv, TypeOK
<1>7. PICK o \in Operation : o = applied(pos)
  <2>1. applied(pos) \in Operation
    BY <1>3, <1>6 DEF Operation
  <2> QED
    BY <2>1
<1>8. PICK body \in Bodies : body = Apply(Decrypted, o)
  BY <1>2, SpliceType
<1>9. PICK covers \in BOOLEAN : covers = LogCovers(base)
  BY DEF LogCovers
<1>10. PICK row \in Row :
          row = Edited(body) /\ row.status = "live" /\ row.version = note.version + 1
  BY <1>2, EditedType
<1> DEFINE new == [requests[w] EXCEPT !.row = row, !.base = base, !.asked = pos,
                                      !.rebased = covers, !.applied = o]
<1>11. Prepare(w, "operate", new) /\ cache' = NoEntry
  BY <1>5, <1>7, <1>8, <1>9, <1>10 DEF Kept
<1>12. /\ new \in Request /\ new.user = requests[w].user /\ new.row = row
       /\ new.applied = o
  BY <1>2, <1>4, <1>6 DEF Request
<1> HIDE DEF new
<1>13. Prepared([new EXCEPT !.stage = "written", !.op = "operate"])
  BY <1>2, <1>10, <1>12 DEF Prepared, Request
<1>14. "operate" \in Ops /\ Needed["operate"] = WriteLevel
  BY DEF Ops, Needed
<1> QED
  BY <1>2, <1>11, <1>12, <1>13, <1>14, PreparedStep

LEMMA DeleteStep ==
    ASSUME IInv, NEW w \in Workers, DeleteNote(w)
    PROVE  IInv'
<1> DEFINE row == [note EXCEPT !.status = "deleted"]
           new == [requests[w] EXCEPT !.row = row]
<1>1. row \in Row /\ requests[w] \in Request
  BY RequestFacts DEF Row
<1>2. Prepare(w, "delete", new) /\ May(w, AdminLevel) /\ cache' = NoEntry
  BY DEF DeleteNote, Kept
<1> HIDE DEF row
<1>3. new \in Request /\ new.user = requests[w].user /\ new.row = row
  BY <1>1 DEF Request
<1> HIDE DEF new
<1>4. Prepared([new EXCEPT !.stage = "written", !.op = "delete"])
  BY <1>3 DEF Prepared, Request, row
<1>5. "delete" \in Ops /\ Needed["delete"] = AdminLevel
  BY DEF Ops, Needed
<1> QED
  BY <1>2, <1>3, <1>4, <1>5, PreparedStep

LEMMA SharingSteps ==
    ASSUME IInv, NEW w \in Workers, SharingRoutes(w)
    PROVE  IInv'
<1>1. /\ requests[w] \in Request /\ requests[w].row = NoRow
      /\ May(w, AdminLevel) /\ cache' = cache
  BY RequestFacts DEF SharingRoutes, ShareNote, CreateLink, Knows
<1>2. /\ "share" \in Ops /\ Needed["share"] = AdminLevel
      /\ "link" \in Ops /\ Needed["link"] = AdminLevel
  BY DEF Ops, Needed
<1>3. CASE ShareNote(w)
  <2>1. PICK to \in Users, level \in Levels \ {0} :
           Prepare(w, "share", [requests[w] EXCEPT !.grant = [to |-> to, level |-> level]])
    BY <1>3 DEF ShareNote
  <2> DEFINE grant == [to |-> to, level |-> level]
             new   == [requests[w] EXCEPT !.grant = grant]
  <2>2. /\ new \in Request /\ new.user = requests[w].user /\ new.row = NoRow
        /\ new.grant.to \in Users
    BY <1>1 DEF Request
  <2>3. Prepare(w, "share", new)
    BY <2>1
  <2> HIDE DEF new
  <2>4. Prepared([new EXCEPT !.stage = "written", !.op = "share"])
    BY <2>2 DEF Prepared, Request
  <2> QED
    BY <1>1, <1>2, <2>2, <2>3, <2>4, PreparedStep
<1>4. CASE CreateLink(w)
  <2>1. PICK l \in Links : Prepare(w, "link", [requests[w] EXCEPT !.link = l])
    BY <1>4 DEF CreateLink
  <2> DEFINE new == [requests[w] EXCEPT !.link = l]
  <2>2. /\ new \in Request /\ new.user = requests[w].user /\ new.row = NoRow
        /\ new.link \in Links
    BY <1>1 DEF Request
  <2>3. Prepare(w, "link", new)
    BY <2>1
  <2> HIDE DEF new
  <2>4. Prepared([new EXCEPT !.stage = "written", !.op = "link"])
    BY <2>2 DEF Prepared, Request
  <2> QED
    BY <1>1, <1>2, <2>2, <2>3, <2>4, PreparedStep
<1> QED
  BY <1>3, <1>4 DEF SharingRoutes

LEMMA RecordStep ==
    ASSUME IInv, NEW w \in Workers, RecordOperation(w)
    PROVE  IInv'
<1>1. requests[w].applied \in Operation
  BY RequestFacts DEF RecordOperation, Knows
<1>2. Append(oplog, requests[w].applied) \in Seq(Operation)
  BY <1>1, AppendProperties DEF IInv, TypeOK
<1>3. MemoryIsSound
  BY <1>2, TrimmedType DEF RecordOperation, MemoryIsSound, IInv, TypeOK, CacheIsCommitted
<1>4. Idle.stage = "idle"
  BY DEF Idle
<1> QED
  BY <1>3, <1>4, IdleIsRequest, RequestFacts, RequestStep
  DEF RecordOperation, RowsUnchanged

LEMMA PublicSteps ==
    ASSUME IInv, NEW w \in Workers, PublicRoutes(w)
    PROVE  IInv'
<1>1. MemoryIsSound /\ RowsUnchanged /\ lock' = lock
  BY MemoryKept DEF PublicRoutes, ResolveLink, LoadShared, AnswerShared, RowsUnchanged
<1>2. ASSUME NEW q \in Request, Knows(q), q.stage \notin {"locked", "written"},
             requests' = [requests EXCEPT ![w] = q]
      PROVE  IInv'
  BY <1>1, <1>2, RequestFacts, RequestStep
<1>3. CASE ResolveLink(w)
  <2> DEFINE q == [Idle EXCEPT !.stage = "resolved", !.op = "open"]
  <2>1. q \in Request /\ q.stage = "resolved"
    BY IdleIsRequest DEF Idle, Request, Ops
  <2>2. Knows(q) /\ requests' = [requests EXCEPT ![w] = q]
    BY <1>3, <2>1 DEF Knows, ResolveLink
  <2> HIDE DEF q
  <2> QED
    BY <1>2, <2>1, <2>2
<1>4. CASE LoadShared(w)
  <2> DEFINE q == [requests[w] EXCEPT !.stage = "loaded", !.row = note]
  <2>1. q \in Request /\ q.stage = "loaded" /\ q.row = note
    <3>1. requests[w] \in Request /\ note \in Row
      BY RequestFacts
    <3> QED
      BY <3>1 DEF Request
  <2>2. requests' = [requests EXCEPT ![w] = q]
    BY <1>4 DEF LoadShared
  <2>3. /\ note.version \in 1 .. Len(contents) /\ contents # <<>>
        /\ note.version = Len(contents)
    BY <1>4, DecryptedIsCurrent, EmptySeq DEF LoadShared
  <2>4. note.version \in DOMAIN contents /\ note.body = contents[note.version]
    BY <2>3, RequestFacts, LenProperties DEF IInv, NoteIsLatest
  <2> HIDE DEF q
  <2>5. Knows(q)
    BY <2>1, <2>4 DEF Knows
  <2> QED
    BY <1>2, <2>1, <2>2, <2>5
<1>5. CASE AnswerShared(w)
  <2> DEFINE shown == requests[w].row
             q     == Answered("open", shown.version, shown.body)
  <2>1. /\ requests[w] \in Request /\ shown.version \in DOMAIN contents
        /\ shown.body = contents[shown.version]
    BY <1>5, RequestFacts DEF AnswerShared, Knows
  <2>2. shown \in Row /\ shown.version \in 0 .. MaxVersion /\ shown.body \in Bodies
    BY <2>1 DEF Request, Row
  <2>3. q \in Request /\ q.stage = "answered"
    BY <2>2, IdleIsRequest DEF Answered, Idle, Request, Ops
  <2>4. q.base = shown.version /\ q.answer = contents[shown.version]
    BY <2>1 DEF Answered, Idle
  <2>5. shown.version \in shown.version .. Len(contents)
    BY <2>1, RequestFacts, LenProperties
  <2>6. Knows(q)
    BY <2>1, <2>3, <2>4, <2>5 DEF Knows
  <2>7. requests' = [requests EXCEPT ![w] = q]
    BY <1>5 DEF AnswerShared
  <2> HIDE DEF q
  <2> QED
    BY <1>2, <2>3, <2>6, <2>7
<1> QED
  BY <1>3, <1>4, <1>5 DEF PublicRoutes

LEMMA EndSteps ==
    ASSUME IInv, NEW w \in Workers, Done(w) \/ Abort(w)
    PROVE  IInv'
<1>1. MemoryIsSound /\ RowsUnchanged /\ lock' \in {lock, Released(w)}
  BY MemoryKept DEF Done, Abort, RowsUnchanged
<1>2. requests' = [requests EXCEPT ![w] = Idle] /\ Idle.stage = "idle"
  BY DEF Done, Abort, Idle
<1>3. lock' \in Workers \cup {None} /\ \A v \in Workers \ {w} : lock = v => lock' = v
  BY <1>1, RequestFacts
<1> QED
  BY <1>1, <1>2, <1>3, IdleIsRequest, RequestFacts, RequestStep

-----------------------------------------------------------------------------
(* The commit.                                                             *)

\* What a commit does to the row and the bodies.
LEMMA CommitWrites ==
    ASSUME IInv, NEW w \in Workers, Commit(w)
    PROVE  \/ /\ requests[w].op \in {"create", "edit", "operate"}
              /\ note.status # "deleted"
              /\ note' \in Row /\ note'.status = "live"
              /\ note'.version = note.version + 1
              /\ contents' = Append(contents, note'.body)
              /\ UNCHANGED <<shares, links>>
           \/ /\ requests[w].op = "delete"
              /\ note' = [note EXCEPT !.status = "deleted"]
              /\ UNCHANGED <<contents, shares, links>>
           \/ /\ requests[w].op \in {"share", "link"}
              /\ UNCHANGED <<note, contents>>
<1> DEFINE r == requests[w]
<1>1. r \in Request /\ r.row \in Row /\ Prepared(r) /\ note \in Row
  BY RequestFacts DEF Commit, Knows, Request
<1>2. note' = IF r.row = NoRow THEN note ELSE r.row
  BY DEF Commit
<1>3. contents' = IF r.op \in {"create", "edit", "operate"}
                  THEN Append(contents, r.row.body) ELSE contents
  BY DEF Commit
<1>4. r.op # "share" => shares' = shares
  BY DEF Commit
<1>5. r.op # "link" => links' = links
  BY DEF Commit
<1>6. NoRow.status = "unused"
  BY DEF NoRow
<1>7. CASE r.op \in {"create", "edit", "operate"}
  <2>1. /\ r.row.status = "live" /\ r.row.version = note.version + 1
        /\ note.status # "deleted"
    <3>1. note.status = "unused" => note.version = 0
      BY EmptySeq DEF IInv, NoteIsLatest
    <3> QED
      BY <1>1, <1>7, <3>1 DEF Prepared
  <2>2. note' = r.row
    BY <1>2, <1>6, <2>1
  <2> QED
    BY <1>1, <1>3, <1>4, <1>5, <1>7, <2>1, <2>2
<1>8. CASE r.op = "delete"
  <2>1. r.row = [note EXCEPT !.status = "deleted"]
    BY <1>1, <1>8 DEF Prepared
  <2>2. r.row.status = "deleted"
    BY <1>1, <2>1 DEF Row
  <2> QED
    BY <1>2, <1>3, <1>4, <1>5, <1>6, <1>8, <2>1, <2>2
<1>9. CASE r.op \in {"share", "link"}
  <2>1. r.row = NoRow
    BY <1>1, <1>9 DEF Prepared
  <2> QED
    BY <1>2, <1>3, <1>9, <2>1
<1> QED
  BY <1>1, <1>7, <1>8, <1>9 DEF Prepared

\* Bodies are only added.
LEMMA ContentsExtend ==
    ASSUME IInv, NEW body \in Bodies, contents' = Append(contents, body)
    PROVE  /\ contents' \in Seq(Bodies) /\ Len(contents') = Len(contents) + 1
           /\ Len(contents) \in Nat /\ contents' # <<>>
           /\ DOMAIN contents = 1 .. Len(contents)
           /\ DOMAIN contents' = 1 .. Len(contents) + 1
           /\ contents'[Len(contents) + 1] = body
           /\ \A i \in 1 .. Len(contents) : contents'[i] = contents[i]
  BY AppendProperties, LenProperties, EmptySeq DEF IInv, TypeOK

LEMMA CommitStep ==
    ASSUME IInv, NEW w \in Workers, Commit(w)
    PROVE  IInv'
<1> DEFINE r == requests[w]
           q == IF r.op = "operate"
                THEN [Idle EXCEPT !.stage = "committed", !.applied = r.applied]
                ELSE Idle
<1>1. /\ r \in Request /\ Prepared(r) /\ lock = w /\ note \in Row
      /\ contents \in Seq(Bodies)
  BY RequestFacts DEF Commit, Knows, HoldsLock
<1>2. \A v \in Workers \ {w} : requests[v].stage \notin {"locked", "written"}
  BY <1>1, RequestFacts DEF HoldsLock
<1>3. q \in Request /\ q.stage \in {"idle", "committed"}
  <2>1. r.applied \in Operation \cup {NoOperation}
    BY <1>1 DEF Request
  <2>2. /\ [Idle EXCEPT !.stage = "committed", !.applied = r.applied] \in Request
        /\ [Idle EXCEPT !.stage = "committed", !.applied = r.applied].stage = "committed"
    BY <2>1, IdleIsRequest DEF Idle, Request
  <2> QED
    BY <2>2, IdleIsRequest DEF Idle
<1>4. q.stage = "committed" => q.applied \in Operation
  BY <1>1 DEF Idle, Prepared
<1>5. requests' = [requests EXCEPT ![w] = q]
  BY DEF Commit
<1> HIDE DEF q
<1>6. \A v \in Workers : requests'[v] = IF v = w THEN q ELSE requests[v]
  BY <1>5 DEF IInv, TypeOK
<1>7. \/ /\ contents' = contents
         /\ \/ note' = note
            \/ note' = [note EXCEPT !.status = "deleted"] /\ r.op = "delete"
      \/ /\ note' \in Row /\ note'.status = "live"
         /\ note'.version = note.version + 1
         /\ contents' = Append(contents, note'.body)
  BY CommitWrites
<1>8. TypeOK'
  <2>1. note' \in Row
    BY <1>1, <1>7 DEF Row
  <2>2. contents' \in Seq(Bodies)
    <3>1. note'.body \in Bodies
      BY <2>1 DEF Row
    <3> QED
      BY <1>1, <1>7, <3>1, ContentsExtend
  <2>3. shares' \in [Users -> Levels]
    <3>1. r.op = "share" => r.grant.to \in Users /\ r.grant.level \in Levels
      BY <1>1 DEF Prepared, Request
    <3> QED
      BY <3>1 DEF Commit, IInv, TypeOK
  <2>4. links' \in [Links -> {"unused", "open", "expired"}]
    BY <1>1 DEF Commit, Prepared, IInv, TypeOK
  <2>5. lock' \in Workers \cup {None}
    BY RequestFacts DEF Commit
  <2>6. requests' \in [Workers -> Request]
    BY <1>3, <1>5 DEF IInv, TypeOK
  <2> QED
    BY <2>1, <2>2, <2>3, <2>4, <2>5, <2>6 DEF TypeOK, Commit, IInv
<1>9. /\ Len(contents) \in Nat /\ Len(contents') \in Nat
      /\ Len(contents) <= Len(contents')
      /\ DOMAIN contents = 1 .. Len(contents) /\ DOMAIN contents' = 1 .. Len(contents')
      /\ \A i \in 1 .. Len(contents) : contents'[i] = contents[i]
  <2>1. CASE contents' = contents
    BY <1>1, <2>1, LenProperties
  <2>2. CASE contents' # contents
    <3>1. note'.body \in Bodies /\ contents' = Append(contents, note'.body)
      BY <1>7, <2>2 DEF Row
    <3> QED
      BY <3>1, ContentsExtend
  <2> QED
    BY <2>1, <2>2
<1>10. NoteIsLatest'
  <2>1. CASE /\ note' \in Row /\ note'.status = "live"
             /\ note'.version = note.version + 1
             /\ contents' = Append(contents, note'.body)
    <3>1. note'.body \in Bodies
      BY <2>1 DEF Row
    <3>2. note'.version = Len(contents') /\ contents' # <<>>
          /\ contents'[Len(contents')] = note'.body
      BY <2>1, <3>1, ContentsExtend DEF IInv, NoteIsLatest
    <3> QED
      BY <2>1, <3>2 DEF NoteIsLatest
  <2>2. CASE /\ contents' = contents /\ r.op = "delete"
             /\ note' = [note EXCEPT !.status = "deleted"]
    <3>1. note.status = "live"
      BY <2>2, RequestFacts DEF IInv, AccessHeldUntilCommit, Commit, Needed, May
    <3> QED
      BY <1>1, <2>2, <3>1 DEF IInv, NoteIsLatest, Row
  <2>3. CASE contents' = contents /\ note' = note
    BY <2>3 DEF IInv, NoteIsLatest
  <2> QED
    BY <1>7, <2>1, <2>2, <2>3
<1>11. CacheIsCommitted'
  <2>1. cache' = cache /\ cache.version \in Nat
    BY NotesAssumption DEF Commit, IInv, TypeOK, Entry
  <2>2. cache.version <= Len(contents) /\ (cache.version > 0 => cache.body = contents[cache.version])
    BY DEF IInv, CacheIsCommitted
  <2>3. cache.version <= Len(contents')
    BY <1>9, <2>1, <2>2
  <2>4. cache.version > 0 => cache.body = contents'[cache.version]
    BY <1>9, <2>1, <2>2
  <2> QED
    BY <2>1, <2>3, <2>4 DEF CacheIsCommitted
<1>12. RequestsKnow'
  <2> SUFFICES ASSUME NEW v \in Workers
               PROVE  HoldsLock(v)' /\ Knows(requests[v])'
    BY DEF RequestsKnow
  <2>1. CASE v = w
    BY <1>3, <1>4, <1>6, <2>1 DEF HoldsLock, Knows
  <2>2. CASE v # w
    <3> DEFINE p == requests[v]
    <3>1. /\ p \in Request /\ Knows(p) /\ p.stage \notin {"locked", "written"}
          /\ requests'[v] = p
      BY <1>2, <1>6, <2>2, RequestFacts
    <3>2. p.row.version \in Nat /\ p.base \in Nat
      BY <3>1, NotesAssumption DEF Request, Row
    <3>3. p.stage = "loaded" => /\ p.row.version \in DOMAIN contents'
                                /\ p.row.body = contents'[p.row.version]
      BY <1>9, <3>1, <3>2 DEF Knows
    <3>4. p.stage = "answered" => /\ p.base \in DOMAIN contents'
                                  /\ \E i \in p.base .. Len(contents') :
                                         p.answer = contents'[i]
      <4> SUFFICES ASSUME p.stage = "answered"
                   PROVE  /\ p.base \in DOMAIN contents'
                          /\ \E i \in p.base .. Len(contents') :
                                 p.answer = contents'[i]
        OBVIOUS
      <4>1. /\ p.base \in 1 .. Len(contents)
            /\ \E i \in p.base .. Len(contents) : p.answer = contents[i]
        BY <1>9, <3>1 DEF Knows
      <4>2. PICK i \in p.base .. Len(contents) : p.answer = contents[i]
        BY <4>1
      <4>3. i \in p.base .. Len(contents') /\ i \in 1 .. Len(contents)
        BY <1>9, <3>2, <4>1
      <4> QED
        BY <1>9, <4>1, <4>2, <4>3
    <3> QED
      BY <3>1, <3>3, <3>4 DEF HoldsLock, Knows
  <2> QED
    BY <2>1, <2>2
<1>13. AccessHeldUntilCommit'
  BY <1>2, <1>3, <1>6 DEF AccessHeldUntilCommit
<1> QED
  BY <1>8, <1>10, <1>11, <1>12, <1>13 DEF IInv

-----------------------------------------------------------------------------
(* What happens around the requests.                                       *)

LEMMA EnvironmentStep ==
    ASSUME IInv,
           \/ \E u \in Users, role \in Roles \cup {None} : ChangeMembership(u, role)
           \/ \E l \in Links : LapseLink(l)
           \/ Evict
           \/ Restart
    PROVE  IInv'
<1>1. CASE \E u \in Users, role \in Roles \cup {None} : ChangeMembership(u, role)
  <2> PICK u \in Users, role \in Roles \cup {None} : ChangeMembership(u, role)
    BY <1>1
  <2>1. roles' \in [Users -> Roles \cup {None}]
    BY DEF ChangeMembership, IInv, TypeOK
  <2>2. \A w \in Workers : requests[w].stage \notin {"locked", "written"}
    BY NotesAssumption, RequestFacts DEF HoldsLock, ChangeMembership, LockIsFree
  <2>3. TypeOK' /\ NoteIsLatest' /\ CacheIsCommitted'
    BY <2>1 DEF ChangeMembership, IInv, TypeOK, NoteIsLatest, CacheIsCommitted
  <2>4. RequestsKnow'
    BY DEF ChangeMembership, IInv, RequestsKnow, HoldsLock, Knows, Prepared
  <2>5. AccessHeldUntilCommit'
    BY <2>2 DEF ChangeMembership, AccessHeldUntilCommit
  <2> QED
    BY <2>3, <2>4, <2>5 DEF IInv
<1>2. CASE \E l \in Links : LapseLink(l)
  <2>1. TypeOK' /\ NoteIsLatest' /\ CacheIsCommitted'
    BY <1>2 DEF LapseLink, IInv, TypeOK, NoteIsLatest, CacheIsCommitted
  <2>2. RequestsKnow'
    BY <1>2 DEF LapseLink, IInv, RequestsKnow, HoldsLock, Knows, Prepared
  <2>3. AccessHeldUntilCommit'
    BY <1>2 DEF LapseLink, IInv, AccessHeldUntilCommit, May, NoteLevel
  <2> QED
    BY <2>1, <2>2, <2>3 DEF IInv
<1>3. CASE Evict
  <2>1. TypeOK' /\ NoteIsLatest' /\ CacheIsCommitted'
    BY <1>3, MemoryKept DEF Evict, RowsUnchanged, MemoryIsSound, IInv, TypeOK,
                            NoteIsLatest, CacheIsCommitted
  <2>2. RequestsKnow'
    BY <1>3 DEF Evict, IInv, RequestsKnow, HoldsLock, Knows, Prepared
  <2>3. AccessHeldUntilCommit'
    BY <1>3 DEF Evict, IInv, AccessHeldUntilCommit, May, NoteLevel
  <2> QED
    BY <2>1, <2>2, <2>3 DEF IInv
<1>4. CASE Restart
  <2>1. \A w \in Workers : requests'[w] = Idle /\ Idle.stage = "idle"
    BY <1>4 DEF Restart, Idle
  <2>2. TypeOK'
    BY <1>4, NotesAssumption, IdleIsRequest DEF Restart, IInv, TypeOK
  <2>3. NoteIsLatest' /\ CacheIsCommitted'
    BY <1>4, LenProperties DEF Restart, IInv, TypeOK, NoteIsLatest, CacheIsCommitted, NoEntry
  <2>4. RequestsKnow'
    BY <2>1 DEF RequestsKnow, HoldsLock, Knows
  <2>5. AccessHeldUntilCommit'
    BY <2>1 DEF AccessHeldUntilCommit
  <2> QED
    BY <2>2, <2>3, <2>4, <2>5 DEF IInv
<1> QED
  BY <1>1, <1>2, <1>3, <1>4

LEMMA NextIInv == IInv /\ [Next]_vars => IInv'
<1> SUFFICES ASSUME IInv, [Next]_vars PROVE IInv'
  OBVIOUS
<1>1. CASE UNCHANGED vars
  <2>1. TypeOK' /\ NoteIsLatest' /\ CacheIsCommitted'
    BY <1>1 DEF vars, IInv, TypeOK, NoteIsLatest, CacheIsCommitted
  <2>2. RequestsKnow'
    BY <1>1 DEF vars, IInv, RequestsKnow, HoldsLock, Knows, Prepared
  <2>3. AccessHeldUntilCommit'
    BY <1>1 DEF vars, IInv, AccessHeldUntilCommit, May, NoteLevel
  <2> QED
    BY <2>1, <2>2, <2>3 DEF IInv
<1>2. ASSUME NEW w \in Workers,
             \/ Enter(w) \/ Meter(w)
             \/ NoteRoutes(w) \/ SharingRoutes(w) \/ PublicRoutes(w)
             \/ ApplyOperation(w) \/ Commit(w) \/ RecordOperation(w)
             \/ Done(w) \/ Abort(w)
      PROVE  IInv'
  BY <1>2, EnterStep, MeterStep, CreateStep, GetStep, UpdateStep, DeleteStep,
     SharingSteps, PublicSteps, OperateStep, CommitStep, RecordStep, EndSteps
  DEF NoteRoutes
<1> QED
  BY <1>1, <1>2, EnvironmentStep DEF Next

LEMMA Invariance == Spec => []IInv
  BY InitIInv, NextIInv, PTL DEF Spec

\* The note is consistent whatever requests overlap, fail or are lost with the
\* process: no update is lost, though its version is compared and incremented
\* in memory, and whoever commits a change still has the access it needs,
\* because the call was metered under the write lock before access was checked.
THEOREM NoteStaysConsistent == Spec => []NoteIsConsistent
<1>1. IInv => NoteIsConsistent
  BY DEF IInv, NoteIsConsistent, NoteIsLatest, VersionCountsEdits
<1> QED
  BY <1>1, Invariance, PTL

-----------------------------------------------------------------------------
(* Operational transformation: where a mark is after other operations.     *)

LEMMA ConcatIndex ==
    ASSUME NEW s \in Seq(Marks), NEW t \in Seq(Marks)
    PROVE  /\ s \o t \in Seq(Marks) /\ Len(s \o t) = Len(s) + Len(t)
           /\ \A j \in 1 .. Len(s) : (s \o t)[j] = s[j]
           /\ \A j \in Len(s) + 1 .. Len(s) + Len(t) : (s \o t)[j] = t[j - Len(s)]
<1>1. Len(s) \in Nat /\ Len(t) \in Nat
  BY LenProperties
<1>2. /\ s \o t \in Seq(Marks) /\ Len(s \o t) = Len(s) + Len(t)
      /\ \A j \in 1 .. Len(s) + Len(t) :
            (s \o t)[j] = IF j <= Len(s) THEN s[j] ELSE t[j - Len(s)]
  BY ConcatProperties
<1>3. ASSUME NEW j \in 1 .. Len(s) PROVE (s \o t)[j] = s[j]
  <2>1. j \in 1 .. Len(s) + Len(t) /\ j <= Len(s)
    BY <1>1
  <2> QED
    BY <1>2, <2>1
<1>4. ASSUME NEW j \in Len(s) + 1 .. Len(s) + Len(t)
      PROVE  (s \o t)[j] = t[j - Len(s)]
  <2>1. j \in 1 .. Len(s) + Len(t) /\ ~ (j <= Len(s))
    BY <1>1
  <2> QED
    BY <1>2, <2>1
<1> QED
  BY <1>2, <1>3, <1>4

\* An operation replaces what stands between two places: where its text is.
Spliced(b, body, at, end, text) ==
    /\ Len(b) = at + Len(text) + (Len(body) - end)
    /\ \A j \in 1 .. at : b[j] = body[j]
    /\ \A j \in at + 1 .. at + Len(text) : b[j] = text[j - at]
    /\ \A j \in at + Len(text) + 1 .. Len(b) :
          b[j] = body[(j - Len(text)) + (end - at)]

LEMMA SpliceIndex ==
    ASSUME NEW body \in Bodies, NEW text \in Bodies,
           NEW at \in 0 .. Len(body), NEW end \in at .. Len(body)
    PROVE  Spliced(SubSeq(body, 1, at) \o text \o SubSeq(body, end + 1, Len(body)),
                   body, at, end, text)
<1> DEFINE left  == SubSeq(body, 1, at)
           right == SubSeq(body, end + 1, Len(body))
           front == left \o text
           b     == front \o right
           n     == Len(body)
           l     == Len(text)
<1> USE DEF Bodies
<1>0. n \in Nat /\ l \in Nat /\ at \in Nat /\ end \in Nat /\ at <= end /\ end <= n
  BY LenProperties
<1>1. /\ left \in Seq(Marks) /\ Len(left) = at
      /\ \A j \in 1 .. at : left[j] = body[j]
  BY <1>0, SubSeqProperties
<1>2. /\ right \in Seq(Marks) /\ Len(right) = n - end
      /\ \A j \in 1 .. n - end : right[j] = body[end + j]
  <2>1. /\ right \in Seq(Marks)
        /\ Len(right) = IF end + 1 <= n THEN n - (end + 1) + 1 ELSE 0
        /\ \A j \in 1 .. n - (end + 1) + 1 : right[j] = body[(end + 1) + j - 1]
    BY <1>0, SubSeqProperties
  <2>2. \A j \in 1 .. n - end : j \in 1 .. n - (end + 1) + 1 /\ (end + 1) + j - 1 = end + j
    BY <1>0
  <2> HIDE DEF right
  <2> QED
    BY <1>0, <2>1, <2>2
<1> HIDE DEF left, right
<1>3. /\ front \in Seq(Marks) /\ Len(front) = at + l
      /\ \A j \in 1 .. at : front[j] = body[j]
      /\ \A j \in at + 1 .. at + l : front[j] = text[j - at]
  <2>1. /\ front \in Seq(Marks) /\ Len(front) = Len(left) + Len(text)
        /\ \A j \in 1 .. Len(left) : front[j] = left[j]
        /\ \A j \in Len(left) + 1 .. Len(left) + Len(text) :
              front[j] = text[j - Len(left)]
    BY <1>1, ConcatIndex
  <2> HIDE DEF front
  <2> QED
    BY <1>0, <1>1, <2>1
<1> HIDE DEF front
<1>4. /\ b \in Seq(Marks) /\ Len(b) = at + l + (n - end)
      /\ \A j \in 1 .. at + l : b[j] = front[j]
      /\ \A j \in at + l + 1 .. at + l + (n - end) : b[j] = right[j - (at + l)]
  <2>1. /\ b \in Seq(Marks) /\ Len(b) = Len(front) + Len(right)
        /\ \A j \in 1 .. Len(front) : b[j] = front[j]
        /\ \A j \in Len(front) + 1 .. Len(front) + Len(right) :
              b[j] = right[j - Len(front)]
    BY <1>2, <1>3, ConcatIndex
  <2> HIDE DEF b
  <2> QED
    BY <1>0, <1>2, <1>3, <2>1
<1> HIDE DEF b
<1>5. ASSUME NEW j \in at + l + 1 .. Len(b)
      PROVE  b[j] = body[(j - l) + (end - at)]
  <2>1. /\ j \in at + l + 1 .. at + l + (n - end) /\ j - (at + l) \in 1 .. n - end
        /\ end + (j - (at + l)) = (j - l) + (end - at)
    BY <1>0, <1>4
  <2> QED
    BY <1>2, <1>4, <2>1
<1>6. /\ \A j \in 1 .. at : b[j] = body[j]
      /\ \A j \in at + 1 .. at + l : b[j] = text[j - at]
  BY SMTT(30), <1>0, <1>3, <1>4
<1> QED
  BY <1>4, <1>5, <1>6 DEF Spliced, b, front, left, right

\* What an operation does to the places of a body, in one statement.
Splices(b, body, o) ==
    /\ b \in Bodies /\ Len(b) \in Nat /\ DOMAIN b = 1 .. Len(b)
    /\ Len(b) = Start(body, o) + Len(Inserted(o)) + (Len(body) - End(body, o))
    /\ \A j \in 1 .. Start(body, o) : b[j] = body[j]
    /\ \A j \in Start(body, o) + 1 .. Start(body, o) + Len(Inserted(o)) :
          b[j] = <<o.version, j - Start(body, o)>>
    /\ \A j \in Start(body, o) + Len(Inserted(o)) + 1 .. Len(b) :
          b[j] = body[(j - Len(Inserted(o))) + (End(body, o) - Start(body, o))]

LEMMA AppliedAt ==
    ASSUME NEW body \in Bodies, NEW o \in Operation
    PROVE  Splices(Apply(body, o), body, o)
<1>1. PICK b, at, end, text : /\ b = Apply(body, o) /\ at = Start(body, o)
                              /\ end = End(body, o) /\ text = Inserted(o)
  OBVIOUS
<1>2. /\ at \in 0 .. Len(body) /\ end \in at .. Len(body) /\ text \in Bodies
      /\ b = SubSeq(body, 1, at) \o text \o SubSeq(body, end + 1, Len(body))
      /\ b \in Bodies
  BY <1>1, SpliceType
<1>3. Spliced(b, body, at, end, text)
  BY <1>2, SpliceIndex
<1>4. ASSUME NEW j \in at + 1 .. at + Len(text) PROVE text[j - at] = <<o.version, j - at>>
  <2>1. j - at \in 1 .. Len(text)
    <3>1. at \in Nat /\ Len(text) \in Nat
      BY <1>2, LenProperties DEF Bodies
    <3> QED
      BY <3>1
  <2> QED
    BY <1>1, <2>1, SpliceType
<1>5. Len(b) \in Nat /\ DOMAIN b = 1 .. Len(b)
  BY <1>2, LenProperties DEF Bodies
<1> QED
  BY ZenonT(40), <1>1, <1>2, <1>3, <1>4, <1>5 DEF Spliced, Splices

\* The marks before place asked of what a client saw are those before pos.
Between(seen, asked, body, pos) ==
    \A i \in DOMAIN seen, j \in DOMAIN body :
        body[j] = seen[i] => (i <= asked <=> j <= pos)

\* The mark after place asked of what a client saw, where it is left, is the
\* one after pos.
AtTarget(seen, asked, body, pos) ==
    \A j \in DOMAIN body : body[j] = seen[asked + 1] => j = pos + 1

\* Shift keeps its place through an operation of another client.
LEMMA ShiftKeepsPlace ==
    ASSUME NEW seen \in Bodies, NEW asked \in Nat, NEW body \in Bodies,
           NEW pos \in Nat, NEW o \in Operation,
           \A i \in DOMAIN seen : seen[i][1] # o.version,
           Between(seen, asked, body, pos)
    PROVE  /\ Between(seen, asked, Apply(body, o), Shift(pos, o))
           /\ asked < Len(seen) /\ AtTarget(seen, asked, body, pos) =>
                 AtTarget(seen, asked, Apply(body, o), Shift(pos, o))
<1>0. PICK b, at, end, l, p, n : /\ b = Apply(body, o) /\ at = Start(body, o)
                                 /\ end = End(body, o) /\ l = Len(Inserted(o))
                                 /\ p = Shift(pos, o) /\ n = Len(body)
  OBVIOUS
<1>1. /\ o.kind \in {"insert", "delete"} /\ o.at \in Nat /\ n \in Nat
      /\ o.length \in Nat /\ Len(seen) \in Nat
      /\ DOMAIN body = 1 .. n /\ DOMAIN seen = 1 .. Len(seen)
  BY <1>0, NotesAssumption, LenProperties DEF Operation, Bodies
<1>2. /\ Len(b) \in Nat /\ DOMAIN b = 1 .. Len(b)
      /\ Len(b) = at + l + (n - end)
  BY <1>0, AppliedAt DEF Splices
<1>2a. /\ \A j \in 1 .. at : b[j] = body[j]
       /\ \A j \in at + 1 .. at + l : b[j] = <<o.version, j - at>>
       /\ \A j \in at + l + 1 .. Len(b) : b[j] = body[(j - l) + (end - at)]
  BY ZenonT(40), <1>0, AppliedAt DEF Splices
<1>3. PlacesOf(o, n, at, end, l)
  BY <1>0, SpliceFacts
<1>3a. /\ at \in Nat /\ end \in Nat /\ l \in Nat /\ at <= end /\ end <= n
       /\ at <= n /\ n \in Nat /\ p \in Nat /\ o.at \in Nat /\ o.length \in Nat
  BY <1>0, <1>1, <1>3, ShiftType DEF PlacesOf
<1>4. /\ o.kind = "insert" => p = IF o.at <= pos THEN pos + o.length ELSE pos
      /\ o.kind = "delete" =>
            p = IF o.at < pos /\ o.at < pos - o.length THEN pos - o.length
                ELSE IF o.at < pos THEN o.at ELSE pos
  BY <1>0 DEF Shift
\* Where a mark of b that the operation did not insert was in body.
<1> DEFINE Came(j, k) ==
              /\ k \in 1 .. n /\ b[j] = body[k]
              /\ k <= pos <=> j <= p
              /\ k = pos + 1 => j = p + 1
<1>5. ASSUME NEW j \in 1 .. Len(b), b[j][1] # o.version PROVE \E k : Came(j, k)
  <2>0. ~ (j \in at + 1 .. at + l)
    <3> SUFFICES ASSUME j \in at + 1 .. at + l PROVE FALSE
      OBVIOUS
    <3>1. b[j] = <<o.version, j - at>>
      BY <1>2a
    <3> QED
      BY <1>5, <3>1
  <2>1. CASE j <= at
    <3>1. j \in 1 .. at /\ j \in 1 .. n
      BY <1>2, <1>3a, <2>1
    <3>2. b[j] = body[j]
      BY <1>2a, <3>1
    <3>3. (j <= pos <=> j <= p) /\ (j = pos + 1 => j = p + 1)
      <4>1. CASE o.kind = "insert"
        BY SMTT(30), <1>1, <1>3, <1>3a, <1>4, <2>1, <3>1, <4>1 DEF PlacesOf
      <4>2. CASE o.kind = "delete"
        BY <1>1, <1>3, <1>3a, <1>4, <2>1, <3>1, <4>2 DEF PlacesOf
      <4> QED
        BY <1>1, <4>1, <4>2
    <3>4. Came(j, j)
      BY <3>1, <3>2, <3>3
    <3> QED
      BY <3>4
  <2>2. CASE j > at
    <3> DEFINE k == (j - l) + (end - at)
    <3>0. j \in Nat /\ j > at + l /\ j <= Len(b)
      BY <1>2, <1>3a, <2>0, <2>2
    <3>1. j \in at + l + 1 .. Len(b) /\ k \in 1 .. n /\ k > end
      BY <1>2, <1>3a, <3>0
    <3>2. b[j] = body[k]
      BY <1>2a, <3>1
    <3>3. (k <= pos <=> j <= p) /\ (k = pos + 1 => j = p + 1)
      <4>1. PICK x \in Nat, y \in Nat, i \in Nat, z \in Nat :
               /\ x = o.at /\ y = o.length /\ i = k /\ z = j
               /\ i <= n /\ i > end /\ z + end = i + l + at
        <5>1. k \in Nat /\ j \in Nat /\ k <= n /\ k > end /\ j + end = k + l + at
          BY <1>3a, <3>0, <3>1
        <5> HIDE DEF k
        <5> QED
          BY <1>3a, <5>1
      <4> HIDE DEF k
      <4>2. (i <= pos <=> z <= p) /\ (i = pos + 1 => z = p + 1)
        <5>1. CASE o.kind = "insert"
          <6>1. end = at /\ l = y /\ at = IF x <= n THEN x ELSE n
            BY <1>3, <4>1, <5>1 DEF PlacesOf
          <6>2. at = x
            BY <1>3a, <4>1, <6>1
          <6>3. p = IF x <= pos THEN pos + y ELSE pos
            BY <1>4, <4>1, <5>1
          <6>4. i > x /\ z + x = i + y + x
            BY <4>1, <6>1, <6>2, Zenon
          <6>5. z = i + y
            BY <6>4
          <6> QED
            BY <6>3, <6>4, <6>5
        <5>2. CASE o.kind = "delete"
          <6>1. /\ end = IF at + y <= n THEN at + y ELSE n
                /\ l = 0 /\ at = IF x <= n THEN x ELSE n
            BY <1>3, <4>1, <5>2 DEF PlacesOf
          <6>2. end = x + y /\ at = x
            BY <1>3a, <4>1, <6>1
          <6>3. p = IF x < pos /\ x < pos - y THEN pos - y
                    ELSE IF x < pos THEN x ELSE pos
            BY <1>4, <4>1, <5>2
          <6>4. i > x + y /\ z + (x + y) = i + 0 + x
            BY <4>1, <6>1, <6>2, Zenon
          <6>5. i = z + y
            BY <6>4
          <6> QED
            BY <6>3, <6>4, <6>5
        <5> QED
          BY <1>1, <5>1, <5>2
      <4> QED
        BY <4>1, <4>2
    <3>4. Came(j, k)
      BY <3>1, <3>2, <3>3
    <3> QED
      BY <3>4
  <2> QED
    BY <1>3, <1>3a, <2>1, <2>2 DEF PlacesOf
<1>6. Between(seen, asked, b, p)
  <2> SUFFICES ASSUME NEW i \in DOMAIN seen, NEW j \in DOMAIN b, b[j] = seen[i]
               PROVE  i <= asked <=> j <= p
    BY DEF Between
  <2>1. PICK k : Came(j, k)
    BY <1>2, <1>5
  <2> QED
    BY <1>1, <2>1 DEF Between
<1>7. ASSUME asked < Len(seen), AtTarget(seen, asked, body, pos)
      PROVE  AtTarget(seen, asked, b, p)
  <2> SUFFICES ASSUME NEW j \in DOMAIN b, b[j] = seen[asked + 1]
               PROVE  j = p + 1
    BY DEF AtTarget
  <2>0. asked + 1 \in DOMAIN seen
    BY <1>1, <1>7
  <2>1. PICK k : Came(j, k)
    BY <1>2, <1>5, <2>0
  <2>2. k = pos + 1
    BY <1>1, <1>7, <2>1 DEF AtTarget
  <2> QED
    BY <2>1, <2>2
<1> QED
  BY <1>0, <1>6, <1>7

\* An operation is rebased to the place its client meant, if the log has all
\* that its client had not seen.
LEMMA RebaseKeepsPlace ==
    ASSUME TypeOK, LogIsMade, \A v \in DOMAIN contents : Marked(contents[v], v),
           note.version = Len(contents),
           NEW base \in 1 .. note.version, NEW pos \in Nat,
           LogCovers(base)
    PROVE  LET seen == contents[base]
               body == contents[Len(contents)]
           IN  /\ Between(seen, pos, body, Rebase(pos, base))
               /\ pos < Len(seen) => AtTarget(seen, pos, body, Rebase(pos, base))
<1> DEFINE N    == Len(oplog)
           V    == Len(contents)
           m    == V - base
           seen == contents[base]
<1>1. /\ N \in Nat /\ V \in Nat /\ m \in Nat /\ base \in Nat /\ base + m = V
      /\ m <= N /\ N - m \in Nat /\ base >= 1
      /\ oplog \in Seq(Operation) /\ contents \in Seq(Bodies)
      /\ DOMAIN oplog = 1 .. N /\ DOMAIN contents = 1 .. V
  BY LenProperties DEF TypeOK, LogCovers
<1>2. ASSUME NEW i \in 1 .. m
      PROVE  N - m + i \in 1 .. N /\ oplog[N - m + i].version = base + i
  <2> DEFINE tail == SubSeq(oplog, N - m + 1, N)
  <2>1. tail[i].version = base + i
    BY DEF LogCovers
  <2>2. tail[i] = oplog[(N - m + 1) + i - 1]
    <3>1. N - m + 1 \in 1 .. N + 1 /\ N \in N - m .. N /\ i \in 1 .. N - (N - m + 1) + 1
      BY <1>1
    <3> QED
      BY <1>1, <3>1, SubSeqProperties
  <2>3. (N - m + 1) + i - 1 = N - m + i /\ N - m + i \in 1 .. N
    BY <1>1
  <2> HIDE DEF tail
  <2> QED
    BY <2>1, <2>2, <2>3
<1> HIDE DEF N, V, m
<1>3. ASSUME NEW i \in 1 .. N - m PROVE ~ (oplog[i].version > base)
  <2> SUFFICES ASSUME oplog[i].version > base PROVE FALSE
    OBVIOUS
  <2>1. i \in DOMAIN oplog
    BY <1>1
  <2>2. oplog[i].version \in 2 .. V
    BY <2>1 DEF LogIsMade, Made, V
  <2>3. PICK k \in 1 .. m : base + k = oplog[i].version
    <3> DEFINE v == oplog[i].version
    <3>1. v \in 2 .. V /\ v > base
      BY <2>2
    <3> HIDE DEF v
    <3>2. v - base \in 1 .. m /\ base + (v - base) = v
      BY <1>1, <3>1
    <3> QED
      BY <3>2 DEF v
  <2>4. N - m + k \in DOMAIN oplog /\ oplog[N - m + k].version = oplog[i].version
    BY <1>1, <1>2, <2>3
  <2>5. i = N - m + k
    BY <2>1, <2>4 DEF LogIsMade
  <2> QED
    BY <1>1, <2>3, <2>5
<1>4. PICK steps : Rebases(steps, pos, base)
  BY <1>1, RebaseSteps
<1>5. pos \in Nat /\ seen \in Bodies /\ Len(seen) \in Nat /\ DOMAIN seen = 1 .. Len(seen)
  <2>1. seen \in Bodies
    BY <1>1
  <2> HIDE DEF seen
  <2>2. Len(seen) \in Nat /\ DOMAIN seen = 1 .. Len(seen)
    BY <2>1, LenProperties DEF Bodies
  <2> QED
    BY <2>1, <2>2 DEF seen
<1>6. \A i \in 0 .. N : steps[i] \in Nat
  BY <1>1, <1>4, <1>5, StepsType DEF N
<1>7. steps[N - m] = pos
  <2> DEFINE S == {n \in Nat : n <= N - m => steps[n] = pos}
  <2>1. 0 \in S
    BY <1>1, <1>4 DEF Rebases
  <2>2. ASSUME NEW n \in Nat, n \in S PROVE n + 1 \in S
    <3> SUFFICES ASSUME n + 1 <= N - m PROVE steps[n + 1] = pos
      OBVIOUS
    <3>1. /\ n + 1 \in 1 .. N - m /\ n + 1 \in 1 .. N /\ (n + 1) - 1 = n
          /\ steps[n] = pos
      BY <1>1, <2>2
    <3>2. ~ (oplog[n + 1].version > base)
      BY <1>3, <3>1
    <3> QED
      BY <1>4, <3>1, <3>2 DEF Rebases, N
  <2>3. \A n \in Nat : n \in S
    <3> HIDE DEF S
    <3> QED
      BY <2>1, <2>2, Induction
  <2> QED
    BY <1>1, <2>3
<1> DEFINE Place(n) ==
              /\ Between(seen, pos, contents[base + n], steps[N - m + n])
              /\ pos < Len(seen) =>
                    AtTarget(seen, pos, contents[base + n], steps[N - m + n])
           S == {n \in Nat : n <= m => Place(n)}
<1>8. 0 \in S
  <2>1. base + 0 = base /\ N - m + 0 = N - m
    BY <1>1
  <2>2. IsInjective(seen)
    BY <1>1 DEF Marked
  <2>3. Between(seen, pos, seen, pos)
    BY <2>2 DEF Between, IsInjective
  <2>4. ASSUME pos < Len(seen) PROVE AtTarget(seen, pos, seen, pos)
    <3>1. pos + 1 \in DOMAIN seen
      BY <1>5, <2>4
    <3> QED
      BY <2>2, <3>1 DEF AtTarget, IsInjective
  <2>5. Place(0)
    BY <1>7, <2>1, <2>3, <2>4
  <2> HIDE DEF Place
  <2> QED
    BY <2>5
<1>9. ASSUME NEW n \in Nat, n \in S PROVE n + 1 \in S
  <2> SUFFICES ASSUME n + 1 <= m PROVE Place(n + 1)
    OBVIOUS
  <2>1. /\ n + 1 \in 1 .. m /\ n <= m /\ base + (n + 1) = base + n + 1
        /\ (N - m + (n + 1)) - 1 = N - m + n /\ N - m + n \in 0 .. N
        /\ base + n \in 1 .. V /\ (base + n + 1) - 1 = base + n
        /\ base + n + 1 > base
    BY <1>1
  <2>2. Place(n)
    BY <1>9, <2>1
  <2>3. PICK o \in Operation : o = oplog[N - m + (n + 1)]
    <3>1. N - m + (n + 1) \in 1 .. N
      BY <1>2, <2>1
    <3> QED
      BY <1>1, <3>1
  <2>4. N - m + (n + 1) \in 1 .. N /\ o.version = base + n + 1
    BY <1>2, <2>1, <2>3
  <2>5. Made(o)
    BY <1>1, <2>3, <2>4 DEF LogIsMade
  <2>6. steps[N - m + (n + 1)] = Shift(steps[N - m + n], o)
    BY <1>4, <2>1, <2>3, <2>4 DEF Rebases, N
  <2> DEFINE body == contents[base + n]
             p    == steps[N - m + n]
  <2>7. contents[base + (n + 1)] = Apply(body, o)
    BY <2>1, <2>4, <2>5 DEF Made
  <2>8. body \in Bodies /\ IsInjective(body)
    <3>1. base + n \in DOMAIN contents
      BY <1>1, <2>1
    <3> QED
      BY <1>1, <3>1 DEF Marked
  <2>9. p \in Nat
    BY <1>6, <2>1
  <2>10. \A i \in DOMAIN seen : seen[i][1] # o.version
    <3> SUFFICES ASSUME NEW i \in DOMAIN seen PROVE seen[i][1] # o.version
      OBVIOUS
    <3>1. base \in DOMAIN contents /\ i \in 1 .. Len(seen)
      BY <1>1, <1>5
    <3>2. seen[i][1] <= base
      BY <3>1 DEF Marked
    <3> HIDE DEF seen
    <3>3. seen[i] \in Marks
      BY <1>5, <3>1 DEF Bodies
    <3>4. ~ (seen[i][1] = base + n + 1)
      BY <1>1, <3>2, <3>3 DEF Marks
    <3> QED
      BY <2>4, <3>4
  <2>11. Between(seen, pos, body, p) /\ (pos < Len(seen) => AtTarget(seen, pos, body, p))
    BY <2>2
  <2> HIDE DEF seen, body, p
  <2>12. /\ Between(seen, pos, Apply(body, o), Shift(p, o))
         /\ pos < Len(seen) /\ AtTarget(seen, pos, body, p) =>
               AtTarget(seen, pos, Apply(body, o), Shift(p, o))
    BY <1>5, <2>8, <2>9, <2>10, <2>11, ShiftKeepsPlace
  <2> QED
    BY <2>6, <2>7, <2>11, <2>12 DEF p
<1>10. Place(m)
  <2>1. \A n \in Nat : n \in S
    <3> HIDE DEF S
    <3> QED
      BY <1>8, <1>9, Induction
  <2> HIDE DEF Place
  <2> QED
    BY <1>1, <2>1
<1>11. base + m = V /\ N - m + m = N
  BY <1>1
<1> QED
  BY <1>4, <1>10, <1>11 DEF Rebases, N, V

\* What an operation o, asked for at a place of the body seen, should make of
\* body: the text stands between what its client saw on its left and on its
\* right, and a deletion removes its range where that is still in one piece.
Lands(seen, asked, body, o, b) ==
    IF o.kind = "insert"
    THEN \E k \in 0 .. Len(b) :
             /\ StandsAt(Text(o.version, o.length), b, k)
             /\ \A i \in DOMAIN seen, j \in DOMAIN b :
                    b[j] = seen[i] =>
                        IF i <= asked THEN j <= k ELSE j > k + o.length
    ELSE MeansRange(seen, asked, o.length) =>
             \A k \in 0 .. Len(body) :
                 StandsAt(SubSeq(seen, asked + 1, asked + o.length), body, k)
                    => b = Without(body, k, o.length)

\* An operation does where it was rebased to what its client meant.
LEMMA OperationLands ==
    ASSUME NEW seen \in Bodies, NEW asked \in Nat, NEW body \in Bodies,
           NEW o \in Operation,
           \A i \in DOMAIN seen : seen[i][1] # o.version,
           Between(seen, asked, body, o.at),
           asked < Len(seen) => AtTarget(seen, asked, body, o.at)
    PROVE  Lands(seen, asked, body, o, Apply(body, o))
<1>0. PICK b, at, end, l, n : /\ b = Apply(body, o) /\ at = Start(body, o)
                              /\ end = End(body, o) /\ l = Len(Inserted(o))
                              /\ n = Len(body)
  OBVIOUS
<1>1. /\ o.kind \in {"insert", "delete"} /\ o.at \in Nat /\ n \in Nat
      /\ o.length \in Nat /\ o.version \in 1 .. MaxVersion /\ Len(seen) \in Nat
      /\ DOMAIN body = 1 .. n /\ DOMAIN seen = 1 .. Len(seen)
  BY <1>0, NotesAssumption, LenProperties DEF Operation, Bodies
<1>2. /\ b \in Bodies /\ Len(b) \in Nat /\ DOMAIN b = 1 .. Len(b)
      /\ Len(b) = at + l + (n - end)
  BY <1>0, AppliedAt DEF Splices
<1>2a. /\ \A j \in 1 .. at : b[j] = body[j]
       /\ \A j \in at + 1 .. at + l : b[j] = <<o.version, j - at>>
       /\ \A j \in at + l + 1 .. Len(b) : b[j] = body[(j - l) + (end - at)]
  BY ZenonT(40), <1>0, AppliedAt DEF Splices
<1>3. PlacesOf(o, n, at, end, l)
  BY <1>0, SpliceFacts
<1>3a. /\ at \in Nat /\ end \in Nat /\ l \in Nat /\ at <= end /\ end <= n
       /\ at <= n /\ n \in Nat /\ o.at \in Nat /\ o.length \in Nat
  BY <1>1, <1>3 DEF PlacesOf
<1>4. ASSUME o.kind = "insert"
      PROVE  /\ at \in 0 .. Len(b)
             /\ StandsAt(Text(o.version, o.length), b, at)
             /\ \A i \in DOMAIN seen, j \in DOMAIN b :
                    b[j] = seen[i] =>
                        IF i <= asked THEN j <= at ELSE j > at + o.length
  <2>1. end = at /\ l = o.length /\ at + l <= Len(b) /\ at \in 0 .. Len(b)
    BY SMTT(30), <1>1, <1>2, <1>3, <1>3a, <1>4 DEF PlacesOf
  <2>2. StandsAt(Text(o.version, o.length), b, at)
    <3>1. PICK text : text = Text(o.version, o.length)
      OBVIOUS
    <3>2. /\ text \in Seq(Marks) /\ Len(text) = l
          /\ \A j \in 1 .. l : text[j] = <<o.version, j>>
      BY <1>1, <2>1, <3>1, TextType DEF Bodies
    <3>3. PICK piece : piece = SubSeq(b, at + 1, at + l)
      OBVIOUS
    <3>0. \A j \in at + 1 .. at + l : b[j] \in Marks
      BY <1>2, <1>3a, <2>1 DEF Bodies
    <3>4. /\ piece \in Seq(Marks)
          /\ Len(piece) = IF at + 1 <= at + l THEN (at + l) - (at + 1) + 1 ELSE 0
          /\ \A j \in 1 .. (at + l) - (at + 1) + 1 : piece[j] = b[(at + 1) + j - 1]
      BY <1>3a, <3>3, <3>0, SubSeqProperties
    <3>5. Len(piece) = l
      BY <1>3, <1>3a, <3>4 DEF PlacesOf
    <3>6. ASSUME NEW j \in 1 .. l PROVE piece[j] = text[j]
      <4>1. /\ j \in 1 .. (at + l) - (at + 1) + 1 /\ (at + 1) + j - 1 = at + j
            /\ at + j \in at + 1 .. at + l /\ (at + j) - at = j
        BY <1>3a
      <4>2. piece[j] = b[at + j] /\ b[at + j] = <<o.version, (at + j) - at>>
        BY <1>2a, <3>4, <4>1
      <4> QED
        BY <3>2, <4>1, <4>2
    <3>7. piece = text
      BY <3>2, <3>4, <3>5, <3>6, SeqEqual
    <3> QED
      BY <2>1, <3>1, <3>2, <3>3, <3>7 DEF StandsAt
  <2>3. ASSUME NEW i \in DOMAIN seen, NEW j \in DOMAIN b, b[j] = seen[i]
        PROVE  IF i <= asked THEN j <= at ELSE j > at + o.length
    <3>1. ~ (j \in at + 1 .. at + l)
      <4> SUFFICES ASSUME j \in at + 1 .. at + l PROVE FALSE
        OBVIOUS
      <4>1. b[j] = <<o.version, j - at>>
        BY <1>2a
      <4>2. seen[i] = <<o.version, j - at>>
        BY <2>3, <4>1
      <4>3. seen[i][1] = o.version
        BY <4>2
      <4> QED
        BY <4>3
    <3>2. CASE j <= at
      <4>1. j \in 1 .. at /\ j \in DOMAIN body /\ j <= o.at
        BY <1>1, <1>2, <1>3, <1>3a, <3>2 DEF PlacesOf
      <4>2. body[j] = seen[i]
        BY <1>2a, <2>3, <4>1
      <4>3. i <= asked
        BY <4>1, <4>2 DEF Between
      <4> QED
        BY <3>2, <4>3
    <3>3. CASE j > at
      <4>1. j \in at + l + 1 .. Len(b) /\ (j - l) + (end - at) = j - l
        BY SMTT(30), <1>2, <1>3a, <2>1, <3>1, <3>3
      <4>0. /\ j - l \in Nat /\ j - l > at /\ j - l <= n
            /\ j > at + o.length
        <5>1. j \in Nat /\ j > at + l /\ j <= Len(b)
          <6>1. j \in 1 .. Len(b)
            BY <1>2
          <6> QED
            BY <1>2, <1>3a, <3>1, <3>3, <6>1
        <5>2. Len(b) = at + l + (n - at) /\ l = o.length
          BY <1>2, <2>1
        <5> QED
          BY SMTT(30), <1>3a, <5>1, <5>2
      <4>2. j - l \in DOMAIN body /\ ~ (j - l <= o.at) /\ j > at + o.length
        <5>1. at = o.at \/ at = n
          BY <1>3 DEF PlacesOf
        <5> QED
          BY <1>1, <1>3a, <4>0, <5>1
      <4>3. body[j - l] = seen[i]
        BY <1>2a, <2>3, <4>1
      <4>4. ~ (i <= asked)
        BY <4>2, <4>3 DEF Between
      <4> QED
        BY <4>2, <4>4
    <3> QED
      BY <1>2, <1>3a, <3>2, <3>3
  <2> QED
    BY <2>1, <2>2, <2>3
<1>5. ASSUME o.kind = "delete", MeansRange(seen, asked, o.length), NEW k \in 0 .. Len(body),
             StandsAt(SubSeq(seen, asked + 1, asked + o.length), body, k)
      PROVE  b = Without(body, k, o.length)
  <2>1. o.length > 0 /\ asked + o.length <= Len(seen) /\ asked < Len(seen) /\ k \in Nat
    BY <1>0, <1>1, <1>5 DEF MeansRange
  <2>2. PICK range : range = SubSeq(seen, asked + 1, asked + o.length)
    OBVIOUS
  <2>3. range \in Seq(Marks) /\ Len(range) = o.length /\ range[1] = seen[asked + 1]
    <3>0. \A j \in asked + 1 .. asked + o.length : seen[j] \in Marks
      BY <1>1, <2>1 DEF Bodies
    <3>1. /\ range \in Seq(Marks)
          /\ Len(range) = IF asked + 1 <= asked + o.length
                          THEN (asked + o.length) - (asked + 1) + 1 ELSE 0
          /\ \A j \in 1 .. (asked + o.length) - (asked + 1) + 1 :
                range[j] = seen[(asked + 1) + j - 1]
      BY SMTT(30), <1>1, <2>1, <2>2, <3>0, SubSeqProperties
    <3>2. /\ 1 \in 1 .. (asked + o.length) - (asked + 1) + 1
          /\ (asked + 1) + 1 - 1 = asked + 1 /\ asked + 1 <= asked + o.length
          /\ (asked + o.length) - (asked + 1) + 1 = o.length
      BY <1>1, <2>1
    <3> QED
      BY <3>1, <3>2
  <2>4. k + o.length <= n /\ SubSeq(body, k + 1, k + o.length) = range
    BY <1>0, <1>5, <2>2, <2>3 DEF StandsAt
  <2>5. SubSeq(body, k + 1, k + o.length)[1] = body[k + 1]
    <3>0. \A j \in k + 1 .. k + o.length : body[j] \in Marks
      BY <1>1, <2>1, <2>4 DEF Bodies
    <3>1. \A i \in 1 .. (k + o.length) - (k + 1) + 1 :
             SubSeq(body, k + 1, k + o.length)[i] = body[(k + 1) + i - 1]
      BY <1>1, <2>1, <3>0, SubSeqProperties
    <3>2. /\ 1 \in 1 .. (k + o.length) - (k + 1) + 1
          /\ (k + 1) + 1 - 1 = k + 1
      BY <1>1, <2>1
    <3> QED
      BY <3>1, <3>2
  <2>6. k + 1 = o.at + 1
    <3>1. k + 1 \in 1 .. n
      BY <1>1, <2>1, <2>4
    <3>2. k + 1 \in DOMAIN body
      BY <1>1, <3>1
    <3>3. body[k + 1] = seen[asked + 1]
      BY Zenon, <2>3, <2>4, <2>5
    <3> QED
      BY <2>1, <3>2, <3>3 DEF AtTarget
  <2>7. at = k /\ end = k + o.length
    <3>1. k = o.at /\ k <= n
      BY SMTT(30), <1>3a, <2>1, <2>4, <2>6
    <3>2. /\ at = IF o.at <= n THEN o.at ELSE n
          /\ end = IF at + o.length <= n THEN at + o.length ELSE n
      BY <1>3, <1>5 DEF PlacesOf
    <3> QED
      BY <2>4, <3>1, <3>2
  <2>8. b = SubSeq(body, 1, at) \o <<>> \o SubSeq(body, end + 1, Len(body))
    BY <1>0, <1>5, SpliceType DEF Inserted
  <2>9. SubSeq(body, 1, at) \o <<>> = SubSeq(body, 1, at)
    <3>1. SubSeq(body, 1, at) \in Seq(Marks)
      BY <1>0, <1>1, <1>3, <1>3a, SubSeqProperties DEF Bodies, PlacesOf
    <3> QED
      BY <3>1, ConcatEmptySeq
  <2> QED
    BY <2>7, <2>8, <2>9 DEF Without
<1> QED
  BY <1>0, <1>1, <1>4, <1>5 DEF Lands

\* An operation makes a marked body of a marked body.
LEMMA ApplyMarks ==
    ASSUME NEW body \in Bodies, NEW v \in Nat, Marked(body, v),
           NEW o \in Operation, o.version = v + 1
    PROVE  Marked(Apply(body, o), v + 1)
<1>0. PICK b, at, end, l, n : /\ b = Apply(body, o) /\ at = Start(body, o)
                              /\ end = End(body, o) /\ l = Len(Inserted(o))
                              /\ n = Len(body)
  OBVIOUS
<1>1. /\ b \in Bodies /\ Len(b) \in Nat /\ DOMAIN b = 1 .. Len(b)
      /\ Len(b) = at + l + (n - end)
      /\ \A j \in 1 .. at : b[j] = body[j]
      /\ \A j \in at + 1 .. at + l : b[j] = <<v + 1, j - at>>
      /\ \A j \in at + l + 1 .. Len(b) : b[j] = body[(j - l) + (end - at)]
  BY SMTT(30), <1>0, AppliedAt DEF Splices
<1>2. /\ n \in Nat /\ DOMAIN body = 1 .. n
      /\ at \in Nat /\ end \in Nat /\ at <= end /\ end <= n /\ l \in Nat
  <2>1. n \in Nat /\ DOMAIN body = 1 .. n
    BY <1>0, LenProperties DEF Bodies
  <2>2. at \in 0 .. n /\ end \in at .. n /\ Inserted(o) \in Bodies
    BY <1>0, SpliceType
  <2> QED
    BY <1>0, <2>1, <2>2, LenProperties DEF Bodies
<1>3. ASSUME NEW j \in 1 .. n PROVE body[j][1] \in Nat /\ body[j][1] <= v
  <2>1. body[j] \in Marks
    BY <1>2, <1>3 DEF Bodies
  <2>2. body[j][1] \in 1 .. MaxVersion /\ body[j][1] <= v
    BY <1>2, <1>3, <2>1 DEF Marked, Marks
  <2> QED
    BY <2>2, NotesAssumption
\* Where a mark of b was in body: different marks were at different places.
<1> DEFINE from(j) == IF j <= at THEN j ELSE (j - l) + (end - at)
           new(j)  == j \in at + 1 .. at + l
<1>4. ASSUME NEW j \in DOMAIN b
      PROVE  IF new(j) THEN b[j] = <<v + 1, j - at>>
             ELSE from(j) \in 1 .. n /\ b[j] = body[from(j)]
  <2>1. CASE j <= at
    <3>1. j \in 1 .. at /\ j \in 1 .. n /\ ~ new(j) /\ from(j) = j
      BY <1>1, <1>2, <2>1
    <3>2. b[j] = body[j]
      BY <1>1, <3>1
    <3> QED
      BY <3>1, <3>2
  <2>2. CASE new(j)
    BY <1>1, <2>2
  <2>3. CASE j > at /\ ~ new(j)
    <3>1. /\ j \in at + l + 1 .. Len(b) /\ from(j) \in 1 .. n
          /\ from(j) = (j - l) + (end - at)
      BY SMTT(30), <1>1, <1>2, <2>3
    <3>2. b[j] = body[(j - l) + (end - at)]
      BY <1>1, <3>1
    <3> QED
      BY <2>3, <3>1, <3>2
  <2> QED
    BY SMTT(30), <1>1, <1>2, <2>1, <2>2, <2>3
<1>5. ASSUME NEW j \in DOMAIN b PROVE b[j][1] <= v + 1
  <2>1. CASE new(j)
    <3>1. b[j] = <<v + 1, j - at>>
      BY <1>4, <2>1
    <3>2. b[j][1] = v + 1
      BY <3>1
    <3> QED
      BY <3>2
  <2>2. CASE ~ new(j)
    <3>1. from(j) \in 1 .. n /\ b[j] = body[from(j)]
      BY <1>4, <2>2
    <3> HIDE DEF from
    <3> QED
      BY <1>3, <3>1
  <2> QED
    BY <2>1, <2>2
<1>6. ASSUME NEW i \in DOMAIN b, NEW j \in DOMAIN b, b[i] = b[j] PROVE i = j
  <2>0. i \in Nat /\ j \in Nat
    BY <1>1
  <2>1. /\ ~ new(i) => from(i) \in 1 .. n /\ b[i] = body[from(i)]
        /\ ~ new(j) => from(j) \in 1 .. n /\ b[j] = body[from(j)]
        /\ new(i) => b[i] = <<v + 1, i - at>>
        /\ new(j) => b[j] = <<v + 1, j - at>>
    BY <1>4
  <2>2. CASE new(i) /\ new(j)
    <3>1. <<v + 1, i - at>> = <<v + 1, j - at>>
      BY <1>6, <2>1, <2>2
    <3>2. i - at = j - at
      BY <3>1
    <3> QED
      BY <1>2, <2>0, <3>2
  <2>3. CASE ~ new(i) /\ ~ new(j)
    <3>1. from(i) = from(j)
      <4> HIDE DEF from, new
      <4> QED
        BY <1>2, <1>6, <2>1, <2>3 DEF Marked, IsInjective
    <3> QED
      BY SMTT(30), <1>2, <2>0, <2>3, <3>1
  <2>4. new(i) <=> new(j)
    <3>1. \A y \in 1 .. n : body[y][1] # v + 1
      BY <1>3
    <3>2. new(i) => b[i][1] = v + 1
      BY <2>1
    <3>3. new(j) => b[j][1] = v + 1
      BY <2>1
    <3> HIDE DEF from, new
    <3> QED
      BY <1>6, <2>1, <3>1, <3>2, <3>3
  <2> QED
    BY <2>2, <2>3, <2>4
<1> QED
  BY <1>0, <1>5, <1>6 DEF Marked, IsInjective

-----------------------------------------------------------------------------
(* Edits keep their place, step by step.                                   *)

\* A step that leaves the note and the log alone, and gives one request
\* nothing to commit but what keeps its place.
LEMMA TextKept ==
    ASSUME TextInv, NEW w \in Workers, UNCHANGED <<note, contents, oplog>>,
           \A v \in Workers \ {w} : requests'[v] = requests[v],
           NEW q, q = requests'[w], q.stage # "committed", Edits(q),
           (q.stage = "written" /\ q.op = "operate" /\ q.rebased) => InPlace(q)
    PROVE  TextInv'
<1>1. (\A v \in DOMAIN contents : Marked(contents[v], v))' /\ LogIsMade'
  BY DEF TextInv, LogIsMade, Made
<1>2. UnloggedDiffer'
  BY DEF TextInv, UnloggedDiffer
<1>3. ASSUME NEW v \in Workers PROVE Edits(requests[v])'
  <2>1. CASE v # w
    BY <2>1 DEF TextInv, Edits, Made
  <2> QED
    BY <2>1 DEF Edits, Made
<1>4. OperationsKeepTheirPlace'
  <2> SUFFICES ASSUME NEW v \in Workers,
                      (/\ requests[v].stage = "written" /\ requests[v].op = "operate"
                       /\ requests[v].rebased)'
               PROVE  InPlace(requests[v])'
    BY DEF OperationsKeepTheirPlace
  <2>1. CASE v # w
    BY <2>1 DEF TextInv, OperationsKeepTheirPlace, InPlace
  <2> QED
    BY <2>1 DEF InPlace
<1> QED
  BY <1>1, <1>2, <1>3, <1>4 DEF TextInv

LEMMA QuietText ==
    ASSUME TextInv, NEW w \in Workers, UNCHANGED <<note, contents, oplog>>,
           \A v \in Workers \ {w} : requests'[v] = requests[v],
           requests'[w].stage \notin {"written", "committed"}
    PROVE  TextInv'
<1>1. PICK q : q = requests'[w]
  OBVIOUS
<1>2. q.stage \notin {"written", "committed"}
  BY <1>1
<1>3. Edits(q)
  BY <1>2 DEF Edits
<1> QED
  BY <1>1, <1>2, <1>3, TextKept

LEMMA QuietSteps ==
    ASSUME IInv, TextInv, NEW w \in Workers,
           \/ Enter(w) \/ Meter(w) \/ GetNote(w) \/ PublicRoutes(w)
           \/ Done(w) \/ Abort(w)
    PROVE  TextInv'
<1>1. requests[w] \in Request /\ requests \in [Workers -> Request]
  BY DEF IInv, TypeOK
<1>2. UNCHANGED <<note, contents, oplog>>
  BY DEF Enter, Meter, GetNote, PublicRoutes, ResolveLink, LoadShared, AnswerShared,
         Done, Abort
<1>3. \A v \in Workers \ {w} : requests'[v] = requests[v]
  BY <1>1 DEF Enter, Meter, GetNote, PublicRoutes, ResolveLink, LoadShared,
              AnswerShared, Done, Abort
<1>4. requests'[w].stage \notin {"written", "committed"}
  <2>1. CASE Enter(w)
    BY <1>1, <2>1 DEF Enter, Idle
  <2>2. CASE Meter(w)
    BY <1>1, <2>2 DEF Meter, Request
  <2>3. CASE GetNote(w)
    BY <1>1, <2>3 DEF GetNote, Answered, Idle
  <2>4. CASE ResolveLink(w)
    BY <1>1, <2>4 DEF ResolveLink, Idle
  <2>5. CASE LoadShared(w)
    BY <1>1, <2>5 DEF LoadShared, Request
  <2>6. CASE AnswerShared(w)
    BY <1>1, <2>6 DEF AnswerShared, Answered, Idle
  <2>7. CASE Done(w) \/ Abort(w)
    BY <1>1, <2>7 DEF Done, Abort, Idle
  <2> QED
    BY <2>1, <2>2, <2>3, <2>4, <2>5, <2>6, <2>7 DEF PublicRoutes
<1> QED
  BY <1>2, <1>3, <1>4, QuietText

\* What the step of w that prepares q as an operation op does to the text.
Turns(w, op, q) ==
    /\ requests'[w] = [q EXCEPT !.stage = "written", !.op = op]
    /\ requests'[w].stage = "written" /\ requests'[w].op = op
    /\ UNCHANGED <<note, contents, oplog>>
    /\ \A v \in Workers \ {w} : requests'[v] = requests[v]

LEMMA PreparedFields ==
    ASSUME IInv, NEW w \in Workers, NEW op, NEW q \in Request, Prepare(w, op, q)
    PROVE  Turns(w, op, q)
<1>1. requests'[w] = [q EXCEPT !.stage = "written", !.op = op]
  BY DEF Prepare, IInv, TypeOK
<1> QED
  BY <1>1 DEF Prepare, IInv, TypeOK, Request, Turns

\* A deletion, a share and a link leave the text alone.
LEMMA TextlessSteps ==
    ASSUME IInv, TextInv, NEW w \in Workers, DeleteNote(w) \/ SharingRoutes(w)
    PROVE  TextInv'
<1> DEFINE r == requests[w]
<1>1. r \in Request /\ note \in Row
  BY RequestFacts
<1>2. \E op \in {"delete", "share", "link"}, q \in Request : Prepare(w, op, q)
  <2>1. CASE DeleteNote(w)
    <3> DEFINE q == [r EXCEPT !.row = [note EXCEPT !.status = "deleted"]]
    <3>1. Prepare(w, "delete", q)
      BY <2>1 DEF DeleteNote
    <3>2. q \in Request
      BY <1>1 DEF Request, Row
    <3> HIDE DEF q
    <3> QED
      BY <3>1, <3>2
  <2>2. CASE ShareNote(w)
    <3>1. PICK to \in Users, level \in Levels \ {0} :
             Prepare(w, "share", [r EXCEPT !.grant = [to |-> to, level |-> level]])
      BY <2>2 DEF ShareNote
    <3> DEFINE q == [r EXCEPT !.grant = [to |-> to, level |-> level]]
    <3>2. q \in Request
      BY <1>1 DEF Request
    <3>3. Prepare(w, "share", q)
      BY <3>1
    <3> HIDE DEF q
    <3> QED
      BY <3>2, <3>3
  <2>3. CASE CreateLink(w)
    <3>1. PICK l \in Links : Prepare(w, "link", [r EXCEPT !.link = l])
      BY <2>3 DEF CreateLink
    <3> DEFINE q == [r EXCEPT !.link = l]
    <3>2. q \in Request
      BY <1>1 DEF Request
    <3>3. Prepare(w, "link", q)
      BY <3>1
    <3> HIDE DEF q
    <3> QED
      BY <3>2, <3>3
  <2> QED
    BY <2>1, <2>2, <2>3 DEF SharingRoutes
<1>3. PICK op \in {"delete", "share", "link"}, q \in Request : Prepare(w, op, q)
  BY <1>2
<1>4. /\ requests'[w].stage = "written" /\ requests'[w].op = op
      /\ UNCHANGED <<note, contents, oplog>>
      /\ \A v \in Workers \ {w} : requests'[v] = requests[v]
  <2>1. Turns(w, op, q)
    BY <1>3, PreparedFields
  <2> QED
    BY <2>1 DEF Turns
<1>5. PICK p : p = requests'[w]
  OBVIOUS
<1>6. p.stage = "written" /\ p.op \in {"delete", "share", "link"}
  BY <1>4, <1>5
<1>7. Edits(p)
  BY <1>6 DEF Edits
<1>8. p.stage # "committed" /\ p.op # "operate"
  BY <1>6
<1> QED
  BY <1>4, <1>5, <1>7, <1>8, TextKept

LEMMA CreateText ==
    ASSUME IInv, TextInv, NEW w \in Workers, CreateNote(w)
    PROVE  TextInv'
<1> DEFINE r   == requests[w]
           row == [status |-> "live", owner |-> r.user, version |-> 1, body |-> FirstBody]
           new == [r EXCEPT !.row = row]
<1>1. r \in Request /\ note \in Row /\ r.user \in Users \cup {None}
  BY RequestFacts DEF Request
<1>2. row \in Row
  <2>1. FirstBody \in Bodies /\ 1 \in 0 .. MaxVersion
    BY FirstBodyType, NotesAssumption
  <2> QED
    BY <1>1, <2>1 DEF Row
<1>3. Prepare(w, "create", new)
  BY DEF CreateNote
<1>4. new \in Request /\ new.row.body = FirstBody
  BY <1>1, <1>2 DEF Request
<1> HIDE DEF new
<1>5. PICK q \in Request : q = new /\ Prepare(w, "create", q)
  BY <1>3, <1>4
<1>6. /\ requests'[w] = [q EXCEPT !.stage = "written", !.op = "create"]
      /\ requests'[w].stage = "written" /\ requests'[w].op = "create"
      /\ UNCHANGED <<note, contents, oplog>>
      /\ \A v \in Workers \ {w} : requests'[v] = requests[v]
  <2>1. Turns(w, "create", q)
    BY <1>5, PreparedFields
  <2> QED
    BY <2>1 DEF Turns
<1>7. requests'[w].row.body = FirstBody
  BY <1>4, <1>5, <1>6 DEF Request
<1>8. note.version = 0
  BY EmptySeq DEF CreateNote, IInv, NoteIsLatest
<1>9. Marked(FirstBody, 0 + 1)
  BY FirstBodyType
<1>10. PICK p : p = requests'[w]
  OBVIOUS
<1>11. p.stage = "written" /\ p.op = "create" /\ p.op # "operate" /\ p.stage # "committed"
  BY <1>6, <1>10
<1>12. Marked(p.row.body, note.version + 1)
  BY <1>7, <1>8, <1>9, <1>10
<1>13. Edits(p)
  BY <1>11, <1>12 DEF Edits
<1> QED
  BY <1>6, <1>10, <1>11, <1>13, TextKept

\* The text of a live note, and what its bodies are.
LEMMA TextFacts ==
    ASSUME IInv, TextInv, note.status = "live"
    PROVE  /\ Decrypted = note.body /\ note.body \in Bodies
           /\ note.body = contents[Len(contents)]
           /\ note.version = Len(contents) /\ Len(contents) \in Nat \ {0}
           /\ Marked(note.body, note.version)
<1>1. /\ Len(contents) \in Nat \ {0} /\ note.version = Len(contents)
      /\ Decrypted = contents[note.version] /\ Decrypted \in Bodies
  BY DecryptedIsCurrent
<1>2. contents # <<>> /\ note.body = contents[Len(contents)]
  BY <1>1 DEF IInv, NoteIsLatest
<1>3. Len(contents) \in DOMAIN contents
  BY <1>1, RequestFacts, LenProperties DEF IInv, TypeOK
<1> QED
  BY <1>1, <1>2, <1>3 DEF TextInv

LEMMA UpdateText ==
    ASSUME IInv, TextInv, NEW w \in Workers, UpdateNote(w)
    PROVE  TextInv'
<1> DEFINE r == requests[w]
<1>1. PICK body \in {Decrypted, Text(note.version + 1, 1)} :
          Prepare(w, "edit", [r EXCEPT !.row = Edited(body)])
  BY DEF UpdateNote
<1>2. /\ note.status = "live" /\ note.version < MaxVersion /\ r \in Request
  BY RequestFacts DEF UpdateNote, May
<1>3. /\ Decrypted = note.body /\ note.body \in Bodies /\ note.version \in Nat
      /\ Marked(note.body, note.version)
  BY <1>2, TextFacts
<1>4. PICK version \in 1 .. MaxVersion : version = note.version + 1
  BY <1>2, <1>3, EditedType
<1>5. body \in Bodies /\ Marked(body, note.version + 1)
  <2>1. CASE body = Decrypted
    <3>1. \A j \in DOMAIN body : body[j] \in Marks
      BY <1>3, <2>1 DEF Bodies
    <3>2. \A j \in DOMAIN body : body[j][1] \in Nat /\ body[j][1] <= note.version
      BY <1>3, <2>1, <3>1, NotesAssumption DEF Marked, Marks
    <3>3. \A j \in DOMAIN body : body[j][1] <= note.version + 1
      BY <1>3, <3>2
    <3> QED
      BY <1>3, <2>1, <3>3 DEF Marked
  <2>2. CASE body = Text(version, 1)
    <3>1. body \in Bodies /\ Len(body) = 1 /\ body[1] = <<version, 1>>
      <4>1. 1 \in Nat /\ 1 \in 1 .. 1
        OBVIOUS
      <4>2. /\ Text(version, 1) \in Bodies /\ Len(Text(version, 1)) = 1
            /\ Text(version, 1)[1] = <<version, 1>>
        BY <4>1, TextType
      <4> QED
        BY <2>2, <4>2
    <3>2. DOMAIN body = {1}
      BY <3>1, LenProperties DEF Bodies
    <3> QED
      BY <1>4, <3>1, <3>2 DEF Marked, IsInjective
  <2> QED
    BY <1>4, <2>1, <2>2
<1>6. Edited(body) \in Row /\ Edited(body).body = body
  BY <1>2, <1>5, EditedType
<1> DEFINE new == [r EXCEPT !.row = Edited(body)]
<1>7. new \in Request /\ new.row.body = body
  BY <1>2, <1>6 DEF Request
<1>8. Prepare(w, "edit", new)
  BY <1>1
<1> HIDE DEF new
<1>9. PICK q \in Request : q = new /\ Prepare(w, "edit", q)
  BY <1>7, <1>8
<1>10. /\ requests'[w] = [q EXCEPT !.stage = "written", !.op = "edit"]
       /\ requests'[w].stage = "written" /\ requests'[w].op = "edit"
       /\ UNCHANGED <<note, contents, oplog>>
       /\ \A v \in Workers \ {w} : requests'[v] = requests[v]
  <2>1. Turns(w, "edit", q)
    BY <1>9, PreparedFields
  <2> QED
    BY <2>1 DEF Turns
<1>11. requests'[w].row.body = body
  BY <1>7, <1>9, <1>10 DEF Request
<1>12. PICK p : p = requests'[w]
  OBVIOUS
<1>13. p.stage = "written" /\ p.op = "edit" /\ p.op # "operate" /\ p.stage # "committed"
  BY <1>10, <1>12
<1>14. Marked(p.row.body, note.version + 1)
  BY <1>5, <1>11, <1>12
<1>15. Edits(p)
  BY <1>13, <1>14 DEF Edits
<1> QED
  BY <1>10, <1>12, <1>13, <1>15, TextKept

\* An operation that its client meant for base is rebased, applied to the
\* current text and ready to be committed.
LEMMA OperateText ==
    ASSUME IInv, TextInv, NEW w \in Workers, ApplyOperation(w)
    PROVE  TextInv'
<1> DEFINE r == requests[w]
<1>1. PICK kind \in {"insert", "delete"}, length \in Lengths, base \in 1 .. note.version :
      \E pos \in 0 .. Len(contents[base]) + 1 :
          LET o   == [version |-> note.version + 1, kind |-> kind,
                      at |-> Rebase(pos, base), length |-> length]
              row == Edited(Apply(Decrypted, o))
          IN  Prepare(w, "operate",
                      [r EXCEPT !.row = row, !.base = base, !.asked = pos,
                                !.rebased = LogCovers(base), !.applied = o])
  BY ZenonT(40) DEF ApplyOperation
<1> DEFINE applied(pos) == [version |-> note.version + 1, kind |-> kind,
                            at |-> Rebase(pos, base), length |-> length]
<1>2. PICK pos \in 0 .. Len(contents[base]) + 1 :
          Prepare(w, "operate",
                  [r EXCEPT !.row = Edited(Apply(Decrypted, applied(pos))),
                            !.base = base, !.asked = pos,
                            !.rebased = LogCovers(base), !.applied = applied(pos)])
  BY <1>1
<1>3. /\ note.status = "live" /\ note.version < MaxVersion /\ r \in Request
      /\ contents \in Seq(Bodies)
  BY RequestFacts DEF ApplyOperation, May
<1>4. /\ Decrypted = note.body /\ note.body \in Bodies
      /\ note.body = contents[Len(contents)] /\ note.version = Len(contents)
      /\ note.version \in Nat \ {0} /\ note.version + 1 \in 1 .. MaxVersion
      /\ Marked(note.body, note.version)
  <2>1. /\ Decrypted = note.body /\ note.body \in Bodies
        /\ note.body = contents[Len(contents)] /\ note.version = Len(contents)
        /\ Len(contents) \in Nat \ {0} /\ Marked(note.body, note.version)
    BY <1>3, TextFacts
  <2> QED
    BY <1>3, <2>1, EditedType
<1>5. PICK seen \in Bodies : seen = contents[base]
  BY <1>3, <1>4, ElementOfSeq
<1>6. /\ base \in 0 .. MaxVersion /\ base \in DOMAIN contents /\ pos \in Nat
      /\ Len(seen) \in Nat /\ DOMAIN seen = 1 .. Len(seen)
  <2>1. Len(seen) \in Nat /\ DOMAIN seen = 1 .. Len(seen) /\ pos \in 0 .. Len(seen) + 1
    BY <1>5, LenProperties DEF Bodies
  <2>2. base \in 1 .. Len(contents) /\ DOMAIN contents = 1 .. Len(contents)
    BY <1>3, <1>4, LenProperties
  <2> QED
    BY <1>3, <1>4, <2>1, <2>2, NotesAssumption
<1>7. PICK at \in Nat : at = Rebase(pos, base)
  BY <1>6, RebaseType DEF IInv, TypeOK
<1>8. PICK o \in Operation :
          /\ o = applied(pos) /\ o.version = note.version + 1 /\ o.at = at
  <2>1. applied(pos) \in Operation
    BY <1>4, <1>7 DEF Operation
  <2> QED
    BY <1>7, <2>1
<1>9. PICK body \in Bodies, b \in Bodies : body = note.body /\ b = Apply(body, o)
  BY <1>4, SpliceType
<1>10. PICK row \in Row, covers \in BOOLEAN :
          /\ row = Edited(b) /\ row.body = b /\ covers = LogCovers(base)
  <2>1. Edited(b) \in Row /\ Edited(b).body = b
    BY <1>3, EditedType
  <2>2. LogCovers(base) \in BOOLEAN
    BY DEF LogCovers
  <2> QED
    BY <2>1, <2>2
<1> DEFINE new == [r EXCEPT !.row = row, !.base = base, !.asked = pos,
                            !.rebased = covers, !.applied = o]
<1>11. Prepare(w, "operate", new)
  BY <1>2, <1>4, <1>8, <1>9, <1>10
<1>12. /\ new \in Request /\ new.row = row /\ new.base = base /\ new.asked = pos
       /\ new.rebased = covers /\ new.applied = o
  BY ZenonT(40), <1>3, <1>6 DEF Request
<1> HIDE DEF new
<1>13. PICK q \in Request : q = new /\ Prepare(w, "operate", q)
  BY <1>11, <1>12
<1>14. /\ requests'[w] = [q EXCEPT !.stage = "written", !.op = "operate"]
       /\ UNCHANGED <<note, contents, oplog>>
       /\ \A v \in Workers \ {w} : requests'[v] = requests[v]
  <2>1. Turns(w, "operate", q)
    BY <1>13, PreparedFields
  <2> QED
    BY <2>1 DEF Turns
<1>15. PICK p : p = [q EXCEPT !.stage = "written", !.op = "operate"]
  OBVIOUS
<1>16. /\ p = requests'[w] /\ p.stage = "written" /\ p.op = "operate"
       /\ p.stage # "committed"
       /\ p.row.body = b /\ p.base = base /\ p.asked = pos
       /\ p.rebased = covers /\ p.applied = o
  BY <1>10, <1>12, <1>13, <1>14, <1>15 DEF Request
<1>17. Edits(p)
  <2>1. Marked(b, note.version + 1)
    BY <1>4, <1>8, <1>9, ApplyMarks
  <2> QED
    BY <1>8, <1>9, <1>16, <2>1 DEF Edits
<1>18. ASSUME LogCovers(base) PROVE InPlace(p)
  <2>1. /\ Between(seen, pos, body, at)
        /\ pos < Len(seen) => AtTarget(seen, pos, body, at)
    <3>1. /\ Between(contents[base], pos, contents[Len(contents)], Rebase(pos, base))
          /\ pos < Len(contents[base]) =>
                AtTarget(contents[base], pos, contents[Len(contents)], Rebase(pos, base))
      BY <1>4, <1>6, <1>18, RebaseKeepsPlace DEF IInv, TextInv
    <3> QED
      BY <1>4, <1>5, <1>7, <1>9, <3>1
  <2>2. \A i \in DOMAIN seen : seen[i][1] # o.version
    <3> SUFFICES ASSUME NEW i \in DOMAIN seen PROVE seen[i][1] # o.version
      OBVIOUS
    <3>1. seen[i][1] <= base
      BY <1>5, <1>6 DEF TextInv, Marked
    <3>2. seen[i] \in Marks
      BY <1>6 DEF Bodies
    <3>3. seen[i][1] \in Nat
      BY <3>2, NotesAssumption DEF Marks
    <3> QED
      BY <1>4, <1>8, <3>1, <3>3
  <2>3. Lands(seen, pos, body, o, b)
    BY <1>6, <1>8, <1>9, <2>1, <2>2, OperationLands
  <2> QED
    BY <1>5, <1>9, <1>16, <2>3 DEF Lands, InPlace
<1> QED
  BY <1>10, <1>14, <1>16, <1>17, <1>18, TextKept

\* A commit adds a marked body; an operation that is committed made it, and
\* no other operation has its version.
LEMMA CommitText ==
    ASSUME IInv, TextInv, NEW w \in Workers, Commit(w)
    PROVE  TextInv'
<1> DEFINE r == requests[w]
           V == Len(contents)
<1>0. PICK q : q = IF r.op = "operate"
                   THEN [Idle EXCEPT !.stage = "committed", !.applied = r.applied]
                   ELSE Idle
  OBVIOUS
<1>1. /\ r \in Request /\ Prepared(r) /\ r.stage = "written" /\ note \in Row
      /\ contents \in Seq(Bodies) /\ note.version = V /\ V \in Nat
      /\ oplog' = oplog /\ Edits(r)
  BY RequestFacts, LenProperties DEF Commit, Knows, IInv, NoteIsLatest, TextInv
<1>2. \A v \in Workers \ {w} : requests[v].stage \notin {"locked", "written"}
  BY RequestFacts DEF HoldsLock, Commit
<1>3. \A v \in Workers : requests'[v] = IF v = w THEN q ELSE requests[v]
  BY <1>0 DEF Commit, IInv, TypeOK
<1>4. q.stage \in {"idle", "committed"} /\ (q.stage = "committed" <=> r.op = "operate")
  BY <1>0 DEF Idle
<1>5. r.op = "operate" => q.applied = r.applied
  BY <1>0 DEF Idle
<1>6. CASE r.op \in {"create", "edit", "operate"}
  <2>1. note' = r.row /\ contents' = Append(contents, r.row.body)
    <3>1. r.row.status = "live"
      BY <1>1, <1>6 DEF Prepared
    <3>2. r.row # NoRow
      BY <3>1 DEF NoRow
    <3> QED
      BY <1>6, <3>2 DEF Commit
  <2>2. PICK body \in Bodies : body = r.row.body
    BY <1>1 DEF Request, Row
  <2>3. /\ contents' \in Seq(Bodies) /\ Len(contents') = V + 1
        /\ DOMAIN contents = 1 .. V /\ DOMAIN contents' = 1 .. V + 1
        /\ contents'[V + 1] = body
        /\ \A i \in 1 .. V : contents'[i] = contents[i]
    BY <2>1, <2>2, ContentsExtend
  <2> HIDE DEF V
  <2>4. (\A v \in DOMAIN contents : Marked(contents[v], v))'
    <3> SUFFICES ASSUME NEW v \in 1 .. V + 1 PROVE Marked(contents'[v], v)
      BY <2>3
    <3>1. CASE v = V + 1
      <4>1. Marked(body, V + 1)
        BY <1>1, <1>6, <2>2 DEF Edits
      <4> QED
        BY <2>3, <3>1, <4>1
    <3>2. CASE v # V + 1
      <4>1. v \in 1 .. V /\ v \in DOMAIN contents
        BY <1>1, <2>3, <3>2
      <4>2. Marked(contents[v], v)
        BY <4>1 DEF TextInv
      <4> QED
        BY <2>3, <4>1, <4>2
    <3> QED
      BY <3>1, <3>2
  \* Operations that were made are made of the same bodies.
  <2>5. ASSUME NEW o, Made(o)
        PROVE  /\ o.version \in 2 .. V
               /\ o.version \in 2 .. Len(contents')
               /\ contents'[o.version] =
                     Apply(contents'[o.version - 1], o)
    <3>1. /\ o.version \in 2 .. V
          /\ contents[o.version] = Apply(contents[o.version - 1], o)
      BY <2>5 DEF Made, V
    <3>2. /\ o.version \in 1 .. V /\ o.version - 1 \in 1 .. V
          /\ o.version \in 2 .. V + 1
      BY <1>1, <3>1
    <3> QED
      BY <2>3, <3>1, <3>2
  <2>6. LogIsMade'
    <3> SUFFICES ASSUME NEW i \in DOMAIN oplog
                 PROVE  /\ Made(oplog[i])'
                        /\ \A j \in DOMAIN oplog :
                              oplog[i].version = oplog[j].version => i = j
      BY <1>1 DEF LogIsMade
    <3>1. PICK o : o = oplog[i]
      OBVIOUS
    <3>2. Made(o)
      BY <3>1 DEF TextInv, LogIsMade
    <3>3. Made(oplog[i])'
      BY <1>1, <2>5, <3>1, <3>2 DEF Made
    <3> QED
      BY <3>3 DEF TextInv, LogIsMade
  <2>7. ASSUME NEW v \in Workers \ {w}, NEW p, p = requests[v], p.stage = "committed"
        PROVE  /\ p.applied.version \in 2 .. V /\ Made(p.applied)'
               /\ \A i \in DOMAIN oplog : oplog[i].version # p.applied.version
    <3>1. PICK o : o = p.applied
      OBVIOUS
    <3>2. /\ Made(o) /\ \A i \in DOMAIN oplog : oplog[i].version # o.version
      BY <2>7, <3>1 DEF TextInv, Edits
    <3>3. Made(o)' /\ o.version \in 2 .. V
      BY <2>5, <3>2 DEF Made
    <3> QED
      BY <3>1, <3>2, <3>3
  <2>8. ASSUME r.op = "operate"
        PROVE  /\ q.applied.version = V + 1
               /\ Made(q.applied)'
               /\ \A i \in DOMAIN oplog : oplog[i].version # V + 1
    <3>1. /\ q.applied.version = V + 1 /\ note.version + 1 = V + 1
          /\ body = Apply(note.body, q.applied)
      BY <1>1, <1>5, <2>2, <2>8 DEF Edits
    <3>2. /\ V \in 1 .. V /\ note.body = contents[V]
      <4>1. note.status = "live"
        BY <1>1, <2>8 DEF Prepared
      <4> QED
        BY <1>1, <4>1, TextFacts DEF V
    <3>3. contents'[V] = note.body /\ (V + 1) - 1 = V /\ V + 1 \in 2 .. V + 1
      BY <1>1, <2>3, <3>2
    <3>4. PICK o : o = q.applied
      OBVIOUS
    <3>5. Made(o)'
      BY <2>3, <3>1, <3>3, <3>4 DEF Made
    <3>6. \A i \in DOMAIN oplog : oplog[i].version # V + 1
      <4> SUFFICES ASSUME NEW i \in DOMAIN oplog PROVE oplog[i].version # V + 1
        OBVIOUS
      <4>1. oplog[i].version \in 2 .. V
        BY DEF TextInv, LogIsMade, Made, V
      <4> QED
        BY <1>1, <4>1
    <3> QED
      BY <3>1, <3>4, <3>5, <3>6
  <2>9. UnloggedDiffer'
    <3> SUFFICES ASSUME NEW v \in Workers, NEW x \in Workers,
                        requests'[v].stage = "committed",
                        requests'[x].stage = "committed",
                        requests'[v].applied.version = requests'[x].applied.version
                 PROVE  v = x
      BY DEF UnloggedDiffer
    <3>1. ASSUME NEW y \in Workers, requests'[y].stage = "committed"
          PROVE  /\ y = w => requests'[y].applied.version = V + 1
                 /\ y # w => requests'[y].applied.version \in 2 .. V
      <4>1. CASE y = w
        BY <1>3, <1>4, <2>8, <3>1, <4>1
      <4>2. CASE y # w
        BY <1>3, <2>7, <3>1, <4>2
      <4> QED
        BY <4>1, <4>2
    <3>2. V + 1 \notin 2 .. V
      BY <1>1
    <3>3. CASE v # w /\ x # w
      BY <1>3, <3>3 DEF TextInv, UnloggedDiffer
    <3> QED
      BY <3>1, <3>2, <3>3
  <2>10. ASSUME NEW v \in Workers PROVE Edits(requests[v])'
    <3>1. PICK p : p = requests'[v]
      OBVIOUS
    <3>2. p.stage # "written"
      BY <1>2, <1>3, <1>4, <3>1
    <3>3. p.stage = "committed" =>
             Made(p.applied)' /\ \A i \in DOMAIN oplog : oplog[i].version # p.applied.version
      <4>1. CASE v = w
        BY <1>3, <1>4, <2>8, <3>1, <4>1
      <4>2. CASE v # w
        BY <1>3, <2>7, <3>1, <4>2
      <4> QED
        BY <4>1, <4>2
    <3>4. Edits(p)'
      BY <1>1, <3>2, <3>3 DEF Edits
    <3> QED
      BY <3>1, <3>4 DEF Edits, Made
  <2>11. OperationsKeepTheirPlace'
    BY <1>2, <1>3, <1>4 DEF OperationsKeepTheirPlace
  <2> QED
    BY <2>4, <2>6, <2>9, <2>10, <2>11 DEF TextInv
<1>7. CASE r.op \notin {"create", "edit", "operate"}
  <2>1. UNCHANGED <<contents, oplog>> /\ q = Idle /\ q.stage = "idle"
    BY <1>0, <1>7 DEF Commit, Idle
  <2>2. (\A v \in DOMAIN contents : Marked(contents[v], v))' /\ LogIsMade'
    BY <2>1 DEF TextInv, LogIsMade, Made
  <2>3. UnloggedDiffer'
    BY <1>3, <2>1 DEF TextInv, UnloggedDiffer
  <2>4. ASSUME NEW v \in Workers PROVE Edits(requests[v])'
    <3>1. CASE v = w
      BY <1>3, <2>1, <3>1 DEF Edits
    <3>2. CASE v # w
      BY <1>2, <1>3, <2>1, <3>2 DEF TextInv, Edits, Made
    <3> QED
      BY <3>1, <3>2
  <2>5. OperationsKeepTheirPlace'
    BY <1>2, <1>3, <2>1 DEF OperationsKeepTheirPlace
  <2> QED
    BY <2>2, <2>3, <2>4, <2>5 DEF TextInv
<1> QED
  BY <1>6, <1>7

\* An operation is logged once; the oldest may leave the log.
LEMMA RecordText ==
    ASSUME IInv, TextInv, NEW w \in Workers, RecordOperation(w)
    PROVE  TextInv'
<1>1. /\ requests[w] \in Request /\ requests[w].stage = "committed"
      /\ oplog \in Seq(Operation) /\ UNCHANGED <<note, contents>>
      /\ Edits(requests[w])
  BY RequestFacts DEF RecordOperation, IInv, TypeOK, TextInv
<1>2. PICK o \in Operation : o = requests[w].applied
  BY <1>1, RequestFacts DEF Knows
<1>3. Made(o) /\ \A i \in DOMAIN oplog : oplog[i].version # o.version
  BY <1>1, <1>2 DEF Edits
<1>4. \A v \in Workers : requests'[v] = IF v = w THEN Idle ELSE requests[v]
  BY DEF RecordOperation, IInv, TypeOK
<1> DEFINE log == Append(oplog, o)
           N   == Len(oplog)
<1>5. /\ log \in Seq(Operation) /\ N \in Nat /\ Len(log) = N + 1
      /\ DOMAIN oplog = 1 .. N /\ DOMAIN log = 1 .. N + 1
      /\ log[N + 1] = o /\ \A i \in 1 .. N : log[i] = oplog[i]
  BY <1>1, AppendProperties, LenProperties
<1>6. ASSUME NEW i \in DOMAIN log
      PROVE  /\ Made(log[i])
             /\ \A j \in DOMAIN log : log[i].version = log[j].version => i = j
             /\ \A v \in Workers \ {w} :
                   requests[v].stage = "committed" =>
                       log[i].version # requests[v].applied.version
  <2> HIDE DEF log
  <2>1. \A j \in 1 .. N + 1 : j = N + 1 \/ j \in 1 .. N
    BY <1>5
  <2>2. Made(log[i])
    <3>1. CASE i = N + 1
      BY <1>3, <1>5, <3>1
    <3>2. CASE i \in 1 .. N
      <4>1. PICK p : p = oplog[i]
        OBVIOUS
      <4>2. Made(p)
        BY <1>5, <3>2, <4>1 DEF TextInv, LogIsMade
      <4>3. log[i] = p
        BY <1>5, <3>2, <4>1
      <4> QED
        BY <4>2, <4>3
    <3> QED
      BY <1>5, <2>1, <3>1, <3>2
  <2>3. \A j \in DOMAIN log : log[i].version = log[j].version => i = j
    BY <1>3, <1>5, <2>1 DEF TextInv, LogIsMade
  <2>4. ASSUME NEW v \in Workers \ {w}, requests[v].stage = "committed"
        PROVE  log[i].version # requests[v].applied.version
    <3>1. o.version # requests[v].applied.version
      BY <1>1, <1>2, <2>4 DEF TextInv, UnloggedDiffer
    <3>2. \A j \in 1 .. N : oplog[j].version # requests[v].applied.version
      BY <1>5, <2>4 DEF TextInv, Edits
    <3> QED
      BY <1>5, <2>1, <3>1, <3>2
  <2> QED
    BY <2>2, <2>3, <2>4
\* What is left of the log, and where it was.
<1> DEFINE cut == IF N + 1 > OplogLimit THEN N + 1 - OplogLimit ELSE 0
<1>7. /\ DOMAIN oplog' = 1 .. N + 1 - cut /\ cut \in 0 .. N + 1
      /\ \A i \in 1 .. N + 1 - cut : i + cut \in 1 .. N + 1 /\ oplog'[i] = log[i + cut]
  <2>1. oplog' = Trimmed(log)
    BY <1>2 DEF RecordOperation
  <2> HIDE DEF log
  <2>2. CASE N + 1 > OplogLimit
    <3>1. oplog' = SubSeq(log, cut + 1, N + 1) /\ cut \in 0 .. N + 1
      <4>1. cut = N + 1 - OplogLimit /\ OplogLimit \in Nat \ {0}
        BY <2>2, NotesAssumption
      <4>2. oplog' = SubSeq(log, Len(log) - OplogLimit + 1, Len(log))
        BY <1>5, <2>1, <2>2 DEF Trimmed
      <4> HIDE DEF cut, N
      <4> QED
        BY <1>5, <2>2, <4>1, <4>2
    <3> HIDE DEF cut
    <3>2. /\ cut + 1 \in 1 .. N + 2 /\ N + 1 \in cut .. N + 1
          /\ (N + 1) - (cut + 1) + 1 = N + 1 - cut
      BY <1>5, <3>1
    <3>3. /\ oplog' \in Seq(Operation) /\ Len(oplog') = N + 1 - cut
          /\ \A i \in 1 .. N + 1 - cut : oplog'[i] = log[(cut + 1) + i - 1]
      BY <1>5, <3>1, <3>2, SubSeqProperties
    <3>4. \A i \in 1 .. N + 1 - cut :
             i + cut \in 1 .. N + 1 /\ (cut + 1) + i - 1 = i + cut
      BY <1>5, <3>1
    <3> QED
      BY <3>1, <3>3, <3>4, LenProperties
  <2>3. CASE ~ (N + 1 > OplogLimit)
    <3>1. oplog' = log /\ cut = 0
      BY <1>5, <2>1, <2>3 DEF Trimmed
    <3> HIDE DEF cut
    <3>2. N + 1 - cut = N + 1 /\ \A i \in 1 .. N + 1 : i + cut = i
      BY <1>5, <3>1
    <3> QED
      BY <1>5, <3>1, <3>2
  <2> QED
    BY <2>2, <2>3
<1> HIDE DEF cut, log
<1>8. ASSUME NEW i \in DOMAIN oplog'
      PROVE  /\ Made(oplog[i])'
             /\ \A j \in DOMAIN oplog' : oplog'[i].version = oplog'[j].version => i = j
             /\ \A v \in Workers \ {w} :
                   requests[v].stage = "committed" =>
                       oplog'[i].version # requests[v].applied.version
  <2>1. i + cut \in DOMAIN log /\ oplog'[i] = log[i + cut]
    BY <1>5, <1>7
  <2>2. PICK p : p = log[i + cut]
    OBVIOUS
  <2>3. Made(p)
    BY <1>6, <2>1, <2>2
  <2>4. Made(oplog[i])'
    BY <1>1, <2>1, <2>2, <2>3 DEF Made
  <2>5. ASSUME NEW j \in DOMAIN oplog', oplog'[i].version = oplog'[j].version
        PROVE  i = j
    <3>1. j + cut \in DOMAIN log /\ oplog'[j] = log[j + cut]
      BY <1>5, <1>7
    <3>2. i + cut = j + cut
      BY <1>6, <2>1, <2>5, <3>1
    <3> QED
      BY <1>5, <1>7, <3>2
  <2> QED
    BY <1>6, <2>1, <2>4, <2>5
<1>9. LogIsMade'
  BY <1>8 DEF LogIsMade
<1>10. UnloggedDiffer'
  BY <1>4 DEF TextInv, UnloggedDiffer, Idle
<1>11. ASSUME NEW v \in Workers PROVE Edits(requests[v])'
  <2>1. CASE v = w
    BY <1>4, <2>1 DEF Edits, Idle
  <2>2. CASE v # w
    <3>1. PICK p : p = requests[v]
      OBVIOUS
    <3>2. Edits(p) /\ requests'[v] = p
      BY <1>4, <2>2, <3>1 DEF TextInv
    <3>3. p.stage = "committed" =>
             \A i \in DOMAIN oplog' : oplog'[i].version # p.applied.version
      BY <1>8, <2>2, <3>1
    <3>4. Edits(p)'
      BY <1>1, <3>2, <3>3 DEF Edits, Made
    <3> QED
      BY <3>2, <3>4 DEF Edits, Made
  <2> QED
    BY <2>1, <2>2
<1>12. OperationsKeepTheirPlace'
  BY SMTT(30), <1>1, <1>4 DEF TextInv, OperationsKeepTheirPlace, InPlace, Idle
<1>13. (\A v \in DOMAIN contents : Marked(contents[v], v))'
  BY <1>1 DEF TextInv
<1> QED
  BY <1>9, <1>10, <1>11, <1>12, <1>13 DEF TextInv

LEMMA EnvironmentText ==
    ASSUME IInv, TextInv,
           \/ \E u \in Users, role \in Roles \cup {None} : ChangeMembership(u, role)
           \/ \E l \in Links : LapseLink(l)
           \/ Evict
           \/ Restart
           \/ UNCHANGED vars
    PROVE  TextInv'
<1>1. CASE UNCHANGED <<note, contents, oplog, requests>>
  <2>1. (\A v \in DOMAIN contents : Marked(contents[v], v))' /\ LogIsMade'
    BY <1>1 DEF TextInv, LogIsMade, Made
  <2>2. UnloggedDiffer' /\ OperationsKeepTheirPlace'
    BY <1>1 DEF TextInv, UnloggedDiffer, OperationsKeepTheirPlace, InPlace
  <2>3. \A w \in Workers : Edits(requests[w])'
    BY <1>1 DEF TextInv, Edits, Made
  <2> QED
    BY <2>1, <2>2, <2>3 DEF TextInv
<1>2. CASE Restart
  <2>1. /\ \A w \in Workers : requests'[w] = Idle /\ Idle.stage = "idle"
        /\ oplog' = <<>> /\ contents' = contents
    BY <1>2 DEF Restart, Idle
  <2>2. (\A v \in DOMAIN contents : Marked(contents[v], v))' /\ LogIsMade'
    BY <2>1 DEF TextInv, LogIsMade
  <2>3. UnloggedDiffer' /\ OperationsKeepTheirPlace'
    BY <2>1 DEF UnloggedDiffer, OperationsKeepTheirPlace
  <2>4. \A w \in Workers : Edits(requests[w])'
    BY <2>1 DEF Edits
  <2> QED
    BY <2>2, <2>3, <2>4 DEF TextInv
<1> QED
  BY <1>1, <1>2 DEF ChangeMembership, LapseLink, Evict, vars

LEMMA InitText == Init => TextInv
<1> SUFFICES ASSUME Init PROVE TextInv
  OBVIOUS
<1>1. /\ \A w \in Workers : requests[w] = Idle /\ Idle.stage = "idle"
      /\ oplog = <<>> /\ contents = <<>>
  BY DEF Init, Idle
<1>2. (\A v \in DOMAIN contents : Marked(contents[v], v)) /\ LogIsMade
  BY <1>1 DEF LogIsMade
<1>3. UnloggedDiffer /\ OperationsKeepTheirPlace
  BY <1>1 DEF UnloggedDiffer, OperationsKeepTheirPlace
<1>4. \A w \in Workers : Edits(requests[w])
  BY <1>1 DEF Edits
<1> QED
  BY <1>2, <1>3, <1>4 DEF TextInv

LEMMA NextText == IInv /\ TextInv /\ [Next]_vars => TextInv'
<1> SUFFICES ASSUME IInv, TextInv, [Next]_vars PROVE TextInv'
  OBVIOUS
<1>1. ASSUME NEW w \in Workers,
             \/ Enter(w) \/ Meter(w)
             \/ NoteRoutes(w) \/ SharingRoutes(w) \/ PublicRoutes(w)
             \/ ApplyOperation(w) \/ Commit(w) \/ RecordOperation(w)
             \/ Done(w) \/ Abort(w)
      PROVE  TextInv'
  BY <1>1, QuietSteps, TextlessSteps, CreateText, UpdateText, OperateText,
     CommitText, RecordText
  DEF NoteRoutes
<1> QED
  BY <1>1, EnvironmentText DEF Next

\* An edit keeps its place whatever edits of others were committed since its
\* client read the note, and however often the log was lost or trimmed: if the
\* log has all of them, an inserted text of any length stands in one piece
\* between the same neighbours, and a deletion of any length removes exactly the
\* range its client meant, if that is still in one piece (collab_service.py:69).
THEOREM EditsKeepTheirPlace == Spec => []OperationsKeepTheirPlace
<1>1. TextInv => OperationsKeepTheirPlace
  BY DEF TextInv
<1> QED
  BY <1>1, InitText, NextText, Invariance, PTL DEF Spec

-----------------------------------------------------------------------------
(* The refinement of NoteStore.                                            *)

StoreContents == [n \in {"note"} |-> contents]
StoreDeleted  == IF note.status = "deleted" THEN {"note"} ELSE {}
StoreReads    == [w \in Workers |-> Reading(w)]

Started   == [note |-> "note", since |-> Len(contents), answer |-> None]

\* A step of one request that leaves the note alone is a step of one reader.
LEMMA ReaderStep ==
    ASSUME IInv, NEW w \in Workers, UNCHANGED <<note, contents>>,
           \A v \in Workers \ {w} : requests'[v] = requests[v],
           \/ Reading(w)' = Reading(w)
           \/ Reading(w)' = Store!NotReading
           \/ /\ Reading(w) = Store!NotReading /\ note.status = "live"
              /\ Reading(w)' = Started
           \/ /\ Reading(w).note = "note" /\ Reading(w).answer = None
              /\ \E i \in Reading(w).since .. Len(contents) :
                     Reading(w)' = [Reading(w) EXCEPT !.answer = contents[i]]
    PROVE  [Store!Next]_(Store!storeVars)
<1>1. \A v \in Workers \ {w} : Reading(v)' = Reading(v)
  BY DEF Reading
<1>2. StoreReads' = [StoreReads EXCEPT ![w] = Reading(w)']
  BY <1>1 DEF StoreReads
<1>3. StoreContents' = StoreContents /\ StoreDeleted' = StoreDeleted
  BY DEF StoreContents, StoreDeleted
<1>4. StoreReads[w] = Reading(w)
  BY DEF StoreReads
<1>5. CASE Reading(w)' = Reading(w)
  <2>1. StoreReads' = StoreReads
    BY <1>1, <1>5 DEF StoreReads
  <2> QED
    BY <1>3, <2>1 DEF Store!storeVars, StoreReads, StoreContents, StoreDeleted
<1>6. CASE Reading(w)' = Store!NotReading /\ Reading(w)' # Reading(w)
  <2>1. Store!End(w)
    BY <1>2, <1>3, <1>4, <1>6 DEF Store!End, StoreReads, StoreContents, StoreDeleted
  <2> QED
    BY <2>1 DEF Store!Next
<1>7. CASE /\ Reading(w) = Store!NotReading /\ note.status = "live"
           /\ Reading(w)' = Started
  <2>1. contents # <<>>
    BY <1>7 DEF IInv, NoteIsLatest
  <2>2. Store!Begin(w, "note")
    BY <1>2, <1>3, <1>4, <1>7, <2>1
    DEF Store!Begin, StoreReads, StoreContents, StoreDeleted, Started
  <2> QED
    BY <2>2 DEF Store!Next
<1>8. CASE /\ Reading(w).note = "note" /\ Reading(w).answer = None
           /\ \E i \in Reading(w).since .. Len(contents) :
                  Reading(w)' = [Reading(w) EXCEPT !.answer = contents[i]]
  <2>1. Store!Return(w)
    BY <1>2, <1>3, <1>4, <1>8, NotesAssumption
    DEF Store!Return, StoreReads, StoreContents, StoreDeleted
  <2> QED
    BY <2>1 DEF Store!Next
<1> QED
  BY <1>5, <1>6, <1>7, <1>8

\* A commit that adds a body is a write of the store, whoever is reading.
LEMMA CommitRefines ==
    ASSUME IInv, NEW w \in Workers, Commit(w)
    PROVE  [Store!Next]_(Store!storeVars)
<1>1. requests[w].stage = "written" /\ requests'[w].stage \in {"idle", "committed"}
  BY DEF Commit, Idle, IInv, TypeOK
<1>2. \A v \in Workers \ {w} : /\ requests'[v] = requests[v]
                               /\ requests[v].stage # "locked"
  BY <1>1, RequestFacts DEF Commit, HoldsLock, IInv, TypeOK
<1>3. \A v \in Workers : Reading(v)' = Reading(v)
  BY <1>1, <1>2 DEF Reading
<1>4. StoreReads' = StoreReads
  BY <1>3 DEF StoreReads
<1>5. CASE /\ note.status # "deleted" /\ note' \in Row /\ note'.status = "live"
           /\ contents' = Append(contents, note'.body)
  <2>1. note'.body \in Bodies
    BY <1>5 DEF Row
  <2>2. contents' # <<>> /\ contents'[Len(contents')] = note'.body
    BY <1>5, <2>1, ContentsExtend
  <2>3. Store!Write("note")
    BY <1>4, <1>5, <2>2
    DEF Store!Write, StoreReads
  <2> QED
    BY <2>3 DEF Store!Next
<1>6. CASE note' = [note EXCEPT !.status = "deleted"] /\ contents' = contents
           /\ requests[w].op = "delete"
  <2>1. note.status = "live" /\ note \in Row
    BY <1>1, <1>6, RequestFacts DEF IInv, AccessHeldUntilCommit, Needed, May
  <2>2. contents # <<>> /\ note'.status = "deleted"
    BY <1>6, <2>1 DEF IInv, NoteIsLatest, Row
  <2>3. Store!Delete("note")
    BY <1>4, <1>6, <2>1, <2>2 DEF Store!Delete, StoreReads
  <2> QED
    BY <2>3 DEF Store!Next
<1>7. CASE UNCHANGED <<note, contents>>
  BY <1>4, <1>7 DEF Store!storeVars, StoreReads
<1> QED
  BY <1>5, <1>6, <1>7, CommitWrites

LEMMA RequestRefines ==
    ASSUME IInv, NEW w \in Workers,
           \/ Enter(w) \/ Meter(w)
           \/ NoteRoutes(w) \/ SharingRoutes(w) \/ PublicRoutes(w)
           \/ ApplyOperation(w) \/ RecordOperation(w)
           \/ Done(w) \/ Abort(w)
    PROVE  [Store!Next]_(Store!storeVars)
<1>1. requests \in [Workers -> Request] /\ note.version = Len(contents)
  BY DEF IInv, TypeOK, NoteIsLatest
<1>2. UNCHANGED <<note, contents>>
  BY DEF Enter, Meter, NoteRoutes, CreateNote, GetNote, UpdateNote, DeleteNote,
         SharingRoutes, ShareNote, CreateLink, PublicRoutes, ResolveLink, LoadShared,
         AnswerShared, ApplyOperation, RecordOperation, Done, Abort, Prepare
<1>3. ASSUME NEW q, requests' = [requests EXCEPT ![w] = q]
      PROVE  requests'[w] = q /\ \A v \in Workers \ {w} : requests'[v] = requests[v]
  BY <1>1, <1>3
<1>4. ASSUME NEW q, requests' = [requests EXCEPT ![w] = q],
             q.stage \in {"idle", "entered", "written", "committed", "resolved"}
      PROVE  [Store!Next]_(Store!storeVars)
  <2>1. Reading(w)' = Store!NotReading
    BY <1>3, <1>4 DEF Reading, Store!NotReading
  <2> QED
    BY <1>2, <1>3, <1>4, <2>1, ReaderStep
<1>5. CASE Enter(w)
  <2>1. PICK u \in Users : requests' = [requests EXCEPT ![w] =
                                         [Idle EXCEPT !.stage = "entered", !.user = u]]
    BY <1>5 DEF Enter
  <2>2. [Idle EXCEPT !.stage = "entered", !.user = u].stage = "entered"
    BY DEF Idle
  <2> QED
    BY <1>4, <2>1, <2>2
<1>6. CASE Meter(w)
  <2>1. requests'[w].stage = "locked" /\ requests[w].stage = "entered"
        /\ \A v \in Workers \ {w} : requests'[v] = requests[v]
    BY <1>1, <1>6 DEF Meter, Request
  <2>2. Reading(w) = Store!NotReading
    BY <2>1 DEF Reading, Store!NotReading
  <2>3. Reading(w)' = IF note.status = "live" THEN Started ELSE Store!NotReading
    BY <1>1, <1>2, <2>1 DEF Reading, Store!NotReading, Started
  <2> QED
    BY <1>2, <2>1, <2>2, <2>3, ReaderStep
<1>7. ASSUME NEW op, NEW new, Prepare(w, op, new), "stage" \in DOMAIN new
      PROVE  /\ requests'[w].stage = "written"
             /\ \A v \in Workers \ {w} : requests'[v] = requests[v]
  <2>1. [new EXCEPT !.stage = "written", !.op = op].stage = "written"
    BY <1>7
  <2> QED
    BY <1>3, <1>7, <2>1 DEF Prepare
<1>8. CASE \/ CreateNote(w) \/ UpdateNote(w) \/ DeleteNote(w)
           \/ ApplyOperation(w) \/ SharingRoutes(w)
  <2>1. /\ requests'[w].stage = "written"
        /\ \A v \in Workers \ {w} : requests'[v] = requests[v]
    <3>1. "stage" \in DOMAIN requests[w]
      BY <1>1 DEF Request
    <3>2. CASE CreateNote(w) \/ DeleteNote(w)
      BY <1>7, <3>1, <3>2 DEF CreateNote, DeleteNote
    <3>3. CASE UpdateNote(w)
      BY <1>7, <3>1, <3>3 DEF UpdateNote
    <3>4. CASE ApplyOperation(w)
      <4>1. \E row, base, pos, covers, applied :
                Prepare(w, "operate",
                        [requests[w] EXCEPT !.row = row, !.base = base, !.asked = pos,
                                            !.rebased = covers, !.applied = applied])
        BY <3>4, Zenon DEF ApplyOperation
      <4>2. PICK row, base, pos, covers, applied :
                Prepare(w, "operate",
                        [requests[w] EXCEPT !.row = row, !.base = base, !.asked = pos,
                                            !.rebased = covers, !.applied = applied])
        BY <4>1
      <4> DEFINE new == [requests[w] EXCEPT !.row = row, !.base = base, !.asked = pos,
                                            !.rebased = covers, !.applied = applied]
      <4>3. "stage" \in DOMAIN new
        BY <3>1
      <4> HIDE DEF new
      <4> QED
        BY <1>7, <4>2, <4>3 DEF new
    <3>5. CASE SharingRoutes(w)
      <4>1. PICK to, level, l :
               \/ Prepare(w, "share", [requests[w] EXCEPT !.grant = [to |-> to, level |-> level]])
               \/ Prepare(w, "link", [requests[w] EXCEPT !.link = l])
        BY <3>5, Zenon DEF SharingRoutes, ShareNote, CreateLink
      <4>2. PICK grant : grant = [to |-> to, level |-> level]
        OBVIOUS
      <4>3. /\ "stage" \in DOMAIN [requests[w] EXCEPT !.grant = grant]
            /\ "stage" \in DOMAIN [requests[w] EXCEPT !.link = l]
        BY <3>1
      <4>4. CASE Prepare(w, "share", [requests[w] EXCEPT !.grant = grant])
        BY <1>7, <4>3, <4>4
      <4>5. CASE Prepare(w, "link", [requests[w] EXCEPT !.link = l])
        BY <1>7, <4>3, <4>5
      <4> QED
        BY <4>1, <4>2, <4>4, <4>5
    <3> QED
      BY <1>8, <3>2, <3>3, <3>4, <3>5
  <2>2. Reading(w)' = Store!NotReading
    BY <2>1 DEF Reading, Store!NotReading
  <2> QED
    BY <1>2, <2>1, <2>2, ReaderStep
<1>9. CASE GetNote(w)
  <2>1. note.status = "live" /\ requests[w].stage = "locked"
    BY <1>9 DEF GetNote, May
  <2>2. /\ requests'[w].stage = "answered" /\ requests'[w].base = note.version
        /\ requests'[w].answer = Decrypted
        /\ \A v \in Workers \ {w} : requests'[v] = requests[v]
    BY <1>1, <1>9 DEF GetNote, Answered, Idle
  <2>3. Reading(w) = [note |-> "note", since |-> note.version, answer |-> None]
    BY <2>1 DEF Reading
  <2>4. Reading(w)' = [note |-> "note", since |-> note.version, answer |-> Decrypted]
    BY <2>2 DEF Reading
  <2>5. /\ Decrypted = contents[note.version]
        /\ note.version \in note.version .. Len(contents)
    BY <2>1, DecryptedIsCurrent
  <2> QED
    BY <1>2, <2>2, <2>3, <2>4, <2>5, ReaderStep
<1>10. CASE RecordOperation(w) \/ Done(w) \/ Abort(w)
  <2>1. requests' = [requests EXCEPT ![w] = Idle] /\ Idle.stage = "idle"
    BY <1>10 DEF RecordOperation, Done, Abort, Idle
  <2> QED
    BY <1>4, <2>1
<1>11. CASE ResolveLink(w)
  <2>1. /\ requests' = [requests EXCEPT ![w] = [Idle EXCEPT !.stage = "resolved",
                                                            !.op = "open"]]
        /\ [Idle EXCEPT !.stage = "resolved", !.op = "open"].stage = "resolved"
    BY <1>11 DEF ResolveLink, Idle
  <2> QED
    BY <1>4, <2>1
<1>12. CASE LoadShared(w)
  <2>1. /\ requests[w].stage = "resolved" /\ note.status = "live"
        /\ requests'[w].stage = "loaded" /\ requests'[w].row = note
        /\ \A v \in Workers \ {w} : requests'[v] = requests[v]
    BY <1>1, <1>12 DEF LoadShared, Request
  <2>2. Reading(w) = Store!NotReading /\ Reading(w)' = Started
    BY <1>1, <2>1 DEF Reading, Store!NotReading, Started
  <2> QED
    BY <1>2, <2>1, <2>2, ReaderStep
<1>13. CASE AnswerShared(w)
  <2> DEFINE shown == requests[w].row
  <2>1. /\ requests[w].stage = "loaded"
        /\ requests'[w].stage = "answered" /\ requests'[w].base = shown.version
        /\ requests'[w].answer = shown.body
        /\ \A v \in Workers \ {w} : requests'[v] = requests[v]
    BY <1>1, <1>13 DEF AnswerShared, Answered, Idle
  <2>2. /\ shown.version \in DOMAIN contents
        /\ shown.body = contents[shown.version]
    BY <2>1, RequestFacts DEF Knows
  <2>3. Reading(w) = [note |-> "note", since |-> shown.version, answer |-> None]
    BY <2>1 DEF Reading
  <2>4. Reading(w)' = [note |-> "note", since |-> shown.version, answer |-> shown.body]
    BY <2>1 DEF Reading
  <2>5. shown.version \in shown.version .. Len(contents)
    BY <2>2, RequestFacts, LenProperties
  <2> QED
    BY <1>2, <2>1, <2>2, <2>3, <2>4, <2>5, ReaderStep
<1> QED
  BY <1>5, <1>6, <1>8, <1>9, <1>10, <1>11, <1>12, <1>13 DEF NoteRoutes, PublicRoutes

LEMMA EnvironmentRefines ==
    ASSUME IInv,
           \/ \E u \in Users, role \in Roles \cup {None} : ChangeMembership(u, role)
           \/ \E l \in Links : LapseLink(l)
           \/ Evict \/ Restart \/ UNCHANGED vars
    PROVE  [Store!Next]_(Store!storeVars)
<1>1. CASE Restart
  <2>1. \A w \in Workers : Reading(w)' = Store!NotReading
    BY <1>1 DEF Restart, Reading, Store!NotReading, Idle
  <2>2. Store!EndAll
    BY <1>1, <2>1 DEF Restart, Store!EndAll
  <2> QED
    BY <2>2 DEF Store!Next
<1>2. CASE ~ Restart
  <2>1. UNCHANGED <<note, contents, requests>>
    BY <1>2 DEF ChangeMembership, LapseLink, Evict, vars
  <2> QED
    BY <2>1 DEF Store!storeVars, Reading
<1> QED
  BY <1>1, <1>2

\* The server implements NoteStore with fresh reads: caching decrypted notes by
\* version, dropping the entry before the commit and rolling back around it,
\* and reading a link's note without a lock, are invisible to readers.
THEOREM ServerImplementsNoteStore == Spec => ReadsAreCurrent
<1>1. Init => Store!Init
  <2> SUFFICES ASSUME Init PROVE Store!Init
    OBVIOUS
  <2>1. \A w \in Workers : Reading(w) = Store!NotReading
    BY DEF Init, Idle, Reading, Store!NotReading
  <2>2. note.status # "deleted" /\ contents = <<>>
    BY DEF Init, NoRow
  <2> QED
    BY <2>1, <2>2 DEF Store!Init
<1>2. IInv /\ [Next]_vars => [Store!Next]_(Store!storeVars)
  BY RequestRefines, CommitRefines, EnvironmentRefines DEF Next
<1> QED
  BY <1>1, <1>2, Invariance, PTL DEF Spec, ReadsAreCurrent, Store!Spec
=============================================================================
