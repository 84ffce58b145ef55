--------------------------- MODULE KimiNotesProofs ---------------------------
(***************************************************************************)
(* Theorems of KimiNotes, for every set of notes, folders, files, texts,   *)
(* keys and requests, every bound on versions, and every choice of the     *)
(* operations that run alone.                                              *)
(***************************************************************************)
EXTENDS KimiNotes, TLAPS

-----------------------------------------------------------------------------
(* The inductive invariant.                                                *)

\* A reply was committed to note n.
Committed(n, reply) == \E i \in 1 .. Len(contents[n]) : contents[n][i] = reply

\* Rows are the last contents of live notes; versions count them while updates
\* are alone, and keys follow the tenant's while creations are.
RowInv(o) ==
    /\ rows[o].status = "unused" => rows[o] = NoRow
    /\ rows[o].status # "unused" => rows[o].text \in Texts /\ rows[o].version # 0
    /\ "create" \in alone => (Live(o) => rows[o].key = kek)

NoteInv(n) ==
    /\ rows[n].status = "unused" => contents[n] = <<>>
    /\ rows[n].status # "unused" => contents[n] # <<>>
    /\ Live(n) => contents[n][Len(contents[n])] = Payload(rows[n])
    /\ "update" \in alone => (Live(n) => rows[n].version = Len(contents[n]))

\* The cache holds committed replies, and current ones while reads are alone.
CacheInv(n) ==
    cache[n] # None =>
        /\ Committed(n, cache[n])
        /\ "get" \in alone => (Live(n) => cache[n] = Payload(rows[n]))

\* o is of a class that rotation q has read.
Visited(q, o) == \E i \in 1 .. q.scans : ClassOf[o] = Classes[i]

\* What request q of a worker has read, checked and chosen.
Carries(q) ==
    /\ q.op = None => q = Idle
    /\ q.op = "create" =>
          /\ q.object \in Objects /\ q.text \in Texts /\ q.key \in Keys
          /\ rows[q.object] = NoRow
          /\ "create" \in alone => q.key = kek
    /\ q.op \in {"get", "update", "delete"} =>
          /\ q.object \in Notes /\ rows[q.object].status # "unused"
          /\ Committed(q.object, Payload(q.row))
          /\ q.row.text \in Texts /\ q.row.version # 0
    /\ q.stage \in {"missed", "answered"} => q.op = "get"
    /\ (q.op = "get" /\ q.stage # "answered") => q.reply = None
    /\ (q.op = "get" /\ "get" \in alone) =>
          IF q.stage = "answered"
          THEN \E i \in q.since .. Len(contents[q.object]) :
                  contents[q.object][i] = q.reply
          ELSE /\ Live(q.object) /\ q.row = rows[q.object]
               /\ q.since = Len(contents[q.object])
    /\ q.op = "update" =>
          /\ q.text \in Texts /\ q.row.version < MaxVersion
          /\ "update" \in alone => q.row.version = rows[q.object].version
          /\ ("get" \in alone /\ q.stage = "flushed") => cache[q.object] = None
    /\ q.stage = "scanning" => q.op = "rotate"
    /\ q.op = "rotate" =>
          /\ q.new \in Keys /\ (q.stage = "flushed" => q.scans = 3)
          /\ \A o \in q.scanned : rows[o].status # "unused"
          /\ "create" \in alone =>
                \A o \in Objects : Live(o) /\ Visited(q, o) => o \in q.scanned

\* Objects being created are as many as the requests that create them.
CreationsDiffer ==
    \A w, v \in Workers :
        requests[w].op = "create" /\ requests[v].op = "create" /\
        requests[w].object = requests[v].object => w = v

AloneIsAlone ==
    \A w \in Workers : requests[w].op \in alone =>
        \A v \in Workers \ {w} : requests[v] = Idle

IInv ==
    /\ TypeOK /\ CreationsDiffer /\ AloneIsAlone
    /\ \A o \in Objects : RowInv(o)
    /\ \A n \in Notes : NoteInv(n) /\ CacheInv(n)
    /\ \A w \in Workers : Carries(requests[w])

-----------------------------------------------------------------------------
(* Rows, replies and requests.                                             *)

LEMMA AppendFacts ==
    ASSUME NEW S, NEW s \in Seq(S), NEW e \in S
    PROVE  /\ Append(s, e) \in Seq(S) /\ Append(s, e) # <<>>
           /\ Len(s) \in Nat /\ Len(Append(s, e)) = Len(s) + 1
           /\ \A i \in 1 .. Len(s) : Append(s, e)[i] = s[i]
           /\ Append(s, e)[Len(s) + 1] = e
  OBVIOUS

LEMMA ClassNames == Classes[1] = "note" /\ Classes[2] = "folder" /\ Classes[3] = "file"
  BY DEF Classes

LEMMA NotesAreObjects == \A n \in Notes : n \in Objects
  BY DEF Notes

LEMMA IdleFacts ==
    /\ Idle \in Request /\ Idle.op = None /\ None \notin Ops
    /\ Carries(Idle) /\ NoRow \in Row /\ NoRow.status = "unused"
<1>1. NoRow \in Row /\ NoRow.status = "unused" /\ None \notin Ops
  BY NotesAssumption DEF NoRow, Row
<1>2. Idle \in Request /\ Idle.op = None /\ Idle.stage = "idle"
  BY <1>1 DEF Idle, Request, Ops
<1> QED
  BY <1>1, <1>2 DEF Carries, Ops

LEMMA RowFacts ==
    ASSUME IInv, NEW o \in Objects
    PROVE  /\ rows \in [Objects -> Row] /\ rows[o] \in Row
           /\ rows[o].version \in 0 .. MaxVersion /\ MaxVersion \in Nat
           /\ RowInv(o)
<1>1. rows \in [Objects -> Row]
  BY DEF IInv, TypeOK
<1>2. rows[o] \in Row
  BY <1>1
<1> QED
  BY <1>1, <1>2, NotesAssumption DEF Row, IInv

LEMMA NoteFacts ==
    ASSUME IInv, NEW n \in Notes
    PROVE  /\ n \in Objects /\ contents \in [Notes -> Seq(Reply)]
           /\ contents[n] \in Seq(Reply) /\ Len(contents[n]) \in Nat
           /\ NoteInv(n) /\ CacheInv(n)
           /\ contents[n] # <<>> => Len(contents[n]) >= 1
<1>1. contents \in [Notes -> Seq(Reply)]
  BY DEF IInv, TypeOK
<1>2. contents[n] \in Seq(Reply)
  BY <1>1
<1>3. Len(contents[n]) \in Nat /\ (contents[n] # <<>> => Len(contents[n]) >= 1)
  BY <1>2
<1> QED
  BY <1>1, <1>2, <1>3, NotesAreObjects DEF IInv

LEMMA RequestFacts ==
    ASSUME IInv, NEW w \in Workers
    PROVE  /\ requests \in [Workers -> Request] /\ requests[w] \in Request
           /\ Carries(requests[w])
<1>1. requests \in [Workers -> Request] /\ Carries(requests[w])
  BY DEF IInv, TypeOK
<1> QED
  BY <1>1

Turns(w, q) == requests' = [requests EXCEPT ![w] = q]

LEMMA TurnFacts ==
    ASSUME IInv, NEW w \in Workers, NEW q \in Request, Turns(w, q)
    PROVE  /\ requests' \in [Workers -> Request] /\ requests'[w] = q
           /\ \A v \in Workers \ {w} : requests'[v] = requests[v]
  BY RequestFacts DEF Turns

LEMMA OthersOverlap ==
    ASSUME IInv, NEW w \in Workers, requests[w].op # None, NEW v \in Workers \ {w}
    PROVE  requests[v].op \notin alone
<1> SUFFICES ASSUME requests[v].op \in alone PROVE FALSE
  OBVIOUS
<1>1. requests[w] = Idle
  BY DEF IInv, AloneIsAlone
<1> QED
  BY <1>1, IdleFacts

\* What a step of w leaves to the others.
Undisturbed(w) ==
    /\ \A o \in Objects :
          /\ rows[o].status # "unused" => rows'[o].status # "unused"
          /\ rows[o] = NoRow /\ rows'[o] # NoRow =>
                requests[w].op = "create" /\ requests[w].object = o
          /\ Live(o)' /\ ~Live(o) => requests[w].op = "create"
    /\ \A n \in Notes :
          /\ Len(contents'[n]) \in Nat /\ Len(contents[n]) <= Len(contents'[n])
          /\ \A i \in 1 .. Len(contents[n]) : contents'[n][i] = contents[n][i]
          /\ cache'[n] \in {cache[n], None} \/ requests[w].op = "get"

LEMMA CommittedStays ==
    ASSUME IInv, NEW w \in Workers, Undisturbed(w), NEW n \in Notes, NEW reply,
           Committed(n, reply)
    PROVE  Committed(n, reply)'
<1>1. PICK i \in 1 .. Len(contents[n]) : contents[n][i] = reply
  BY DEF Committed
<1>2. i \in 1 .. Len(contents'[n]) /\ contents'[n][i] = reply
  BY <1>1, NoteFacts DEF Undisturbed
<1> QED
  BY <1>2 DEF Committed

LEMMA CarryOthers ==
    ASSUME IInv, NEW w \in Workers, requests[w].op # None, Undisturbed(w), alone' = alone,
           NEW v \in Workers \ {w}, requests'[v] = requests[v]
    PROVE  Carries(requests[v])'
<1>1. PICK q \in Request : q = requests[v] /\ Carries(q)
  BY RequestFacts
<1>2. q.op \notin alone
  BY <1>1, OthersOverlap
<1>3. requests[w].op \in alone => q = Idle
  BY <1>1 DEF IInv, AloneIsAlone
<1>4. q.op \in Ops => ~(requests[w].op \in alone)
  BY <1>3, IdleFacts
<1>5. q.op = "create" => rows'[q.object] = NoRow
  <2> SUFFICES ASSUME q.op = "create" PROVE rows'[q.object] = NoRow
    OBVIOUS
  <2>1. q.object \in Objects /\ rows[q.object] = NoRow
    BY <1>1 DEF Carries
  <2>2. ~(requests[w].op = "create" /\ requests[w].object = q.object)
    BY <1>1 DEF IInv, CreationsDiffer
  <2> QED
    BY <2>1, <2>2 DEF Undisturbed
<1>6. q.op \in {"get", "update", "delete"} =>
          /\ rows'[q.object].status # "unused"
          /\ Committed(q.object, Payload(q.row))'
  <2> SUFFICES ASSUME q.op \in {"get", "update", "delete"}
               PROVE  /\ rows'[q.object].status # "unused"
                      /\ Committed(q.object, Payload(q.row))'
    OBVIOUS
  <2>1. /\ q.object \in Notes /\ rows[q.object].status # "unused"
        /\ Committed(q.object, Payload(q.row))
    BY <1>1 DEF Carries
  <2> QED
    BY <2>1, NotesAreObjects, CommittedStays DEF Undisturbed
<1>7. q.op = "update" =>
          (("get" \in alone /\ q.stage = "flushed") => cache'[q.object] = None)
  <2> SUFFICES ASSUME q.op = "update", "get" \in alone, q.stage = "flushed"
               PROVE  cache'[q.object] = None
    OBVIOUS
  <2>1. q.object \in Notes /\ cache[q.object] = None
    BY <1>1 DEF Carries
  <2>2. requests[w].op # "get"
    BY <1>4 DEF Ops
  <2> QED
    BY <2>1, <2>2 DEF Undisturbed
<1>8. (q.op = "rotate" /\ "create" \in alone) =>
          \A o \in Objects : Live(o)' /\ Visited(q, o) => o \in q.scanned
  <2> SUFFICES ASSUME q.op = "rotate", "create" \in alone, NEW o \in Objects, Live(o)',
                      Visited(q, o)
               PROVE  o \in q.scanned
    OBVIOUS
  <2>1. requests[w].op # "create"
    BY <1>4 DEF Ops
  <2>2. Live(o)
    BY <2>1 DEF Undisturbed
  <2> QED
    BY <1>1, <2>2 DEF Carries
<1>10. q.op = "rotate" => \A o \in q.scanned : rows'[o].status # "unused"
  BY <1>1 DEF Undisturbed, Carries, Request
<1>9. Carries(q)'
  BY <1>1, <1>2, <1>5, <1>6, <1>7, <1>8, <1>10 DEF Carries, Visited
<1> QED
  BY <1>1, <1>9 DEF Carries

LEMMA AloneKept ==
    ASSUME IInv, NEW w \in Workers, NEW q \in Request, Turns(w, q), alone' = alone,
           requests[w].op # None, q.op \in {requests[w].op, None}
    PROVE  AloneIsAlone'
<1>1. alone \subseteq Ops
  BY NotesAssumption DEF IInv, TypeOK
<1> SUFFICES ASSUME NEW x \in Workers, requests'[x].op \in alone,
                    NEW v \in Workers \ {x}
             PROVE  requests'[v] = Idle
  BY DEF AloneIsAlone
<1>2. requests[x].op \in alone
  BY <1>1, TurnFacts, IdleFacts
<1>3. \A y \in Workers \ {x} : requests[y] = Idle
  BY <1>2 DEF IInv, AloneIsAlone
<1>4. x = w
  BY <1>3, IdleFacts
<1> QED
  BY <1>3, <1>4, TurnFacts

\* A request that goes on or ends.
LEMMA GoesOnStep ==
    ASSUME IInv, NEW w \in Workers, NEW q \in Request, Turns(w, q), alone' = alone,
           requests[w].op # None,
           q = Idle \/ (q.op = requests[w].op /\ q.object = requests[w].object),
           Undisturbed(w), Carries(q)',
           rows' \in [Objects -> Row], kek' \in Keys, lock' \in Workers \cup {None},
           cache' \in [Notes -> Reply \cup {None}], contents' \in [Notes -> Seq(Reply)],
           \A o \in Objects : RowInv(o)', \A n \in Notes : NoteInv(n)' /\ CacheInv(n)'
    PROVE  IInv'
<1>1. TypeOK'
  BY TurnFacts DEF IInv, TypeOK
<1>2. CreationsDiffer'
  BY TurnFacts, IdleFacts DEF IInv, CreationsDiffer, Ops
<1>3. AloneIsAlone'
  BY AloneKept, IdleFacts
<1>4. \A v \in Workers : Carries(requests[v])'
  <2>1. \A v \in Workers \ {w} : Carries(requests[v])'
    BY TurnFacts, CarryOthers
  <2>2. Carries(requests[w])'
    BY TurnFacts DEF Carries
  <2> QED
    BY <2>1, <2>2
<1> QED
  BY <1>1, <1>2, <1>3, <1>4 DEF IInv

\* A request that goes on or ends and changes no table and no entry.
LEMMA AsideStep ==
    ASSUME IInv, NEW w \in Workers, NEW q \in Request, Turns(w, q),
           UNCHANGED <<rows, kek, contents, alone>>, requests[w].op # None,
           q = Idle \/ (q.op = requests[w].op /\ q.object = requests[w].object),
           Carries(q)', lock' \in Workers \cup {None},
           \A n \in Notes : cache'[n] \in {cache[n], None},
           cache' \in [Notes -> Reply \cup {None}]
    PROVE  IInv'
<1>1. Undisturbed(w)
  BY NoteFacts DEF Undisturbed, Live
<1>2. \A o \in Objects : RowInv(o)'
  BY DEF IInv, RowInv, Live
<1>3. \A n \in Notes : NoteInv(n)' /\ CacheInv(n)'
  BY DEF IInv, NoteInv, CacheInv, Live, Committed
<1>4. /\ rows' \in [Objects -> Row] /\ kek' \in Keys /\ contents' \in [Notes -> Seq(Reply)]
  BY DEF IInv, TypeOK
<1> QED
  BY <1>1, <1>2, <1>3, <1>4, GoesOnStep

\* A request that begins.
LEMMA StartStep ==
    ASSUME IInv, NEW w \in Workers, NEW q \in Request, Begin(w, q), q.op \in Ops,
           UNCHANGED <<rows, kek, lock, cache, contents, alone>>, Carries(q),
           q.op = "create" => \A v \in Workers : requests[v].object # q.object
    PROVE  IInv'
<1>1. /\ Turns(w, q) /\ \A v \in Workers : requests[v].op \notin alone
      /\ q.op \in alone => \A v \in Workers : requests[v] = Idle
  BY DEF Begin, Turns
<1>2. TypeOK'
  BY <1>1, TurnFacts DEF IInv, TypeOK
<1>3. CreationsDiffer' /\ AloneIsAlone'
  BY <1>1, TurnFacts DEF IInv, CreationsDiffer, AloneIsAlone
<1>4. \A o \in Objects : RowInv(o)'
  BY DEF IInv, RowInv, Live
<1>5. \A n \in Notes : NoteInv(n)' /\ CacheInv(n)'
  BY DEF IInv, NoteInv, CacheInv, Live, Committed
<1>6. \A v \in Workers : Carries(requests[v])'
  <2> SUFFICES ASSUME NEW v \in Workers PROVE Carries(requests[v])'
    OBVIOUS
  <2>1. PICK p \in Request : p = requests'[v] /\ Carries(p)
    BY <1>1, TurnFacts, RequestFacts
  <2>2. Carries(p)'
    BY <2>1 DEF Carries, Committed, Live, Visited
  <2> QED
    BY <2>1, <2>2 DEF Carries
<1> QED
  BY <1>2, <1>3, <1>4, <1>5, <1>6 DEF IInv

-----------------------------------------------------------------------------
(* The steps.                                                              *)

LEMMA CreateReadStep ==
    ASSUME IInv, NEW w \in Workers, NEW o \in Objects, NEW text \in Texts,
           CreateRead(w, o, text)
    PROVE  IInv'
<1> DEFINE q == [Idle EXCEPT !.stage = "checked", !.op = "create", !.object = o,
                             !.text = text, !.key = kek]
<1>1. /\ rows[o] = NoRow /\ \A v \in Workers : requests[v].object # o
      /\ Begin(w, q) /\ UNCHANGED <<rows, kek, lock, cache, contents, alone>>
  BY DEF CreateRead
<1>2. kek \in Keys
  BY DEF IInv, TypeOK
<1>3. /\ q \in Request /\ q.stage = "checked" /\ q.op = "create" /\ q.object = o
      /\ q.text = text /\ q.key = kek
  BY <1>2, IdleFacts DEF Idle, Request, Ops
<1> HIDE DEF q
<1>4. Carries(q)
  BY <1>1, <1>2, <1>3, IdleFacts DEF Carries, Ops
<1> QED
  BY <1>1, <1>3, <1>4, StartStep DEF Ops

LEMMA LoadFacts ==
    ASSUME IInv, NEW w \in Workers, NEW op \in {"get", "update", "delete"},
           NEW n \in Notes, NEW text \in Texts \cup {None}, NEW stage \in {"loaded", "checked"},
           Load(w, op, n, text, stage), Live(n), op = "update" => text \in Texts,
           op = "update" => rows[n].version < MaxVersion
    PROVE  IInv'
<1> DEFINE q == [Idle EXCEPT !.stage = stage, !.op = op, !.object = n,
                             !.text = text, !.row = rows[n], !.since = Len(contents[n])]
<1>1. Begin(w, q) /\ UNCHANGED <<rows, kek, lock, cache, contents, alone>>
  BY DEF Load
<1>2. n \in Objects /\ rows[n] \in Row /\ Len(contents[n]) \in Nat
  BY NotesAreObjects, RowFacts, NoteFacts
<1>3. /\ q \in Request /\ q.stage = stage /\ q.op = op /\ q.object = n
      /\ q.text = text /\ q.row = rows[n] /\ q.since = Len(contents[n])
      /\ q.reply = None
  <2>1. PICK row \in Row, since \in Nat : row = rows[n] /\ since = Len(contents[n])
    BY <1>2
  <2>2. q = [Idle EXCEPT !.stage = stage, !.op = op, !.object = n,
                         !.text = text, !.row = row, !.since = since]
    BY <2>1
  <2> HIDE DEF q
  <2>3. q \in Request
    <3>1. stage \in {"loaded", "checked"} /\ op \in Ops /\ n \in Objects
      BY <1>2 DEF Ops
    <3> QED
      BY <2>1, <2>2, <3>1, IdleFacts, ZenonT(40) DEF Idle, Request
  <2>4. /\ q.stage = stage /\ q.op = op /\ q.object = n
        /\ q.text = text /\ q.row = row /\ q.since = since
        /\ q.reply = None
    BY <2>2 DEF Idle
  <2> QED
    BY <2>1, <2>3, <2>4
<1> HIDE DEF q
<1>4. Committed(n, Payload(rows[n])) /\ rows[n].text \in Texts /\ rows[n].version # 0
  <2>1. contents[n] # <<>> /\ contents[n][Len(contents[n])] = Payload(rows[n])
    BY NoteFacts DEF NoteInv, Live
  <2>2. Len(contents[n]) \in 1 .. Len(contents[n])
    BY <2>1, NoteFacts
  <2> QED
    BY <1>2, <2>1, <2>2, RowFacts DEF Committed, RowInv, Live
<1>5. Carries(q)
  BY <1>2, <1>3, <1>4, IdleFacts DEF Carries, Ops, Live
<1> QED
  BY <1>1, <1>3, <1>5, StartStep DEF Ops

LEMMA GetReadStep ==
    ASSUME IInv, NEW w \in Workers, NEW n \in Notes, GetRead(w, n)
    PROVE  IInv'
<1>1. Live(n) /\ Load(w, "get", n, None, "loaded")
  BY DEF GetRead, Found
<1> QED
  BY <1>1, LoadFacts

LEMMA UpdateReadStep ==
    ASSUME IInv, NEW w \in Workers, NEW n \in Notes, NEW text \in Texts,
           UpdateRead(w, n, text)
    PROVE  IInv'
<1>1. Live(n) /\ rows[n].version < MaxVersion /\ Load(w, "update", n, text, "loaded")
  BY DEF UpdateRead
<1> QED
  BY <1>1, LoadFacts

LEMMA DeleteReadStep ==
    ASSUME IInv, NEW w \in Workers, NEW n \in Notes, DeleteRead(w, n)
    PROVE  IInv'
<1>1. Live(n) /\ Load(w, "delete", n, None, "checked")
  BY DEF DeleteRead
<1> QED
  BY <1>1, LoadFacts

LEMMA RotateReadStep ==
    ASSUME IInv, NEW w \in Workers, NEW new \in Keys, RotateRead(w, new)
    PROVE  IInv'
<1> DEFINE q == [Idle EXCEPT !.stage = "scanning", !.op = "rotate", !.key = kek, !.new = new]
<1>1. Begin(w, q) /\ UNCHANGED <<rows, kek, lock, cache, contents, alone>>
  BY DEF RotateRead
<1>2. kek \in Keys
  BY DEF IInv, TypeOK
<1>3. /\ q \in Request /\ q.stage = "scanning" /\ q.op = "rotate" /\ q.new = new
      /\ q.scans = 0 /\ q.scanned = {}
  BY <1>2, IdleFacts DEF Idle, Request, Ops
<1> HIDE DEF q
<1>4. Carries(q)
  BY <1>3, IdleFacts DEF Carries, Ops, Visited
<1> QED
  BY <1>1, <1>3, <1>4, StartStep DEF Ops

LEMMA GetLookupStep ==
    ASSUME IInv, NEW w \in Workers, GetLookup(w)
    PROVE  IInv'
<1>1. PICK p \in Request : p = requests[w] /\ Carries(p)
  BY RequestFacts
<1>2. /\ p.op = "get" /\ p.stage = "loaded" /\ p.object \in Notes /\ p.reply = None
  BY <1>1 DEF GetLookup, Carries
<1>3. PICK hit \in Reply \cup {None} : hit = cache[p.object]
  BY <1>2 DEF IInv, TypeOK
<1> DEFINE stage == IF hit = None THEN "missed" ELSE "answered"
           s == [p EXCEPT !.stage = stage, !.reply = hit]
<1>4. Turns(w, s) /\ UNCHANGED <<rows, kek, lock, cache, contents, alone>>
  BY <1>1, <1>3 DEF GetLookup, Turns
<1>5. stage \in {"missed", "answered"}
  OBVIOUS
<1>9. stage = "missed" <=> hit = None
  OBVIOUS
<1> HIDE DEF stage
<1>6. /\ s \in Request /\ s.stage = stage /\ s.op = "get" /\ s.object = p.object
      /\ s.row = p.row /\ s.since = p.since /\ s.reply = hit
  <2>1. s \in Request
    BY <1>5 DEF Request
  <2> QED
    BY <1>2, <2>1 DEF Request
<1> HIDE DEF s
<1>7. PICK q \in Request : q = s
  BY <1>6
<1>8. Carries(q)
  <2>1. (q.stage = "answered" /\ "get" \in alone) =>
           \E i \in q.since .. Len(contents[q.object]) : contents[q.object][i] = q.reply
    <3> SUFFICES ASSUME q.stage = "answered", "get" \in alone
                 PROVE  \E i \in q.since .. Len(contents[q.object]) :
                           contents[q.object][i] = q.reply
      OBVIOUS
    <3>1. /\ Live(p.object) /\ p.since = Len(contents[p.object])
      BY <1>2, <1>1 DEF Carries
    <3>2. cache[p.object] # None
      BY <1>3, <1>6, <1>7, <1>9
    <3>3. cache[p.object] = Payload(rows[p.object])
      BY <1>2, <3>1, <3>2, NoteFacts DEF CacheInv
    <3>4. contents[p.object][Len(contents[p.object])] = Payload(rows[p.object])
      BY <1>2, <3>1, NoteFacts DEF NoteInv
    <3> QED
      BY <1>2, <1>3, <1>6, <1>7, <3>1, <3>3, <3>4, NoteFacts
  <2>2. /\ q.object \in Notes /\ rows[q.object].status # "unused"
        /\ Committed(q.object, Payload(q.row))
        /\ q.row.text \in Texts /\ q.row.version # 0
    BY <1>1, <1>2, <1>6, <1>7 DEF Carries
  <2>3. ("get" \in alone /\ q.stage # "answered") =>
           /\ Live(q.object) /\ q.row = rows[q.object] /\ q.since = Len(contents[q.object])
    BY <1>1, <1>2, <1>6, <1>7 DEF Carries
  <2>4. q.stage # "answered" => q.reply = None
    BY <1>5, <1>6, <1>7, <1>9
  <2>5. q.op = "get" /\ q.stage # "scanning"
    BY <1>5, <1>6, <1>7
  <2> QED
    BY <2>1, <2>2, <2>3, <2>4, <2>5, IdleFacts DEF Carries, Ops
<1>10. Carries(q)'
  BY <1>4, <1>8 DEF Carries, Committed, Live, Visited
<1>11. /\ lock' \in Workers \cup {None} /\ requests[w].op # None
       /\ cache' \in [Notes -> Reply \cup {None}]
       /\ \A n \in Notes : cache'[n] \in {cache[n], None}
  BY <1>1, <1>2, <1>4, IdleFacts DEF IInv, TypeOK, Ops
<1> QED
  BY <1>1, <1>2, <1>4, <1>6, <1>7, <1>10, <1>11, AsideStep

\* The last content of a live note, while reads are alone.
LEMMA GetFillStep ==
    ASSUME IInv, NEW w \in Workers, GetFill(w)
    PROVE  IInv'
<1>1. PICK p \in Request : p = requests[w] /\ Carries(p)
  BY RequestFacts
<1>2. /\ p.op = "get" /\ p.stage = "missed" /\ p.object \in Notes
      /\ Committed(p.object, Payload(p.row))
      /\ p.row.text \in Texts /\ p.row.version # 0 /\ p.row \in Row
      /\ p.object \in Objects
  BY <1>1, NotesAreObjects DEF GetFill, Carries, Request
<1>3. PICK hit \in Reply : hit = Payload(p.row)
  <2>1. p.row.version \in 0 .. MaxVersion /\ MaxVersion \in Nat
    BY <1>2, NotesAssumption DEF Row
  <2> QED
    BY <1>2, <2>1 DEF Payload, Reply
<1> DEFINE s == [p EXCEPT !.stage = "answered", !.reply = hit]
<1>4. /\ Turns(w, s) /\ UNCHANGED <<rows, kek, lock, contents, alone>>
      /\ cache' = [cache EXCEPT ![p.object] = hit]
  BY <1>1, <1>3 DEF GetFill, Turns
<1>6. /\ s \in Request /\ s.stage = "answered" /\ s.op = "get" /\ s.object = p.object
      /\ s.row = p.row /\ s.since = p.since /\ s.reply = hit
  BY <1>2 DEF Request
<1> HIDE DEF s
<1>7. PICK q \in Request : q = s
  BY <1>6
<1>12. "get" \in alone =>
          /\ Live(p.object) /\ hit = Payload(rows[p.object])
          /\ p.since = Len(contents[p.object])
          /\ contents[p.object][Len(contents[p.object])] = hit
  <2> SUFFICES ASSUME "get" \in alone
               PROVE  /\ Live(p.object) /\ hit = Payload(rows[p.object])
                      /\ p.since = Len(contents[p.object])
                      /\ contents[p.object][Len(contents[p.object])] = hit
    OBVIOUS
  <2>1. Live(p.object) /\ p.row = rows[p.object] /\ p.since = Len(contents[p.object])
    BY <1>1, <1>2 DEF Carries
  <2> QED
    BY <1>2, <1>3, <2>1, NoteFacts DEF NoteInv
<1>8. Carries(q)
  <2>1. "get" \in alone =>
           \E i \in q.since .. Len(contents[q.object]) : contents[q.object][i] = q.reply
    BY <1>2, <1>6, <1>7, <1>12, NoteFacts
  <2>2. /\ q.object \in Notes /\ rows[q.object].status # "unused"
        /\ Committed(q.object, Payload(q.row))
        /\ q.row.text \in Texts /\ q.row.version # 0
    BY <1>1, <1>2, <1>6, <1>7 DEF Carries
  <2> QED
    BY <1>6, <1>7, <2>1, <2>2, IdleFacts DEF Carries, Ops
<1>9. Carries(q)'
  <2>1. q.op = "get"
    BY <1>6, <1>7
  <2> QED
    BY <1>4, <1>8, <2>1 DEF Carries, Committed, Live, Visited
<1>10. cache \in [Notes -> Reply \cup {None}]
  BY DEF IInv, TypeOK
<1>11. /\ rows' \in [Objects -> Row] /\ kek' \in Keys /\ lock' \in Workers \cup {None}
       /\ contents' \in [Notes -> Seq(Reply)]
       /\ cache' \in [Notes -> Reply \cup {None}]
  BY <1>4, <1>10 DEF IInv, TypeOK
<1>13. Undisturbed(w)
  BY <1>1, <1>2, <1>4, NoteFacts DEF Undisturbed, Live
<1>14. \A o \in Objects : RowInv(o)'
  BY <1>4 DEF IInv, RowInv, Live
<1>15. ASSUME NEW n \in Notes PROVE NoteInv(n)' /\ CacheInv(n)'
  <2>1. NoteInv(n)'
    BY <1>4, NoteFacts DEF NoteInv, Live
  <2>2. CASE n = p.object
    <3>1. cache'[n] = hit
      BY <1>4, <1>10, <2>2
    <3> QED
      BY <1>2, <1>3, <1>4, <1>12, <2>1, <2>2, <3>1 DEF CacheInv, Committed, Live
  <2>3. CASE n # p.object
    <3>1. cache'[n] = cache[n]
      BY <1>4, <1>10, <2>3
    <3> QED
      BY <1>4, <2>1, <3>1, NoteFacts DEF CacheInv, Committed, Live
  <2> QED
    BY <2>1, <2>2, <2>3
<1>16. requests[w].op # None
  BY <1>1, <1>2, IdleFacts DEF Ops
<1> QED
  BY <1>1, <1>2, <1>4, <1>6, <1>7, <1>9, <1>11, <1>13, <1>14, <1>15, <1>16, GoesOnStep

\* A request that ends and changes nothing.
LEMMA EndStep ==
    ASSUME IInv, NEW w \in Workers, requests[w].op # None, Turns(w, Idle),
           lock' \in Workers \cup {None},
           UNCHANGED <<rows, kek, cache, contents, alone>>
    PROVE  IInv'
<1>1. Idle \in Request
  BY IdleFacts
<1>2. Carries(Idle)'
  <2>1. Idle.op = None /\ Idle.stage = "idle"
    BY IdleFacts DEF Idle
  <2> QED
    BY <2>1, IdleFacts DEF Carries, Ops
<1>3. /\ cache' \in [Notes -> Reply \cup {None}]
      /\ \A n \in Notes : cache'[n] \in {cache[n], None}
  BY DEF IInv, TypeOK
<1> QED
  BY <1>1, <1>2, <1>3, AsideStep

LEMMA AnswerStep ==
    ASSUME IInv, NEW w \in Workers, Answer(w)
    PROVE  IInv'
<1>1. /\ requests[w].stage = "answered" /\ Turns(w, Idle)
      /\ UNCHANGED <<rows, kek, lock, cache, contents, alone>>
  BY DEF Answer, Turns
<1>2. requests[w].op # None /\ lock' \in Workers \cup {None}
  BY <1>1, RequestFacts, IdleFacts DEF Carries, Ops, IInv, TypeOK
<1> QED
  BY <1>1, <1>2, EndStep

LEMMA AbortStep ==
    ASSUME IInv, NEW w \in Workers, Abort(w)
    PROVE  IInv'
<1>1. /\ requests[w] # Idle /\ Turns(w, Idle)
      /\ UNCHANGED <<rows, kek, cache, contents, alone>>
  BY DEF Abort, Turns
<1>2. requests[w].op # None /\ lock' \in Workers \cup {None}
  BY <1>1, RequestFacts DEF Abort, Carries, IInv, TypeOK
<1> QED
  BY <1>1, <1>2, EndStep

LEMMA UpdateKeyStep ==
    ASSUME IInv, NEW w \in Workers, UpdateKey(w)
    PROVE  IInv'
<1>1. PICK p \in Request : p = requests[w] /\ Carries(p)
  BY RequestFacts
<1> DEFINE s == [p EXCEPT !.stage = "checked"]
<1>2. /\ p.op = "update" /\ p.stage = "loaded" /\ Turns(w, s)
      /\ UNCHANGED <<rows, kek, lock, cache, contents, alone>>
  BY <1>1 DEF UpdateKey, Advance, Turns
<1>3. /\ s \in Request /\ s.stage = "checked" /\ s.op = "update" /\ s.object = p.object
      /\ s.row = p.row /\ s.text = p.text
  BY <1>2 DEF Request
<1> HIDE DEF s
<1>4. PICK q \in Request : q = s
  BY <1>3
<1>5. Carries(q)'
  BY <1>1, <1>2, <1>3, <1>4, IdleFacts DEF Carries, Ops, Committed
<1>6. /\ lock' \in Workers \cup {None} /\ requests[w].op # None
      /\ cache' \in [Notes -> Reply \cup {None}]
      /\ \A n \in Notes : cache'[n] \in {cache[n], None}
  BY <1>1, <1>2, IdleFacts DEF IInv, TypeOK, Ops
<1> QED
  BY <1>1, <1>2, <1>3, <1>4, <1>5, <1>6, AsideStep

LEMMA UpdateFlushStep ==
    ASSUME IInv, NEW w \in Workers, UpdateFlush(w)
    PROVE  IInv'
<1>1. PICK p \in Request : p = requests[w] /\ Carries(p)
  BY RequestFacts
<1> DEFINE s == [p EXCEPT !.stage = "flushed"]
<1>2. /\ p.op = "update" /\ p.object \in Notes /\ Turns(w, s) /\ lock' = w
      /\ cache' = [cache EXCEPT ![p.object] = None]
      /\ UNCHANGED <<rows, kek, contents, alone>>
  BY <1>1 DEF UpdateFlush, Advance, Turns, TakeLock, Invalidated, Carries
<1>3. /\ s \in Request /\ s.stage = "flushed" /\ s.op = "update" /\ s.object = p.object
      /\ s.row = p.row /\ s.text = p.text
  BY <1>2 DEF Request
<1> HIDE DEF s
<1>4. PICK q \in Request : q = s
  BY <1>3
<1>6. /\ lock' \in Workers \cup {None} /\ requests[w].op # None
      /\ cache' \in [Notes -> Reply \cup {None}] /\ cache'[p.object] = None
      /\ \A n \in Notes : cache'[n] \in {cache[n], None}
  BY <1>1, <1>2, IdleFacts DEF IInv, TypeOK, Ops
<1>5. Carries(q)'
  BY <1>1, <1>2, <1>3, <1>4, <1>6, IdleFacts DEF Carries, Ops, Committed
<1> QED
  BY <1>1, <1>2, <1>3, <1>4, <1>5, <1>6, AsideStep

LEMMA DeleteFlushStep ==
    ASSUME IInv, NEW w \in Workers, DeleteFlush(w)
    PROVE  IInv'
<1>1. PICK p \in Request : p = requests[w] /\ Carries(p)
  BY RequestFacts
<1> DEFINE s == [p EXCEPT !.stage = "flushed"]
<1>2. /\ p.op = "delete" /\ p.object \in Notes /\ Turns(w, s) /\ lock' = w
      /\ cache' = [cache EXCEPT ![p.object] = None]
      /\ UNCHANGED <<rows, kek, contents, alone>>
  BY <1>1 DEF DeleteFlush, Advance, Turns, TakeLock, Invalidated, Carries
<1>3. /\ s \in Request /\ s.stage = "flushed" /\ s.op = "delete" /\ s.object = p.object
      /\ s.row = p.row
  BY <1>2 DEF Request
<1> HIDE DEF s
<1>4. PICK q \in Request : q = s
  BY <1>3
<1>5. Carries(q)'
  BY <1>1, <1>2, <1>3, <1>4, IdleFacts DEF Carries, Ops, Committed
<1>6. /\ lock' \in Workers \cup {None} /\ requests[w].op # None
      /\ cache' \in [Notes -> Reply \cup {None}]
      /\ \A n \in Notes : cache'[n] \in {cache[n], None}
  BY <1>1, <1>2, IdleFacts DEF IInv, TypeOK, Ops
<1> QED
  BY <1>1, <1>2, <1>3, <1>4, <1>5, <1>6, AsideStep

LEMMA RotateScanStep ==
    ASSUME IInv, NEW w \in Workers, RotateScan(w)
    PROVE  IInv'
<1>1. PICK p \in Request : p = requests[w] /\ Carries(p)
  BY RequestFacts
<1>2. PICK found \in SUBSET Objects :
         found = {o \in Objects : ClassOf[o] = Classes[p.scans + 1] /\ Live(o)}
  OBVIOUS
<1> DEFINE s == [p EXCEPT !.scanned = p.scanned \cup found, !.scans = p.scans + 1]
<1>3. /\ p.stage = "scanning" /\ p.scans < 3 /\ Turns(w, s)
      /\ IF p.scanned = {} THEN UNCHANGED lock ELSE TakeLock(w)
      /\ UNCHANGED <<rows, kek, cache, contents, alone>>
  BY <1>1, <1>2 DEF RotateScan, Turns
<1>4. p.op = "rotate" /\ p.new \in Keys
  BY <1>1, <1>3 DEF Carries
<1>5. p.scans \in 0 .. 3 /\ p.scans + 1 \in 0 .. 3
  BY <1>3 DEF Request
<1>6. /\ s \in Request /\ s.stage = "scanning" /\ s.op = "rotate" /\ s.object = p.object
      /\ s.new = p.new /\ s.scanned = p.scanned \cup found /\ s.scans = p.scans + 1
  <2>1. s \in Request
    BY <1>5 DEF Request
  <2> QED
    BY <1>3, <1>4, <2>1 DEF Request
<1> HIDE DEF s
<1>7. PICK q \in Request : q = s
  BY <1>6
<1>8. "create" \in alone => \A o \in Objects : Live(o) /\ Visited(q, o) => o \in q.scanned
  <2> SUFFICES ASSUME "create" \in alone, NEW o \in Objects, Live(o),
                      NEW i \in 1 .. q.scans, ClassOf[o] = Classes[i]
               PROVE  o \in q.scanned
    BY DEF Visited
  <2>1. CASE i = p.scans + 1
    BY <1>2, <1>6, <1>7, <2>1
  <2>2. CASE i # p.scans + 1
    <3>1. i \in 1 .. p.scans
      BY <1>5, <1>6, <1>7, <2>2
    <3>2. Visited(p, o)
      BY <3>1 DEF Visited
    <3> QED
      BY <1>1, <1>4, <1>6, <1>7, <3>2 DEF Carries
  <2> QED
    BY <2>1, <2>2
<1>9. Carries(q)'
  <2>1. "create" \in alone' =>
           \A o \in Objects : Live(o)' /\ Visited(q, o)' => o \in q.scanned
    BY <1>3, <1>8 DEF Live, Visited
  <2>2. \A o \in q.scanned : rows'[o].status # "unused"
    BY <1>1, <1>2, <1>3, <1>4, <1>6, <1>7 DEF Carries, Live
  <2> QED
    BY <1>4, <1>6, <1>7, <2>1, <2>2, IdleFacts DEF Carries, Ops
<1>10. /\ lock' \in Workers \cup {None} /\ requests[w].op # None
       /\ cache' \in [Notes -> Reply \cup {None}]
       /\ \A n \in Notes : cache'[n] \in {cache[n], None}
  BY <1>1, <1>3, <1>4, IdleFacts DEF IInv, TypeOK, Ops, TakeLock
<1> QED
  BY <1>1, <1>3, <1>4, <1>6, <1>7, <1>9, <1>10, AsideStep

LEMMA RotateFlushStep ==
    ASSUME IInv, NEW w \in Workers, RotateFlush(w)
    PROVE  IInv'
<1>1. PICK p \in Request : p = requests[w] /\ Carries(p)
  BY RequestFacts
<1> DEFINE s == [p EXCEPT !.stage = "flushed"]
<1>2. /\ p.stage = "scanning" /\ p.scans = 3 /\ Turns(w, s) /\ lock' = w
      /\ cache' = [n \in Notes |-> None]
      /\ UNCHANGED <<rows, kek, contents, alone>>
  BY <1>1 DEF RotateFlush, Advance, Turns, TakeLock
<1>3. p.op = "rotate"
  BY <1>1, <1>2 DEF Carries
<1>4. /\ s \in Request /\ s.stage = "flushed" /\ s.op = "rotate" /\ s.object = p.object
      /\ s.new = p.new /\ s.scanned = p.scanned /\ s.scans = p.scans
  BY <1>3 DEF Request
<1> HIDE DEF s
<1>5. PICK q \in Request : q = s
  BY <1>4
<1>6. Carries(q)'
  BY <1>1, <1>2, <1>3, <1>4, <1>5, IdleFacts DEF Carries, Ops, Live, Visited
<1>7. /\ lock' \in Workers \cup {None} /\ requests[w].op # None
      /\ cache' \in [Notes -> Reply \cup {None}]
      /\ \A n \in Notes : cache'[n] \in {cache[n], None}
  BY <1>1, <1>2, <1>3, IdleFacts DEF Ops
<1> QED
  BY <1>1, <1>2, <1>3, <1>4, <1>5, <1>6, <1>7, AsideStep

-----------------------------------------------------------------------------
(* The commits.                                                            *)

LEMMA IdleCarries == Carries(Idle)'
<1>1. Idle.op = None /\ Idle.stage = "idle"
  BY IdleFacts DEF Idle
<1> QED
  BY <1>1, IdleFacts DEF Carries, Ops

LEMMA CreateCommitStep ==
    ASSUME IInv, NEW w \in Workers, CreateCommit(w)
    PROVE  IInv'
<1>1. PICK p \in Request : p = requests[w] /\ Carries(p)
  BY RequestFacts
<1> DEFINE r == [status |-> "live", text |-> p.text, version |-> 1, key |-> p.key]
<1>2. /\ p.op = "create" /\ Turns(w, Idle)
      /\ p.object \in Objects /\ p.text \in Texts /\ p.key \in Keys
      /\ rows[p.object] = NoRow /\ ("create" \in alone => p.key = kek)
      /\ rows' = [rows EXCEPT ![p.object] = r]
      /\ p.object \in Notes =>
            contents' = [contents EXCEPT ![p.object] = Append(contents[p.object], Payload(r))]
      /\ p.object \notin Notes => contents' = contents
      /\ UNCHANGED <<kek, lock, cache, alone>>
  BY <1>1 DEF CreateCommit, Carries, Turns
<1>3. PICK row \in Row : row = r
  <2>1. 1 \in 0 .. MaxVersion
    BY NotesAssumption
  <2> QED
    BY <1>2, <2>1 DEF Row
<1>4. /\ row.status = "live" /\ row.text = p.text /\ row.version = 1 /\ row.key = p.key
  BY <1>3
<1>16. Payload(r) = Payload(row)
  BY <1>3
<1> HIDE DEF r
<1>5. PICK reply \in Reply : reply = Payload(row)
  <2>1. 1 \in 1 .. MaxVersion
    BY NotesAssumption
  <2> QED
    BY <1>2, <1>4, <2>1 DEF Payload, Reply
<1>6. /\ rows' \in [Objects -> Row] /\ rows'[p.object] = row
      /\ \A o \in Objects \ {p.object} : rows'[o] = rows[o]
  BY <1>2, <1>3, RowFacts
<1>14. contents \in [Notes -> Seq(Reply)]
  BY DEF IInv, TypeOK
<1>15. p.object \in Notes =>
          /\ Append(contents[p.object], reply) \in Seq(Reply)
          /\ contents' = [contents EXCEPT ![p.object] = Append(contents[p.object], reply)]
  <2> SUFFICES ASSUME p.object \in Notes
               PROVE  /\ Append(contents[p.object], reply) \in Seq(Reply)
                      /\ contents' =
                            [contents EXCEPT ![p.object] = Append(contents[p.object], reply)]
    OBVIOUS
  <2>1. contents[p.object] \in Seq(Reply)
    BY <1>14
  <2> QED
    BY <1>2, <1>5, <1>16, <2>1, AppendFacts
<1>7. /\ contents' \in [Notes -> Seq(Reply)]
      /\ \A n \in Notes \ {p.object} : contents'[n] = contents[n]
      /\ p.object \in Notes => contents'[p.object] = Append(contents[p.object], reply)
  BY <1>2, <1>14, <1>15
<1>8. p.object \in Notes => /\ contents[p.object] = <<>> /\ Len(contents[p.object]) = 0
  BY <1>2, NoteFacts, IdleFacts DEF NoteInv
<1>9. p.object \in Notes => /\ Len(contents'[p.object]) = 1
                            /\ contents'[p.object][1] = reply
                            /\ contents'[p.object] # <<>>
  <2> SUFFICES ASSUME p.object \in Notes
               PROVE  /\ Len(contents'[p.object]) = 1 /\ contents'[p.object][1] = reply
                      /\ contents'[p.object] # <<>>
    OBVIOUS
  <2>1. contents[p.object] \in Seq(Reply) /\ contents[p.object] = <<>>
    BY <1>8, <1>14
  <2>2. contents'[p.object] = Append(<<>>, reply)
    BY <1>7, <2>1
  <2> QED
    BY <2>2
<1>10. Undisturbed(w)
  <2>1. ASSUME NEW o \in Objects
        PROVE  /\ rows[o].status # "unused" => rows'[o].status # "unused"
               /\ rows[o] = NoRow /\ rows'[o] # NoRow =>
                     requests[w].op = "create" /\ requests[w].object = o
               /\ Live(o)' /\ ~Live(o) => requests[w].op = "create"
    BY <1>1, <1>2, <1>4, <1>6, IdleFacts DEF Live
  <2>2. ASSUME NEW n \in Notes
        PROVE  /\ Len(contents'[n]) \in Nat /\ Len(contents[n]) <= Len(contents'[n])
               /\ \A i \in 1 .. Len(contents[n]) : contents'[n][i] = contents[n][i]
               /\ cache'[n] \in {cache[n], None} \/ requests[w].op = "get"
    <3>1. Len(contents[n]) \in Nat /\ contents[n] \in Seq(Reply)
      BY <1>14, NoteFacts
    <3>2. cache'[n] \in {cache[n], None} \/ requests[w].op = "get"
      BY <1>2, NoteFacts
    <3>3. CASE n = p.object
      BY <1>8, <1>9, <3>1, <3>2, <3>3
    <3>4. CASE n # p.object
      <4>1. contents'[n] = contents[n]
        BY <1>7, <3>4
      <4> QED
        BY <3>1, <3>2, <4>1
    <3> QED
      BY <3>3, <3>4
  <2> QED
    BY <2>1, <2>2 DEF Undisturbed
<1>11. ASSUME NEW o \in Objects PROVE RowInv(o)'
  <2>1. CASE o = p.object
    BY <1>2, <1>4, <1>6, <2>1 DEF RowInv, Live
  <2>2. CASE o # p.object
    <3>1. rows'[o] = rows[o]
      BY <1>6, <2>2
    <3> QED
      BY <1>2, <3>1, RowFacts DEF RowInv, Live
  <2> QED
    BY <2>1, <2>2
<1>12. ASSUME NEW n \in Notes PROVE NoteInv(n)' /\ CacheInv(n)'
  <2>1. CASE n = p.object
    <3>1. NoteInv(n)'
      BY <1>4, <1>5, <1>6, <1>9, <2>1, NotesAreObjects DEF NoteInv, Live
    <3>2. cache[n] = None
      BY <1>8, <2>1, NoteFacts DEF CacheInv, Committed
    <3> QED
      BY <1>2, <3>1, <3>2 DEF CacheInv
  <2>2. CASE n # p.object
    <3>1. rows'[n] = rows[n] /\ contents'[n] = contents[n] /\ cache' = cache /\ alone' = alone
      BY <1>2, <1>6, <1>7, <2>2, NotesAreObjects
    <3> QED
      BY <3>1, NoteFacts DEF NoteInv, CacheInv, Committed, Live
  <2> QED
    BY <2>1, <2>2
<1>13. /\ kek' \in Keys /\ lock' \in Workers \cup {None}
       /\ cache' \in [Notes -> Reply \cup {None}] /\ requests[w].op # None
  BY <1>1, <1>2, IdleFacts DEF IInv, TypeOK, Ops
<1> QED
  BY <1>2, <1>6, <1>7, <1>10, <1>11, <1>12, <1>13, IdleFacts, IdleCarries, GoesOnStep

LEMMA CommitUpdateStep ==
    ASSUME IInv, NEW w \in Workers, CommitUpdate(w)
    PROVE  IInv'
<1>1. PICK p \in Request : p = requests[w] /\ Carries(p)
  BY RequestFacts
<1> DEFINE o == p.object
           r == [rows[o] EXCEPT !.text = p.text, !.version = p.row.version + 1]
<1>2. /\ p.op = "update" /\ p.stage = "flushed" /\ Turns(w, Idle)
      /\ o \in Notes /\ p.text \in Texts /\ rows[o].status # "unused"
      /\ p.row.version < MaxVersion
      /\ "update" \in alone => p.row.version = rows[o].version
      /\ "get" \in alone => cache[o] = None
      /\ rows' = [rows EXCEPT ![o] = r]
      /\ contents' = [contents EXCEPT ![o] = Append(contents[o], Payload(r))]
      /\ lock' = None
      /\ UNCHANGED <<kek, cache, alone>>
  BY <1>1 DEF CommitUpdate, Carries, Turns, Updated
<1>3. /\ o \in Objects /\ rows[o] \in Row /\ contents[o] \in Seq(Reply)
      /\ p.row.version \in 0 .. MaxVersion /\ MaxVersion \in Nat
      /\ p.row.version + 1 \in 1 .. MaxVersion
  <2>1. o \in Objects
    BY <1>2, NotesAreObjects
  <2>2. p.row.version \in 0 .. MaxVersion /\ MaxVersion \in Nat
    BY NotesAssumption DEF Request, Row
  <2> QED
    BY <1>2, <2>1, <2>2, RowFacts, NoteFacts
<1>4. PICK row \in Row : row = r
  <2>1. p.text \in Texts \cup {None} /\ p.row.version + 1 \in 0 .. MaxVersion
    BY <1>2, <1>3
  <2>2. r \in Row
    BY <1>3, <2>1 DEF Row
  <2> QED
    BY <2>2
<1>5. /\ row.status = rows[o].status /\ row.text = p.text
      /\ row.version = p.row.version + 1 /\ row.key = rows[o].key
  BY <1>3, <1>4 DEF Row
<1> HIDE DEF r
<1>6. PICK reply \in Reply : reply = Payload(row)
  BY <1>2, <1>3, <1>5 DEF Payload, Reply
<1> HIDE DEF o
<1>7. /\ rows' \in [Objects -> Row] /\ rows'[o] = row
      /\ \A x \in Objects \ {o} : rows'[x] = rows[x]
  BY <1>2, <1>3, <1>4, RowFacts
<1>8. /\ contents' \in [Notes -> Seq(Reply)]
      /\ \A n \in Notes \ {o} : contents'[n] = contents[n]
      /\ contents'[o] = Append(contents[o], reply)
  BY <1>2, <1>4, <1>6, NoteFacts, AppendFacts
<1>9. /\ Len(contents[o]) \in Nat
      /\ Len(contents'[o]) = Len(contents[o]) + 1
      /\ contents'[o][Len(contents[o]) + 1] = reply
      /\ contents'[o] # <<>>
      /\ \A i \in 1 .. Len(contents[o]) : contents'[o][i] = contents[o][i]
  BY <1>3, <1>8, AppendFacts
<1>10. Undisturbed(w)
  <2>1. ASSUME NEW x \in Objects
        PROVE  /\ rows[x].status # "unused" => rows'[x].status # "unused"
               /\ rows[x] = NoRow /\ rows'[x] # NoRow =>
                     requests[w].op = "create" /\ requests[w].object = x
               /\ Live(x)' /\ ~Live(x) => requests[w].op = "create"
    BY <1>2, <1>5, <1>7, IdleFacts DEF Live, o
  <2>2. ASSUME NEW n \in Notes
        PROVE  /\ Len(contents'[n]) \in Nat /\ Len(contents[n]) <= Len(contents'[n])
               /\ \A i \in 1 .. Len(contents[n]) : contents'[n][i] = contents[n][i]
               /\ cache'[n] \in {cache[n], None} \/ requests[w].op = "get"
    <3>1. CASE n = o
      BY <1>2, <1>9, <3>1
    <3>2. CASE n # o
      <4>1. contents'[n] = contents[n]
        BY <1>8, <3>2
      <4> QED
        BY <1>2, <4>1, NoteFacts
    <3> QED
      BY <3>1, <3>2
  <2> QED
    BY <2>1, <2>2 DEF Undisturbed
<1>11. ASSUME NEW x \in Objects PROVE RowInv(x)'
  <2>1. CASE x = o
    <3>1. row.version # 0 /\ (Live(o)' <=> Live(o))
      BY <1>3, <1>5, <1>7 DEF Live
    <3> QED
      BY <1>2, <1>3, <1>5, <1>7, <2>1, <3>1, RowFacts DEF RowInv, o
  <2>2. CASE x # o
    <3>1. rows'[x] = rows[x]
      BY <1>7, <2>2
    <3> QED
      BY <1>2, <3>1, RowFacts DEF RowInv, Live
  <2> QED
    BY <2>1, <2>2
<1>12. ASSUME NEW n \in Notes PROVE NoteInv(n)' /\ CacheInv(n)'
  <2>1. CASE n = o
    <3>1. NoteInv(n)'
      <4>1. Live(o) /\ "update" \in alone => row.version = Len(contents[o]) + 1
        BY <1>2, <1>5, <2>1, NoteFacts DEF NoteInv, o
      <4>2. rows'[n].status # "unused" /\ (Live(n)' <=> Live(o))
        BY <1>2, <1>5, <1>7, <2>1 DEF Live, o
      <4> QED
        BY <1>2, <1>6, <1>7, <1>9, <2>1, <4>1, <4>2 DEF NoteInv
    <3>2. CacheInv(n)'
      <4>1. cache[n] # None => Committed(n, cache[n])'
        <5>1. PICK hit : hit = cache[n]
          OBVIOUS
        <5>2. hit # None => Committed(n, hit)'
          BY <1>10, <5>1, NoteFacts, CommittedStays DEF CacheInv
        <5> QED
          BY <1>2, <5>1, <5>2 DEF Committed
      <4>2. "get" \in alone => cache[n] = None
        BY <1>2, <2>1 DEF o
      <4> QED
        BY <1>2, <4>1, <4>2 DEF CacheInv, Committed
    <3> QED
      BY <3>1, <3>2
  <2>2. CASE n # o
    <3>1. rows'[n] = rows[n] /\ contents'[n] = contents[n] /\ cache' = cache /\ alone' = alone
      BY <1>2, <1>7, <1>8, <2>2, NotesAreObjects
    <3> QED
      BY <3>1, NoteFacts DEF NoteInv, CacheInv, Committed, Live
  <2> QED
    BY <2>1, <2>2
<1>13. /\ kek' \in Keys /\ lock' \in Workers \cup {None}
       /\ cache' \in [Notes -> Reply \cup {None}] /\ requests[w].op # None
  BY <1>1, <1>2, IdleFacts DEF IInv, TypeOK, Ops
<1> QED
  BY <1>2, <1>7, <1>8, <1>10, <1>11, <1>12, <1>13, IdleFacts, IdleCarries, GoesOnStep

LEMMA CommitDeleteStep ==
    ASSUME IInv, NEW w \in Workers, CommitDelete(w)
    PROVE  IInv'
<1>1. PICK p \in Request : p = requests[w] /\ Carries(p)
  BY RequestFacts
<1>2. /\ p.op = "delete" /\ Turns(w, Idle) /\ p.object \in Notes
      /\ rows[p.object].status # "unused"
      /\ rows' = [rows EXCEPT ![p.object].status = "deleted"] /\ lock' = None
      /\ UNCHANGED <<kek, cache, contents, alone>>
  BY <1>1 DEF CommitDelete, Carries, Turns
<1>3. p.object \in Objects /\ rows[p.object] \in Row
  BY <1>2, NotesAreObjects, RowFacts
<1>4. /\ rows' \in [Objects -> Row] /\ rows'[p.object].status = "deleted"
      /\ rows'[p.object].text = rows[p.object].text
      /\ rows'[p.object].version = rows[p.object].version
      /\ \A o \in Objects \ {p.object} : rows'[o] = rows[o]
  BY <1>2, <1>3, RowFacts DEF Row
<1>5. Undisturbed(w)
  <2>1. ASSUME NEW o \in Objects
        PROVE  /\ rows[o].status # "unused" => rows'[o].status # "unused"
               /\ rows[o] = NoRow /\ rows'[o] # NoRow =>
                     requests[w].op = "create" /\ requests[w].object = o
               /\ Live(o)' /\ ~Live(o) => requests[w].op = "create"
    BY <1>2, <1>4, IdleFacts DEF Live
  <2> QED
    BY <1>2, <2>1, NoteFacts DEF Undisturbed
<1>6. ASSUME NEW o \in Objects PROVE RowInv(o)'
  <2>1. rows'[o] = rows[o] \/ o = p.object
    BY <1>4
  <2> QED
    BY <1>2, <1>4, <2>1, RowFacts DEF RowInv, Live
<1>7. ASSUME NEW n \in Notes PROVE NoteInv(n)' /\ CacheInv(n)'
  <2>1. CASE n = p.object
    BY <1>2, <1>4, <2>1, NoteFacts DEF NoteInv, CacheInv, Committed, Live
  <2>2. CASE n # p.object
    <3>1. rows'[n] = rows[n]
      BY <1>4, <2>2, NotesAreObjects
    <3> QED
      BY <1>2, <3>1, NoteFacts DEF NoteInv, CacheInv, Committed, Live
  <2> QED
    BY <2>1, <2>2
<1>8. /\ kek' \in Keys /\ lock' \in Workers \cup {None}
      /\ contents' \in [Notes -> Seq(Reply)]
      /\ cache' \in [Notes -> Reply \cup {None}] /\ requests[w].op # None
  BY <1>1, <1>2, IdleFacts DEF IInv, TypeOK, Ops
<1> QED
  BY <1>2, <1>4, <1>5, <1>6, <1>7, <1>8, IdleFacts, IdleCarries, GoesOnStep

LEMMA CommitRotateStep ==
    ASSUME IInv, NEW w \in Workers, CommitRotate(w)
    PROVE  IInv'
<1>1. PICK p \in Request : p = requests[w] /\ Carries(p)
  BY RequestFacts
<1>2. /\ p.op = "rotate" /\ p.scans = 3 /\ p.new \in Keys /\ Turns(w, Idle)
      /\ rows' = [o \in Objects |-> IF o \in p.scanned
                                    THEN [rows[o] EXCEPT !.key = p.new] ELSE rows[o]]
      /\ kek' = p.new /\ lock' = None
      /\ UNCHANGED <<cache, contents, alone>>
  BY <1>1 DEF CommitRotate, Carries, Turns
<1>3. ASSUME NEW o \in Objects
      PROVE  /\ rows'[o] \in Row /\ rows'[o].status = rows[o].status
             /\ rows'[o].text = rows[o].text /\ rows'[o].version = rows[o].version
             /\ o \in p.scanned => rows'[o].key = p.new
             /\ o \notin p.scanned => rows'[o] = rows[o]
  BY <1>2, RowFacts DEF Row
<1>4. rows' \in [Objects -> Row]
  BY <1>2, <1>3
\* While creations are alone, the rotation has visited every live object.
<1>5. "create" \in alone => \A o \in Objects : Live(o) => o \in p.scanned
  <2> SUFFICES ASSUME "create" \in alone, NEW o \in Objects, Live(o)
               PROVE  o \in p.scanned
    OBVIOUS
  <2>1. ClassOf[o] \in {"note", "folder", "file"}
    BY NotesAssumption
  <2>2. Visited(p, o)
    BY <1>2, <2>1, ClassNames DEF Visited
  <2> QED
    BY <1>1, <1>2, <2>2 DEF Carries
<1>6. Undisturbed(w)
  <2>1. ASSUME NEW o \in Objects
        PROVE  /\ rows[o].status # "unused" => rows'[o].status # "unused"
               /\ ~(rows[o] = NoRow /\ rows'[o] # NoRow)
               /\ ~(Live(o)' /\ ~Live(o))
    <3>1. rows[o] = NoRow => o \notin p.scanned
      BY <1>1, <1>2, IdleFacts DEF Carries
    <3> QED
      BY <1>3, <3>1 DEF Live
  <2> QED
    BY <1>2, <2>1, NoteFacts DEF Undisturbed
<1>7. ASSUME NEW o \in Objects PROVE RowInv(o)'
  <2>1. rows[o].status = "unused" => o \notin p.scanned
    BY <1>1, <1>2 DEF Carries
  <2>2. "create" \in alone => (Live(o)' => rows'[o].key = kek')
    BY <1>2, <1>3, <1>5 DEF Live
  <2> QED
    BY <1>2, <1>3, <2>1, <2>2, RowFacts DEF RowInv
<1>8. ASSUME NEW n \in Notes PROVE NoteInv(n)' /\ CacheInv(n)'
  <2>1. Payload(rows[n])' = Payload(rows[n]) /\ (Live(n)' <=> Live(n))
    BY <1>3, NotesAreObjects DEF Payload, Live
  <2>2. rows'[n].status = rows[n].status /\ rows'[n].version = rows[n].version
    BY <1>3, NotesAreObjects
  <2> QED
    BY <1>2, <2>1, <2>2, NoteFacts DEF NoteInv, CacheInv, Committed
<1>9. /\ kek' \in Keys /\ lock' \in Workers \cup {None}
      /\ contents' \in [Notes -> Seq(Reply)]
      /\ cache' \in [Notes -> Reply \cup {None}] /\ requests[w].op # None
  BY <1>1, <1>2, IdleFacts DEF IInv, TypeOK, Ops
<1> QED
  BY <1>2, <1>4, <1>6, <1>7, <1>8, <1>9, IdleFacts, IdleCarries, GoesOnStep

-----------------------------------------------------------------------------
(* The environment, and the invariance.                                    *)

LEMMA ExpireStep ==
    ASSUME IInv, NEW n \in Notes, Expire(n)
    PROVE  IInv'
<1>1. /\ cache' = [cache EXCEPT ![n] = None]
      /\ UNCHANGED <<rows, kek, lock, requests, contents, alone>>
  BY DEF Expire
<1>2. /\ cache' \in [Notes -> Reply \cup {None}]
      /\ \A m \in Notes : cache'[m] \in {cache[m], None}
  BY <1>1 DEF IInv, TypeOK
<1>3. TypeOK' /\ CreationsDiffer' /\ AloneIsAlone'
  BY <1>1, <1>2 DEF IInv, TypeOK, CreationsDiffer, AloneIsAlone
<1>4. \A o \in Objects : RowInv(o)'
  BY <1>1 DEF IInv, RowInv, Live
<1>5. \A m \in Notes : NoteInv(m)' /\ CacheInv(m)'
  BY <1>1, <1>2 DEF IInv, NoteInv, CacheInv, Live, Committed
<1>6. ASSUME NEW v \in Workers PROVE Carries(requests[v])'
  <2>1. PICK p \in Request : p = requests[v] /\ Carries(p)
    BY RequestFacts
  <2>2. (p.op = "update" /\ "get" \in alone /\ p.stage = "flushed") => cache'[p.object] = None
    BY <1>2, <2>1 DEF Carries
  <2>3. Carries(p)'
    BY <1>1, <2>1, <2>2 DEF Carries, Committed, Live, Visited
  <2> QED
    BY <1>1, <2>1, <2>3 DEF Carries
<1> QED
  BY <1>3, <1>4, <1>5, <1>6 DEF IInv

LEMMA RestartStep == ASSUME IInv, Restart PROVE IInv'
<1>1. /\ requests' = [w \in Workers |-> Idle] /\ cache' = [n \in Notes |-> None]
      /\ lock' = None /\ UNCHANGED <<rows, kek, contents, alone>>
  BY DEF Restart
<1>2. \A w \in Workers : requests'[w] = Idle
  BY <1>1
<1>3. TypeOK' /\ CreationsDiffer' /\ AloneIsAlone'
  BY <1>1, <1>2, IdleFacts DEF IInv, TypeOK, CreationsDiffer, AloneIsAlone, Ops
<1>4. \A o \in Objects : RowInv(o)'
  BY <1>1 DEF IInv, RowInv, Live
<1>5. \A n \in Notes : NoteInv(n)' /\ CacheInv(n)'
  BY <1>1 DEF IInv, NoteInv, CacheInv, Live, Committed
<1>6. ASSUME NEW v \in Workers PROVE Carries(requests[v])'
  BY <1>2, IdleCarries DEF Carries
<1> QED
  BY <1>3, <1>4, <1>5, <1>6 DEF IInv

LEMMA StutterStep == ASSUME IInv, UNCHANGED vars PROVE IInv'
<1>1. TypeOK' /\ CreationsDiffer' /\ AloneIsAlone'
  BY DEF vars, IInv, TypeOK, CreationsDiffer, AloneIsAlone
<1>2. \A o \in Objects : RowInv(o)'
  BY DEF vars, IInv, RowInv, Live
<1>3. \A n \in Notes : NoteInv(n)' /\ CacheInv(n)'
  BY DEF vars, IInv, NoteInv, CacheInv, Live, Committed
<1>4. ASSUME NEW v \in Workers PROVE Carries(requests[v])'
  BY DEF vars, IInv, Carries, Committed, Live, Visited
<1> QED
  BY <1>1, <1>2, <1>3, <1>4 DEF IInv

LEMMA InitIInv == Init => IInv
<1> SUFFICES ASSUME Init PROVE IInv
  OBVIOUS
<1>1. \A w \in Workers : requests[w] = Idle
  BY DEF Init
<1>2. TypeOK
  BY IdleFacts DEF Init, TypeOK
<1>3. CreationsDiffer /\ AloneIsAlone
  BY <1>1, IdleFacts DEF CreationsDiffer, AloneIsAlone, Ops
<1>4. \A o \in Objects : rows[o] = NoRow
  BY DEF Init
<1>5. \A o \in Objects : RowInv(o)
  BY <1>4, IdleFacts DEF RowInv, Live
<1>6. ASSUME NEW n \in Notes PROVE NoteInv(n) /\ CacheInv(n)
  BY <1>4, IdleFacts, NotesAreObjects DEF Init, NoteInv, CacheInv, Live
<1> QED
  BY <1>1, <1>2, <1>3, <1>5, <1>6, IdleFacts DEF IInv

LEMMA StepIInv ==
    ASSUME IInv, NEW w \in Workers, Step(w)
    PROVE  IInv'
<1>1. CASE \E o \in Objects, text \in Texts : CreateRead(w, o, text)
  BY <1>1, CreateReadStep
<1>2. CASE \E n \in Notes : GetRead(w, n)
  BY <1>2, GetReadStep
<1>3. CASE \E n \in Notes, text \in Texts : UpdateRead(w, n, text)
  BY <1>3, UpdateReadStep
<1>4. CASE \E n \in Notes : DeleteRead(w, n)
  BY <1>4, DeleteReadStep
<1>5. CASE \E new \in Keys : RotateRead(w, new)
  BY <1>5, RotateReadStep
<1>6. CASE CreateCommit(w)
  BY <1>6, CreateCommitStep
<1>7. CASE GetLookup(w) \/ GetFill(w) \/ Answer(w) \/ Abort(w)
  BY <1>7, GetLookupStep, GetFillStep, AnswerStep, AbortStep
<1>8. CASE UpdateKey(w) \/ UpdateFlush(w) \/ CommitUpdate(w)
  BY <1>8, UpdateKeyStep, UpdateFlushStep, CommitUpdateStep
<1>9. CASE DeleteFlush(w) \/ CommitDelete(w)
  BY <1>9, DeleteFlushStep, CommitDeleteStep
<1>10. CASE RotateScan(w) \/ RotateFlush(w) \/ CommitRotate(w)
  BY <1>10, RotateScanStep, RotateFlushStep, CommitRotateStep
<1> QED
  BY <1>1, <1>2, <1>3, <1>4, <1>5, <1>6, <1>7, <1>8, <1>9, <1>10 DEF Step

LEMMA NextIInv == IInv /\ [Next]_vars => IInv'
<1> SUFFICES ASSUME IInv, [Next]_vars PROVE IInv'
  OBVIOUS
<1>1. CASE \E w \in Workers : Step(w)
  BY <1>1, StepIInv
<1>2. CASE \E n \in Notes : Expire(n)
  BY <1>2, ExpireStep
<1>3. CASE Restart
  BY <1>3, RestartStep
<1>4. CASE UNCHANGED vars
  BY <1>4, StutterStep
<1> QED
  BY <1>1, <1>2, <1>3, <1>4 DEF Next

LEMMA Invariance == Spec => []IInv
  BY InitIInv, NextIInv, PTL DEF Spec

-----------------------------------------------------------------------------
(* The theorems.                                                           *)

\* As long as updates overlap nothing, the version of a live note counts the
\* contents committed to it, whatever gets, deletions, rotations and rollbacks
\* do beside each other (notes.py:160, note_service.py:76).
THEOREM VersionsTellContentsApart == Spec => []NotesAreConsistent
<1>1. IInv => NotesAreConsistent
  BY NotesAreObjects DEF IInv, NotesAreConsistent, VersionCountsUpdates, NoteInv
<1> QED
  BY <1>1, Invariance, PTL

\* As long as nothing is created while other requests run, every live note,
\* folder and file is wrapped with the tenant's current key, with any number
\* of rotations, updates and deletions overlapping.
THEOREM RotationsLeaveNothingBehind == Spec => []RotationKeepsObjectsReadable
<1>1. IInv => RotationKeepsObjectsReadable
  BY DEF IInv, RotationKeepsObjectsReadable, LiveObjectsReadable, RowInv
<1> QED
  BY <1>1, Invariance, PTL

\* As long as no request runs beside a read, the cache answers with nothing
\* older than what was committed when the read began.
THEOREM LoneReadsAreCurrent == Spec => []AnswersAreCurrent
<1>1. IInv => AnswersAreCurrent
  BY DEF IInv, AnswersAreCurrent, Carries
<1> QED
  BY <1>1, Invariance, PTL

-----------------------------------------------------------------------------
(* The refinement of NoteStore.                                            *)

StoreReads == [w \in Workers |-> Reading(w)]
StoreDeleted == {n \in Notes : rows[n].status = "deleted"}

\* A step that commits no content and deletes no note is a step of the store
\* if what it does to the read of its worker is.
LEMMA ReaderStep ==
    ASSUME IInv, NEW w \in Workers,
           contents' = contents, StoreDeleted' = StoreDeleted,
           \A v \in Workers \ {w} : requests'[v] = requests[v],
           \/ Reading(w)' = Reading(w)
           \/ Reading(w)' = Store!NotReading
           \/ /\ Reading(w) = Store!NotReading
              /\ \E n \in Notes :
                    /\ Live(n)
                    /\ Reading(w)' = [note |-> n, since |-> Len(contents[n]), answer |-> None]
           \/ /\ Reading(w).note # None /\ Reading(w).answer = None
              /\ \E i \in 1 .. Len(contents[Reading(w).note]) :
                    Reading(w)' = [Reading(w) EXCEPT
                                      !.answer = contents[Reading(w).note][i]]
    PROVE  [Store!Next]_(Store!storeVars)
<1>1. \A v \in Workers \ {w} : Reading(v)' = Reading(v)
  BY DEF Reading
<1>2. StoreReads' = [StoreReads EXCEPT ![w] = Reading(w)']
  BY <1>1 DEF StoreReads
<1>3. StoreReads[w] = Reading(w)
  BY DEF StoreReads
<1>4. CASE Reading(w)' = Reading(w)
  <2>1. StoreReads' = StoreReads
    BY <1>2, <1>4 DEF StoreReads
  <2> QED
    BY <2>1 DEF Store!storeVars, StoreReads, StoreDeleted
<1>5. CASE Reading(w)' = Store!NotReading /\ Reading(w)' # Reading(w)
  <2>1. Store!End(w)
    BY <1>2, <1>3, <1>5 DEF Store!End, StoreReads, StoreDeleted
  <2> QED
    BY <2>1 DEF Store!Next
<1>6. CASE /\ Reading(w) = Store!NotReading
           /\ \E n \in Notes :
                 /\ Live(n)
                 /\ Reading(w)' = [note |-> n, since |-> Len(contents[n]), answer |-> None]
  <2>1. PICK n \in Notes :
           /\ Live(n)
           /\ Reading(w)' = [note |-> n, since |-> Len(contents[n]), answer |-> None]
    BY <1>6
  <2>2. contents[n] # <<>> /\ n \notin StoreDeleted
    BY <2>1, NoteFacts DEF NoteInv, Live, StoreDeleted
  <2>3. Store!Begin(w, n)
    BY <1>2, <1>3, <1>6, <2>1, <2>2 DEF Store!Begin, StoreReads, StoreDeleted
  <2> QED
    BY <2>3 DEF Store!Next
<1>7. CASE /\ Reading(w).note # None /\ Reading(w).answer = None
           /\ \E i \in 1 .. Len(contents[Reading(w).note]) :
                 Reading(w)' = [Reading(w) EXCEPT
                                   !.answer = contents[Reading(w).note][i]]
  <2>1. Store!Return(w)
    BY <1>2, <1>3, <1>7 DEF Store!Return, StoreReads, StoreDeleted
  <2> QED
    BY <2>1 DEF Store!Next
<1> QED
  BY <1>4, <1>5, <1>6, <1>7

\* A commit changes no read.
LEMMA WriterStep ==
    ASSUME IInv, NEW w \in Workers, requests[w].op \notin {None, "get"}, Turns(w, Idle)
    PROVE  StoreReads' = StoreReads
<1>1. \A v \in Workers \ {w} : requests'[v] = requests[v]
  BY TurnFacts, IdleFacts
<1>2. requests'[w].op # "get"
  BY TurnFacts, IdleFacts DEF Ops
<1>3. \A v \in Workers : Reading(v)' = Reading(v)
  BY <1>1, <1>2 DEF Reading
<1> QED
  BY <1>3 DEF StoreReads

\* An update of a live note and the creation of a note write a content.
LEMMA WriteRefines ==
    ASSUME IInv, NEW n \in Notes, NEW reply \in Reply,
           contents' = [contents EXCEPT ![n] = Append(contents[n], reply)],
           StoreDeleted' = StoreDeleted, StoreReads' = StoreReads
    PROVE  Store!Next
<1>1. contents \in [Notes -> Seq(Reply)] /\ contents[n] \in Seq(Reply)
  BY NoteFacts
<1>2. contents'[n] = Append(contents[n], reply)
  BY <1>1
<1>3. contents'[n] # <<>> /\ contents'[n][Len(contents'[n])] = reply
  BY <1>1, <1>2, AppendFacts
<1>4. Store!Write(n)
  BY <1>3 DEF Store!Write, StoreReads, StoreDeleted
<1> QED
  BY <1>4 DEF Store!Next

LEMMA CreateRefines ==
    ASSUME IInv, NEW w \in Workers, CreateCommit(w)
    PROVE  [Store!Next]_(Store!storeVars)
<1>1. PICK p \in Request : p = requests[w] /\ Carries(p)
  BY RequestFacts
<1> DEFINE r == [status |-> "live", text |-> p.text, version |-> 1, key |-> p.key]
<1>2. /\ p.op = "create" /\ Turns(w, Idle) /\ p.object \in Objects /\ p.text \in Texts
      /\ rows[p.object] = NoRow /\ rows' = [rows EXCEPT ![p.object] = r]
      /\ p.object \in Notes =>
            contents' = [contents EXCEPT ![p.object] = Append(contents[p.object], Payload(r))]
      /\ p.object \notin Notes => contents' = contents
  BY <1>1 DEF CreateCommit, Carries, Turns
<1>3. r.status = "live" /\ Payload(r) \in Reply
  <2>1. 1 \in 1 .. MaxVersion
    BY NotesAssumption
  <2> QED
    BY <1>2, <2>1 DEF Payload, Reply
<1> HIDE DEF r
<1>4. rows'[p.object] = r /\ \A o \in Objects \ {p.object} : rows'[o] = rows[o]
  BY <1>2, RowFacts
<1>5. StoreDeleted' = StoreDeleted
  BY <1>2, <1>3, <1>4, IdleFacts, NotesAreObjects DEF StoreDeleted
<1>6. requests[w].op \notin {None, "get"}
  BY <1>1, <1>2, IdleFacts DEF Ops
<1>7. StoreReads' = StoreReads
  BY <1>2, <1>6, WriterStep
<1>8. CASE p.object \in Notes
  <2>1. PICK reply \in Reply : reply = Payload(r)
    BY <1>3
  <2>2. contents' = [contents EXCEPT ![p.object] = Append(contents[p.object], reply)]
    BY <1>2, <1>8, <2>1
  <2> QED
    BY <1>5, <1>7, <1>8, <2>2, WriteRefines
<1>9. CASE p.object \notin Notes
  BY <1>2, <1>5, <1>7, <1>9 DEF Store!storeVars, StoreReads, StoreDeleted
<1> QED
  BY <1>8, <1>9

LEMMA UpdateRefines ==
    ASSUME IInv, NEW w \in Workers, CommitUpdate(w)
    PROVE  [Store!Next]_(Store!storeVars)
<1>1. PICK p \in Request : p = requests[w] /\ Carries(p)
  BY RequestFacts
<1> DEFINE r == Updated(rows[p.object], p.row, p.text)
<1>2. /\ p.op = "update" /\ Turns(w, Idle) /\ p.object \in Notes /\ p.text \in Texts
      /\ p.row.version < MaxVersion /\ p.row.version \in 0 .. MaxVersion
      /\ rows' = [rows EXCEPT ![p.object] = r]
      /\ contents' = [contents EXCEPT ![p.object] = Append(contents[p.object], Payload(r))]
  BY <1>1 DEF CommitUpdate, Carries, Turns, Request, Row
<1>3. p.object \in Objects /\ rows[p.object] \in Row
  BY <1>2, NotesAreObjects, RowFacts
<1>4. r.status = rows[p.object].status /\ Payload(r) \in Reply
  <2>1. p.row.version + 1 \in 1 .. MaxVersion
    BY <1>2, NotesAssumption
  <2>2. r.text = p.text /\ r.version = p.row.version + 1 /\ r.status = rows[p.object].status
    BY <1>3 DEF Updated, Row
  <2> QED
    BY <1>2, <2>1, <2>2 DEF Payload, Reply
<1> HIDE DEF r
<1>5. rows'[p.object] = r /\ \A o \in Objects \ {p.object} : rows'[o] = rows[o]
  BY <1>2, <1>3, RowFacts
<1>6. StoreDeleted' = StoreDeleted
  <2>1. \A n \in Notes : rows'[n].status = rows[n].status
    BY <1>4, <1>5, NotesAreObjects
  <2> QED
    BY <2>1 DEF StoreDeleted
<1>7. requests[w].op \notin {None, "get"}
  BY <1>1, <1>2, IdleFacts DEF Ops
<1>8. StoreReads' = StoreReads
  BY <1>2, <1>7, WriterStep
<1>9. PICK reply \in Reply : reply = Payload(r)
  BY <1>4
<1>10. contents' = [contents EXCEPT ![p.object] = Append(contents[p.object], reply)]
  BY <1>2, <1>9
<1> QED
  BY <1>2, <1>6, <1>8, <1>10, WriteRefines

LEMMA DeleteRefines ==
    ASSUME IInv, NEW w \in Workers, CommitDelete(w)
    PROVE  [Store!Next]_(Store!storeVars)
<1>1. PICK p \in Request : p = requests[w] /\ Carries(p)
  BY RequestFacts
<1>2. /\ p.op = "delete" /\ Turns(w, Idle) /\ p.object \in Notes
      /\ rows[p.object].status # "unused"
      /\ rows' = [rows EXCEPT ![p.object].status = "deleted"] /\ contents' = contents
  BY <1>1 DEF CommitDelete, Carries, Turns
<1>3. p.object \in Objects /\ rows[p.object] \in Row
  BY <1>2, NotesAreObjects, RowFacts
<1>4. rows'[p.object].status = "deleted" /\ \A o \in Objects \ {p.object} : rows'[o] = rows[o]
  BY <1>2, <1>3, RowFacts DEF Row
<1>5. StoreDeleted' = StoreDeleted \cup {p.object}
  BY <1>2, <1>4, NotesAreObjects DEF StoreDeleted
<1>6. requests[w].op \notin {None, "get"}
  BY <1>1, <1>2, IdleFacts DEF Ops
<1>7. StoreReads' = StoreReads
  BY <1>2, <1>6, WriterStep
<1>8. contents[p.object] # <<>>
  BY <1>2, NoteFacts DEF NoteInv
<1>9. Store!Delete(p.object)
  BY <1>2, <1>5, <1>7, <1>8 DEF Store!Delete, StoreReads, StoreDeleted
<1> QED
  BY <1>2, <1>9 DEF Store!Next

LEMMA RotateRefines ==
    ASSUME IInv, NEW w \in Workers, CommitRotate(w)
    PROVE  [Store!Next]_(Store!storeVars)
<1>1. PICK p \in Request : p = requests[w]
  BY RequestFacts
<1>2. /\ p.op = "rotate" /\ Turns(w, Idle) /\ contents' = contents
      /\ rows' = [o \in Objects |-> IF o \in p.scanned
                                    THEN [rows[o] EXCEPT !.key = p.new] ELSE rows[o]]
  BY <1>1 DEF CommitRotate, Turns
<1>3. \A n \in Notes : rows'[n].status = rows[n].status
  BY <1>2, NotesAreObjects, RowFacts DEF Row
<1>4. StoreDeleted' = StoreDeleted
  BY <1>3 DEF StoreDeleted
<1>5. requests[w].op \notin {None, "get"}
  BY <1>1, <1>2, IdleFacts DEF Ops
<1> QED
  BY <1>2, <1>4, <1>5, WriterStep DEF Store!storeVars, StoreReads, StoreDeleted

\* The steps that change no row begin, answer or end the read of a get, and
\* change nothing of the store for the other operations.
LEMMA GetRefines ==
    ASSUME IInv, NEW w \in Workers,
           (\E n \in Notes : GetRead(w, n)) \/ GetLookup(w) \/ GetFill(w)
    PROVE  [Store!Next]_(Store!storeVars)
<1>1. PICK p \in Request : p = requests[w] /\ Carries(p)
  BY RequestFacts
<1>2. /\ contents' = contents /\ StoreDeleted' = StoreDeleted
      /\ \A v \in Workers \ {w} : requests'[v] = requests[v]
  BY RequestFacts DEF GetRead, Load, Begin, GetLookup, GetFill, StoreDeleted
<1>3. p.op = "get" => /\ p.object \in Notes /\ p.object # None
                      /\ Reading(w) = [note |-> p.object, since |-> p.since, answer |-> p.reply]
  BY <1>1, NotesAreObjects, NotesAssumption DEF Carries, Reading
<1>4. CASE \E n \in Notes : GetRead(w, n)
  <2>1. PICK n \in Notes : GetRead(w, n)
    BY <1>4
  <2> DEFINE s == [Idle EXCEPT !.stage = "loaded", !.op = "get", !.object = n,
                               !.text = None, !.row = rows[n], !.since = Len(contents[n])]
  <2>2. Live(n) /\ requests[w] = Idle /\ requests' = [requests EXCEPT ![w] = s]
    BY <2>1 DEF GetRead, Found, Load, Begin
  <2>3. s.op = "get" /\ s.object = n /\ s.since = Len(contents[n]) /\ s.reply = None
    BY DEF Idle
  <2> HIDE DEF s
  <2>4. requests'[w] = s
    BY <2>2, RequestFacts
  <2>5. Reading(w)' = [note |-> n, since |-> Len(contents[n]), answer |-> None]
    BY <1>2, <2>3, <2>4 DEF Reading
  <2>6. Reading(w) = Store!NotReading
    BY <2>2, IdleFacts DEF Reading, Store!NotReading, Ops
  <2> QED
    BY <1>2, <2>2, <2>5, <2>6, ReaderStep
<1>5. CASE GetLookup(w)
  <2>1. p.op = "get" /\ p.stage = "loaded" /\ p.reply = None /\ p.object \in Notes
    BY <1>1, <1>5 DEF GetLookup, Carries
  <2>2. PICK hit \in Reply \cup {None} : hit = cache[p.object]
    BY <2>1 DEF IInv, TypeOK
  <2>3. /\ requests'[w].op = "get" /\ requests'[w].object = p.object
        /\ requests'[w].since = p.since /\ requests'[w].reply = hit
    BY <1>1, <1>5, <2>1, <2>2, RequestFacts DEF GetLookup, Request
  <2>4. Reading(w)' = [note |-> p.object, since |-> p.since, answer |-> hit]
    BY <2>3 DEF Reading
  <2>5. CASE hit = None
    BY <1>2, <1>3, <2>1, <2>4, <2>5, ReaderStep
  <2>6. CASE hit # None
    <3>1. PICK i \in 1 .. Len(contents[p.object]) : contents[p.object][i] = hit
      BY <2>1, <2>2, <2>6, NoteFacts DEF CacheInv, Committed
    <3>2. Reading(w)' = [Reading(w) EXCEPT !.answer = contents[p.object][i]]
      BY <1>3, <2>1, <2>4, <3>1
    <3> QED
      BY <1>2, <1>3, <2>1, <3>2, ReaderStep
  <2> QED
    BY <2>5, <2>6
<1>6. CASE GetFill(w)
  <2>1. /\ p.op = "get" /\ p.stage = "missed" /\ p.reply = None /\ p.object \in Notes
        /\ Committed(p.object, Payload(p.row))
    BY <1>1, <1>6 DEF GetFill, Carries
  <2>3. /\ requests'[w].op = "get" /\ requests'[w].object = p.object
        /\ requests'[w].since = p.since /\ requests'[w].reply = Payload(p.row)
    BY <1>1, <1>6, <2>1, RequestFacts DEF GetFill, Request
  <2>4. Reading(w)' = [note |-> p.object, since |-> p.since, answer |-> Payload(p.row)]
    BY <2>3 DEF Reading
  <2>5. PICK i \in 1 .. Len(contents[p.object]) : contents[p.object][i] = Payload(p.row)
    BY <2>1 DEF Committed
  <2>6. Reading(w)' = [Reading(w) EXCEPT !.answer = contents[p.object][i]]
    BY <1>3, <2>1, <2>4, <2>5
  <2> QED
    BY <1>2, <1>3, <2>1, <2>6, ReaderStep
<1> QED
  BY <1>4, <1>5, <1>6

LEMMA AsideRefines ==
    ASSUME IInv, NEW w \in Workers,
           \/ \E o \in Objects, text \in Texts : CreateRead(w, o, text)
           \/ \E n \in Notes, text \in Texts : UpdateRead(w, n, text)
           \/ \E n \in Notes : DeleteRead(w, n)
           \/ \E new \in Keys : RotateRead(w, new)
           \/ UpdateKey(w) \/ UpdateFlush(w) \/ DeleteFlush(w)
           \/ RotateScan(w) \/ RotateFlush(w) \/ Answer(w) \/ Abort(w)
    PROVE  [Store!Next]_(Store!storeVars)
<1>1. PICK p \in Request : p = requests[w] /\ Carries(p)
  BY RequestFacts
<1>2. /\ contents' = contents /\ StoreDeleted' = StoreDeleted
      /\ \A v \in Workers \ {w} : requests'[v] = requests[v]
  BY RequestFacts
  DEF CreateRead, UpdateRead, DeleteRead, RotateRead, UpdateKey, UpdateFlush, DeleteFlush,
      RotateScan, RotateFlush, Answer, Abort, Load, Begin, Advance, StoreDeleted
<1>3. requests'[w].op # "get" \/ Reading(w)' = Reading(w)
  <2>1. CASE \E o \in Objects, text \in Texts : CreateRead(w, o, text)
    <3>1. PICK o \in Objects, text \in Texts : CreateRead(w, o, text)
      BY <2>1
    <3> DEFINE s == [Idle EXCEPT !.stage = "checked", !.op = "create", !.object = o,
                                 !.text = text, !.key = kek]
    <3>2. requests' = [requests EXCEPT ![w] = s]
      BY <3>1 DEF CreateRead, Begin
    <3>3. s.op = "create"
      BY DEF Idle
    <3> HIDE DEF s
    <3> QED
      BY <3>2, <3>3, RequestFacts
  <2>2. CASE \/ \E n \in Notes, text \in Texts : UpdateRead(w, n, text)
             \/ \E n \in Notes : DeleteRead(w, n)
    <3>1. PICK op \in {"update", "delete"}, n \in Notes, text \in Texts \cup {None},
               stage \in {"loaded", "checked"} : Load(w, op, n, text, stage)
      BY <2>2 DEF UpdateRead, DeleteRead
    <3> DEFINE s == [Idle EXCEPT !.stage = stage, !.op = op, !.object = n, !.text = text,
                                 !.row = rows[n], !.since = Len(contents[n])]
    <3>2. requests' = [requests EXCEPT ![w] = s]
      BY <3>1 DEF Load, Begin
    <3>3. s.op = op
      BY DEF Idle
    <3> HIDE DEF s
    <3> QED
      BY <3>2, <3>3, RequestFacts
  <2>3. CASE \E new \in Keys : RotateRead(w, new)
    <3>1. PICK new \in Keys : RotateRead(w, new)
      BY <2>3
    <3> DEFINE s == [Idle EXCEPT !.stage = "scanning", !.op = "rotate",
                                 !.key = kek, !.new = new]
    <3>2. requests' = [requests EXCEPT ![w] = s]
      BY <3>1 DEF RotateRead, Begin
    <3>3. s.op = "rotate"
      BY DEF Idle
    <3> HIDE DEF s
    <3> QED
      BY <3>2, <3>3, RequestFacts
  <2>4. CASE UpdateKey(w) \/ UpdateFlush(w) \/ DeleteFlush(w)
    BY <1>1, <2>4, RequestFacts DEF UpdateKey, UpdateFlush, DeleteFlush, Advance, Request
  <2>5. CASE RotateScan(w) \/ RotateFlush(w)
    <3>1. p.op = "rotate"
      BY <1>1, <2>5 DEF RotateScan, RotateFlush, Carries
    <3>2. CASE RotateScan(w)
      <4> DEFINE found == {o \in Objects : ClassOf[o] = Classes[p.scans + 1] /\ Live(o)}
                 s == [p EXCEPT !.scanned = p.scanned \cup found, !.scans = p.scans + 1]
      <4>1. requests' = [requests EXCEPT ![w] = s]
        BY <1>1, <3>2 DEF RotateScan
      <4>2. s.op = "rotate"
        BY <3>1 DEF Request
      <4> HIDE DEF s
      <4> QED
        BY <4>1, <4>2, RequestFacts
    <3>3. CASE RotateFlush(w)
      <4> DEFINE s == [p EXCEPT !.stage = "flushed"]
      <4>1. requests' = [requests EXCEPT ![w] = s]
        BY <1>1, <3>3 DEF RotateFlush, Advance
      <4>2. s.op = "rotate"
        BY <3>1 DEF Request
      <4> HIDE DEF s
      <4> QED
        BY <4>1, <4>2, RequestFacts
    <3> QED
      BY <2>5, <3>2, <3>3
  <2>6. CASE Answer(w) \/ Abort(w)
    BY <2>6, RequestFacts, IdleFacts DEF Answer, Abort, Ops
  <2> QED
    BY <2>1, <2>2, <2>3, <2>4, <2>5, <2>6
<1>4. Reading(w)' = Store!NotReading \/ Reading(w)' = Reading(w)
  BY <1>3 DEF Reading, Store!NotReading
<1> QED
  BY <1>2, <1>4, ReaderStep

LEMMA StepRefines ==
    ASSUME IInv, NEW w \in Workers, Step(w)
    PROVE  [Store!Next]_(Store!storeVars)
<1>1. CASE (\E n \in Notes : GetRead(w, n)) \/ GetLookup(w) \/ GetFill(w)
  BY <1>1, GetRefines
<1>2. CASE CreateCommit(w) \/ CommitUpdate(w) \/ CommitDelete(w) \/ CommitRotate(w)
  BY <1>2, CreateRefines, UpdateRefines, DeleteRefines, RotateRefines
<1>3. CASE \/ \E o \in Objects, text \in Texts : CreateRead(w, o, text)
           \/ \E n \in Notes, text \in Texts : UpdateRead(w, n, text)
           \/ \E n \in Notes : DeleteRead(w, n)
           \/ \E new \in Keys : RotateRead(w, new)
           \/ UpdateKey(w) \/ UpdateFlush(w) \/ DeleteFlush(w)
           \/ RotateScan(w) \/ RotateFlush(w) \/ Answer(w) \/ Abort(w)
  BY <1>3, AsideRefines
<1> QED
  BY <1>1, <1>2, <1>3 DEF Step

LEMMA EnvironmentRefines ==
    ASSUME IInv, (\E n \in Notes : Expire(n)) \/ Restart \/ UNCHANGED vars
    PROVE  [Store!Next]_(Store!storeVars)
<1>1. CASE Restart
  <2>1. \A w \in Workers : Reading(w)' = Store!NotReading
    BY <1>1, IdleFacts DEF Restart, Reading, Store!NotReading, Ops
  <2>2. Store!EndAll
    BY <1>1, <2>1 DEF Restart, Store!EndAll
  <2> QED
    BY <2>2 DEF Store!Next
<1>2. CASE ~ Restart
  <2>1. UNCHANGED <<rows, contents, requests>>
    BY <1>2 DEF Expire, vars
  <2> QED
    BY <2>1 DEF Store!storeVars, Reading
<1> QED
  BY <1>1, <1>2

\* The server implements NoteStore: a read is answered, from the cache or not,
\* with a text and a version some commit gave the note together, no read begins
\* on a deleted note, and no rollback, rotation, late update or restart brings a
\* note back: an update that loaded the note before commits to the deleted row.
THEOREM ServerImplementsNoteStore == Spec => ReadsAreCommitted
<1>1. Init => Store!Init
  <2> SUFFICES ASSUME Init PROVE Store!Init
    OBVIOUS
  <2>1. \A w \in Workers : Reading(w) = Store!NotReading
    BY IdleFacts DEF Init, Reading, Store!NotReading, Ops
  <2>2. \A n \in Notes : rows[n].status # "deleted"
    BY IdleFacts, NotesAreObjects DEF Init
  <2>3. contents = [n \in Notes |-> <<>>]
    BY DEF Init
  <2> QED
    BY <2>1, <2>2, <2>3 DEF Store!Init
<1>2. IInv /\ [Next]_vars => [Store!Next]_(Store!storeVars)
  BY StepRefines, EnvironmentRefines DEF Next
<1> QED
  BY <1>1, <1>2, Invariance, PTL DEF Spec, ReadsAreCommitted, Store!Spec

=============================================================================
