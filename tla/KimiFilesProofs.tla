--------------------------- MODULE KimiFilesProofs ---------------------------
(***************************************************************************)
(* Theorems of KimiFiles, for every set of files, users, tenants, tokens   *)
(* and requests, every bound on faults, and every choice of the operations *)
(* that run alone.                                                         *)
(***************************************************************************)
EXTENDS KimiFiles, FiniteSetTheorems, TLAPS

-----------------------------------------------------------------------------
(* The inductive invariant.                                                *)

\* The stages in which a request holds the write lock.
Holds(q) ==
    \/ q.op \in {"upload", "eraseUser"} /\ q.stage = "flushed"
    \/ q.op \in {"delete", "eraseOrg"} /\ q.stage = "unlinking"
    \/ q.op = "purge" /\ q.stage = "unlinking" /\ q.rows # {}

\* The blobs that q may unlink.
MayUnlink(q, f) ==
    \/ q.op = "delete" /\ q.file = f
    \/ q.op = "eraseUser" /\ q.user = OwnerOf[f]
    \/ q.op = "eraseOrg" /\ OrgOf[q.user] = OrgOf[OwnerOf[f]]
    \/ q.op = "purge" /\ rows[f].status # "live"

\* A row that a purge has deleted in its transaction.
Purged(f) ==
    \/ rows[f].status = "gone"
    \/ /\ rows[f].status = "deleted" /\ rows[f].age >= 1
       /\ "changePlan" \in alone => rows[f].age >= Window(OrgOf[OwnerOf[f]])

\* What request q of w has checked, collected and done.
Carries(w, q) ==
    /\ q.op = None => q = Idle
    /\ q.op \notin {None, "purge"} => q.user \in Users
    /\ q.op \in {"upload", "delete", "token", "download"} => q.file \in Files
    /\ q.op \in {"token", "download"} => q.token \in Tokens
    /\ q.op = "upload" =>
          /\ rows[q.file].status = "unused"
          /\ q.stage \in {"written", "flushed"} => q.file \in blobs
    /\ q.op = "delete" =>
          /\ rows[q.file].status # "unused"
          /\ rows[q.file].status = "deleted" => rows[q.file].age = 0
          /\ q.stage = "unlinking" =>
                Stored(q.file) /\ (q.file \in q.paths \/ q.file \notin blobs)
    /\ q.op = "token" => tokens[q.token].status = "unused"
    /\ q.op = "download" => tokens[q.token].status # "unused"
    /\ \A f \in q.paths : MayUnlink(q, f)
    /\ \A f \in q.paths \cup q.rows : rows[f].status # "unused"
    /\ q.op = "purge" => \A f \in q.rows : Purged(f)
    /\ (q.op = "eraseUser" /\ q.stage = "flushed") =>
          q.rows = FilesOf(q.user) /\ q.paths = {}
    /\ (q.op = "eraseOrg" /\ q.stage = "unlinking") => q.rows = FilesIn(OrgOf[q.user])
    /\ Holds(q) => lock = w

RequestsCarry == \A w \in Workers : Carries(w, requests[w])

\* Two uploads have two files, and two new tokens are two.
RequestsDiffer ==
    \A w, v \in Workers :
        /\ (requests[w].op = "upload" /\ requests[v].op = "upload" /\
            requests[w].file = requests[v].file) => w = v
        /\ (requests[w].op = "token" /\ requests[v].op = "token" /\
            requests[w].token = requests[v].token) => w = v

AloneIsAlone ==
    \A w \in Workers : requests[w].op \in alone =>
        \A v \in Workers \ {w} : requests[v] = Idle

ErasuresAlone == {"eraseUser", "eraseOrg"} \subseteq alone /\ faults = 0

\* Where erasures are alone and nothing is aborted, a blob has a row, but for
\* those of uploads in flight; uploads and deletions are of files whose user
\* and tenant are there; an erasure has collected all the blobs there are.
Uploading(q, f) ==
    q.op = "upload" /\ q.file = f /\ q.stage \in {"written", "flushed"}

BlobsHaveRows ==
    \A f \in blobs : Stored(f) \/ \E w \in Workers : Uploading(requests[w], f)

Collected(q) ==
    /\ q.op \in {"upload", "delete"} => Remains(q.file)
    /\ q.op = "eraseUser" => \A f \in FilesOf(q.user) : f \in q.paths \/ f \notin blobs
    /\ q.op = "eraseOrg" => \A f \in FilesIn(OrgOf[q.user]) : f \in q.paths \/ f \notin blobs

ErasureInv ==
    ErasuresAlone =>
        /\ NothingOutlivesItsOwner /\ BlobsHaveRows
        /\ \A w \in Workers : Collected(requests[w])

\* The downloads in flight with a token.
Downloading(t) == {w \in Workers : requests[w].op = "download" /\ requests[w].token = t}

\* A token that is still valid has not been used, and can be used no more
\* often than there are requests; alone, a download is the first.
TokensInv ==
    \A t \in Tokens :
        /\ tokens[t].status = "unused" => tokens[t].file = None
        /\ tokens[t].status \in {"unused", "valid"} => tokens[t].uses = 0
        /\ tokens[t].status = "valid" => tokens[t].file \in Files
        /\ tokens[t].uses + Cardinality(Downloading(t)) <= Cardinality(Workers)
        /\ "download" \in alone =>
              /\ tokens[t].uses <= 1
              /\ \A w \in Downloading(t) : tokens[t].uses = 0

IInv ==
    /\ TypeOK /\ RequestsCarry /\ RequestsDiffer /\ AloneIsAlone
    /\ DeletedFilesLeaveNoBytes /\ LiveFilesHaveBytes /\ ErasureInv /\ TokensInv

-----------------------------------------------------------------------------
(* Requests.                                                               *)

LEMMA IdleIsRequest ==
    /\ Idle \in Request /\ Idle.op = None /\ Idle.stage = "idle" /\ None \notin Ops
    /\ \A w \in Workers : Carries(w, Idle)
<1>1. Idle \in Request /\ Idle.op = None /\ Idle.stage = "idle" /\ None \notin Ops
  BY FilesAssumption DEF Idle, Request, Ops
<1>2. Idle.paths = {} /\ Idle.rows = {}
  BY DEF Idle
<1> QED
  BY <1>1, <1>2 DEF Carries, Holds, Ops

LEMMA RequestFacts ==
    ASSUME IInv, NEW w \in Workers
    PROVE  /\ requests \in [Workers -> Request] /\ requests[w] \in Request
           /\ Carries(w, requests[w])
           /\ requests[w].op = None => requests[w] = Idle
           /\ requests[w].paths \subseteq Files /\ requests[w].rows \subseteq Files
           /\ requests[w].op \in {"upload", "delete", "token", "download"} =>
                 requests[w].file \in Files
           /\ requests[w].op \in {"token", "download"} => requests[w].token \in Tokens
           /\ requests[w].op \in {"eraseUser", "eraseOrg", "upload", "delete"} =>
                 requests[w].user \in Users
<1>1. requests \in [Workers -> Request] /\ Carries(w, requests[w])
  BY DEF IInv, TypeOK, RequestsCarry
<1>2. requests[w] \in Request
  BY <1>1
<1> QED
  BY <1>1, <1>2, IdleIsRequest DEF Carries, Request, Ops

\* The request of w goes from one record to the next.
Turns(w, q) == requests' = [requests EXCEPT ![w] = q]

LEMMA TurnFacts ==
    ASSUME IInv, NEW w \in Workers, NEW q \in Request, Turns(w, q)
    PROVE  /\ requests' \in [Workers -> Request] /\ requests'[w] = q
           /\ \A v \in Workers \ {w} : requests'[v] = requests[v]
  BY RequestFacts DEF Turns

\* What a step leaves to the requests W, which go on as they are.
Undisturbed(W) ==
    /\ \A f \in Files :
          /\ rows[f].status # "unused" => rows'[f].status # "unused"
          /\ (rows[f].status = "unused" /\ rows'[f].status # "unused") =>
                \A v \in W : ~(requests[v].op = "upload" /\ requests[v].file = f)
          /\ rows[f].status \notin {"live", "unused"} =>
                rows'[f].status \notin {"live", "unused"}
          /\ f \in blobs /\ f \notin blobs' => rows[f].status # "unused"
          /\ f \notin blobs /\ f \in blobs' => rows[f].status = "unused"
    /\ \A v \in W :
          /\ requests[v].op = "purge" => \A f \in requests[v].rows : Purged(f)'
          /\ requests[v].op = "delete" =>
                (rows'[requests[v].file].status = "deleted" =>
                    rows'[requests[v].file].age = 0)
          /\ requests[v].op = "token" => tokens'[requests[v].token].status = "unused"
          /\ lock = v => lock' = v /\ \A f \in Files : Stored(f)' <=> Stored(f)
    /\ \A t \in Tokens : tokens[t].status # "unused" => tokens'[t].status # "unused"

LEMMA CarryOthers ==
    ASSUME IInv, NEW W \in SUBSET Workers, \A v \in W : requests'[v] = requests[v],
           Undisturbed(W)
    PROVE  \A v \in W : Carries(v, requests[v])'
<1> SUFFICES ASSUME NEW v \in W PROVE Carries(v, requests[v])'
  OBVIOUS
<1>1. PICK q \in Request : q = requests[v] /\ q = requests'[v]
  BY RequestFacts
<1>2. Carries(v, q)
  BY <1>1, RequestFacts
<1>3. /\ q.paths \subseteq Files /\ q.rows \subseteq Files
      /\ q.op \in {"upload", "delete"} => q.file \in Files
      /\ q.op = "download" => q.token \in Tokens
  BY <1>1, RequestFacts
<1>4. /\ q.op = "upload" =>
            /\ rows'[q.file].status = "unused"
            /\ q.stage \in {"written", "flushed"} => q.file \in blobs'
      /\ q.op = "token" => tokens'[q.token].status = "unused"
      /\ q.op = "download" => tokens'[q.token].status # "unused"
  BY <1>1, <1>2, <1>3 DEF Undisturbed, Carries
<1>5. /\ \A f \in q.paths : MayUnlink(q, f)'
      /\ \A f \in q.paths \cup q.rows : rows'[f].status # "unused"
  BY <1>2, <1>3 DEF Undisturbed, Carries, MayUnlink
<1>6. q.op = "purge" => \A f \in q.rows : Purged(f)'
  BY <1>1 DEF Undisturbed
<1>7. Holds(q) => lock' = v /\ \A f \in Files : Stored(f)' <=> Stored(f)
  BY <1>1, <1>2 DEF Undisturbed, Carries
<1>8. q.op = "delete" =>
          /\ rows'[q.file].status # "unused"
          /\ rows'[q.file].status = "deleted" => rows'[q.file].age = 0
          /\ q.stage = "unlinking" =>
                Stored(q.file)' /\ (q.file \in q.paths \/ q.file \notin blobs')
  BY <1>1, <1>2, <1>3, <1>7 DEF Undisturbed, Carries, Holds
<1>9. /\ (q.op = "eraseUser" /\ q.stage = "flushed") =>
            q.rows = FilesOf(q.user)' /\ q.paths = {}
      /\ (q.op = "eraseOrg" /\ q.stage = "unlinking") =>
            q.rows = FilesIn(OrgOf[q.user])'
  BY <1>2, <1>7 DEF Carries, Holds, FilesOf, FilesIn
<1>10. /\ q.op = None => q = Idle
       /\ q.op \notin {None, "purge"} => q.user \in Users
       /\ q.op \in {"upload", "delete", "token", "download"} => q.file \in Files
       /\ q.op \in {"token", "download"} => q.token \in Tokens
  BY <1>2 DEF Carries
<1>11. Carries(v, q)'
  BY <1>4, <1>5, <1>6, <1>7, <1>8, <1>9, <1>10 DEF Carries
<1> QED
  BY <1>1, <1>11 DEF Carries

LEMMA AloneKept ==
    ASSUME IInv, NEW w \in Workers, NEW q \in Request, Turns(w, q), alone' = alone,
           requests[w].op # None, q.op \in {requests[w].op, None}
    PROVE  AloneIsAlone'
<1>1. alone \subseteq Ops
  BY FilesAssumption DEF IInv, TypeOK
<1> SUFFICES ASSUME NEW x \in Workers, requests'[x].op \in alone,
                    NEW v \in Workers \ {x}
             PROVE  requests'[v] = Idle
  BY DEF AloneIsAlone
<1>2. requests[x].op \in alone
  BY <1>1, TurnFacts, IdleIsRequest
<1>3. \A y \in Workers \ {x} : requests[y] = Idle
  BY <1>2 DEF IInv, AloneIsAlone
<1>4. x = w
  BY <1>3, IdleIsRequest
<1> QED
  BY <1>3, <1>4, TurnFacts

LEMMA TableStep ==
    ASSUME IInv, NEW w \in Workers, NEW q \in Request, Turns(w, q), alone' = alone,
           requests[w].op # None,
           \/ q = Idle
           \/ /\ q.op = requests[w].op /\ q.file = requests[w].file
              /\ q.token = requests[w].token,
           Undisturbed(Workers \ {w}), Carries(w, q)', TypeOK',
           DeletedFilesLeaveNoBytes', LiveFilesHaveBytes', ErasureInv', TokensInv'
    PROVE  IInv'
<1>1. RequestsCarry'
  <2>1. \A v \in Workers \ {w} : Carries(v, requests[v])'
    BY TurnFacts, CarryOthers
  <2>2. Carries(w, requests[w])'
    BY TurnFacts DEF Carries
  <2> QED
    BY <2>1, <2>2 DEF RequestsCarry
<1>2. RequestsDiffer'
  BY TurnFacts, IdleIsRequest DEF IInv, RequestsDiffer, Ops
<1>3. AloneIsAlone'
  BY AloneKept, IdleIsRequest
<1> QED
  BY <1>1, <1>2, <1>3 DEF IInv

-----------------------------------------------------------------------------
(* Tokens.                                                                 *)

LEMMA DownloadingFacts ==
    ASSUME NEW t \in Tokens
    PROVE  /\ IsFiniteSet(Downloading(t)) /\ Cardinality(Downloading(t)) \in Nat
           /\ Cardinality(Downloading(t)) <= Cardinality(Workers)
           /\ Cardinality(Workers) \in Nat
           /\ Downloading(t) \subseteq Workers
  BY FilesAssumption, FS_Subset, FS_CardinalityType DEF Downloading

LEMMA DownloadingShrinks ==
    ASSUME NEW t \in Tokens, Downloading(t)' \subseteq Downloading(t)
    PROVE  /\ Cardinality(Downloading(t)') <= Cardinality(Downloading(t))
           /\ Cardinality(Downloading(t)') \in Nat
  BY DownloadingFacts, FS_Subset, FS_CardinalityType

LEMMA TokenTypes ==
    ASSUME IInv, NEW t \in Tokens
    PROVE  /\ tokens \in [Tokens -> Token] /\ tokens[t] \in Token
           /\ tokens[t].uses \in Nat
           /\ tokens[t].uses + Cardinality(Downloading(t)) <= Cardinality(Workers)
<1>1. tokens \in [Tokens -> Token] /\ Cardinality(Workers) \in Nat
  BY FilesAssumption, FS_CardinalityType DEF IInv, TypeOK
<1>2. tokens[t] \in Token
  BY <1>1
<1>3. tokens[t].uses \in 0 .. Cardinality(Workers)
  BY <1>2 DEF Token
<1> QED
  BY <1>1, <1>2, <1>3 DEF IInv, TokensInv

\* Tokens may expire or go while no download begins or ends.
LEMMA TokensKept ==
    ASSUME IInv, alone' = alone,
           \A t \in Tokens :
              /\ tokens'[t].uses = tokens[t].uses /\ tokens'[t].file = tokens[t].file
              /\ tokens'[t].status \in {"unused", "valid"} =>
                    tokens'[t].status = tokens[t].status
              /\ Downloading(t)' \subseteq Downloading(t)
    PROVE  TokensInv'
<1> SUFFICES ASSUME NEW t \in Tokens
             PROVE  /\ tokens'[t].status = "unused" => tokens'[t].file = None
                    /\ tokens'[t].status \in {"unused", "valid"} => tokens'[t].uses = 0
                    /\ tokens'[t].status = "valid" => tokens'[t].file \in Files
                    /\ tokens'[t].uses + Cardinality(Downloading(t)') <= Cardinality(Workers)
                    /\ "download" \in alone =>
                          /\ tokens'[t].uses <= 1
                          /\ \A w \in Downloading(t)' : tokens'[t].uses = 0
  BY DEF TokensInv
<1>1. tokens[t].uses + Cardinality(Downloading(t)') <= Cardinality(Workers)
  BY TokenTypes, DownloadingFacts, DownloadingShrinks
<1>2. "download" \in alone => /\ tokens[t].uses <= 1
                              /\ \A w \in Downloading(t)' : tokens[t].uses = 0
  BY DEF IInv, TokensInv
<1>3. /\ tokens'[t].status = "unused" => tokens'[t].file = None
      /\ tokens'[t].status \in {"unused", "valid"} => tokens'[t].uses = 0
      /\ tokens'[t].status = "valid" => tokens'[t].file \in Files
  BY DEF IInv, TokensInv
<1> QED
  BY <1>1, <1>2, <1>3

\* A request that stays what it is, or ends.
LEMMA TurnDownloads ==
    ASSUME IInv, NEW w \in Workers, NEW q \in Request, Turns(w, q),
           q = Idle \/ (q.op = requests[w].op /\ q.token = requests[w].token),
           NEW t \in Tokens
    PROVE  Downloading(t)' \subseteq Downloading(t)
  BY TurnFacts, IdleIsRequest DEF Downloading, Ops

-----------------------------------------------------------------------------
(* Steps that leave files and tenants alone.                               *)

\* Removes, of the record of a request.
Removing(q, f) ==
    \/ q.op = "delete" /\ q.stage = "unlinking" /\ q.file = f
    \/ q.op = "eraseUser" /\ q.user = OwnerOf[f]
    \/ q.op = "eraseOrg" /\ q.stage = "unlinking" /\ OrgOf[q.user] = OrgOf[OwnerOf[f]]

LEMMA RemovesIsRemoving ==
    ASSUME NEW w \in Workers, NEW f \in Files
    PROVE  /\ Removes(w, f) <=> Removing(requests[w], f)
           /\ Removes(w, f)' <=> Removing(requests'[w], f)
  BY DEF Removes, Removing, At

LEMMA AsideKeeps ==
    ASSUME IInv, NEW w \in Workers, NEW q \in Request, Turns(w, q),
           UNCHANGED <<rows, blobs, users, orgs, alone>>,
           faults' = 0 => faults = 0, lost \subseteq lost',
           \A f \in Files : Bare(f) /\ Removing(requests[w], f) =>
              Removing(q, f) \/ f \in lost',
           ErasuresAlone' => /\ Collected(q)
                             /\ \A f \in Files : Uploading(requests[w], f) => Uploading(q, f)
    PROVE  DeletedFilesLeaveNoBytes' /\ LiveFilesHaveBytes' /\ ErasureInv'
<1>1. DeletedFilesLeaveNoBytes'
  BY DEF IInv, DeletedFilesLeaveNoBytes
<1>2. LiveFilesHaveBytes'
  <2> SUFFICES ASSUME NEW f \in Files, Bare(f), f \notin lost'
               PROVE  \E v \in Workers : Removes(v, f)'
    BY DEF LiveFilesHaveBytes, Bare
  <2>1. PICK v \in Workers : Removing(requests[v], f)
    BY RemovesIsRemoving DEF IInv, LiveFilesHaveBytes
  <2>2. Removing(requests'[v], f)
    <3>1. CASE v = w
      BY <2>1, <3>1, TurnFacts
    <3>2. CASE v # w
      BY <2>1, <3>2, TurnFacts
    <3> QED
      BY <3>1, <3>2
  <2> QED
    BY <2>2, RemovesIsRemoving
<1>3. ErasureInv'
  <2> SUFFICES ASSUME ErasuresAlone'
               PROVE  NothingOutlivesItsOwner' /\ BlobsHaveRows' /\
                      \A v \in Workers : Collected(requests[v])'
    BY DEF ErasureInv
  <2>1. ErasuresAlone
    BY DEF ErasuresAlone
  <2>2. NothingOutlivesItsOwner'
    BY <2>1 DEF IInv, ErasureInv, NothingOutlivesItsOwner, Remains, Stored
  <2>3. BlobsHaveRows'
    <3> SUFFICES ASSUME NEW f \in blobs, ~Stored(f)
                 PROVE  \E v \in Workers : Uploading(requests'[v], f)
      BY DEF BlobsHaveRows, Stored, Uploading
    <3>1. PICK v \in Workers : Uploading(requests[v], f)
      BY <2>1 DEF IInv, ErasureInv, BlobsHaveRows
    <3>2. f \in Files
      BY DEF IInv, TypeOK
    <3>3. Uploading(requests'[v], f)
      BY <3>1, <3>2, TurnFacts
    <3> QED
      BY <3>3
  <2>4. ASSUME NEW v \in Workers PROVE Collected(requests[v])'
    <3>1. Collected(requests'[v])
      BY <2>1, TurnFacts DEF IInv, ErasureInv
    <3> QED
      BY <3>1 DEF Collected, Remains, FilesOf, FilesIn, Stored
  <2> QED
    BY <2>2, <2>3, <2>4
<1> QED
  BY <1>1, <1>2, <1>3

\* A request that begins.
LEMMA StartStep ==
    ASSUME IInv, NEW w \in Workers, NEW q \in Request, Begin(w, q), q.op \in Ops,
           UNCHANGED <<rows, blobs, users, orgs, plan, tokens, lock, faults, loop, alone, lost>>,
           Carries(w, q), ErasuresAlone => Collected(q),
           q.op = "upload" => \A v \in Workers : requests[v].file # q.file,
           q.op = "token" => \A v \in Workers : requests[v].token # q.token,
           q.op = "download" => tokens[q.token].status = "valid"
    PROVE  IInv'
<1>1. /\ Turns(w, q) /\ requests[w] = Idle
      /\ \A v \in Workers : requests[v].op \notin alone
      /\ q.op \in alone => \A v \in Workers : requests[v] = Idle
  BY DEF Begin, Turns
<1>2. TypeOK'
  BY <1>1, TurnFacts DEF IInv, TypeOK
<1>3. RequestsCarry'
  <2>1. \A v \in Workers \ {w} : Carries(v, requests[v])'
    <3>1. \A v \in Workers \ {w} : requests'[v] = requests[v]
      BY <1>1, TurnFacts
    <3>2. Undisturbed(Workers \ {w})
      <4>1. \A f \in Files : Stored(f)' <=> Stored(f)
        BY DEF Stored
      <4>2. \A v \in Workers \ {w} :
               /\ requests[v].op = "purge" => \A f \in requests[v].rows : Purged(f)'
               /\ requests[v].op = "delete" =>
                     (rows'[requests[v].file].status = "deleted" =>
                         rows'[requests[v].file].age = 0)
               /\ requests[v].op = "token" => tokens'[requests[v].token].status = "unused"
        BY RequestFacts DEF Carries, Purged, Window
      <4> QED
        BY <4>1, <4>2 DEF Undisturbed
    <3> QED
      BY <3>1, <3>2, CarryOthers
  <2>2. Carries(w, q)'
    BY DEF Carries, MayUnlink, Purged, Window, FilesOf, FilesIn, Stored
  <2>3. Carries(w, requests[w])'
    BY <1>1, <2>2, TurnFacts DEF Carries
  <2> QED
    BY <2>1, <2>3 DEF RequestsCarry
<1>4. RequestsDiffer'
  BY <1>1, TurnFacts DEF IInv, RequestsDiffer
<1>5. AloneIsAlone'
  BY <1>1, TurnFacts DEF AloneIsAlone
<1>6. DeletedFilesLeaveNoBytes' /\ LiveFilesHaveBytes' /\ ErasureInv'
  <2>1. \A f \in Files : ~Removing(requests[w], f) /\ ~Uploading(requests[w], f)
    BY <1>1, IdleIsRequest DEF Removing, Uploading, Ops
  <2>2. ErasuresAlone' => ErasuresAlone
    BY DEF ErasuresAlone
  <2> QED
    BY <1>1, <2>1, <2>2, AsideKeeps
<1>7. TokensInv'
  <2>1. CASE q.op # "download"
    <3>1. \A t \in Tokens : Downloading(t)' \subseteq Downloading(t)
      BY <1>1, <2>1, TurnFacts DEF Downloading
    <3> QED
      BY <3>1, TokensKept
  <2>2. CASE q.op = "download"
    <3> SUFFICES ASSUME NEW t \in Tokens
                 PROVE  /\ tokens[t].uses + Cardinality(Downloading(t)') <= Cardinality(Workers)
                        /\ "download" \in alone =>
                              \A v \in Downloading(t)' : tokens[t].uses = 0
      BY DEF IInv, TokensInv
    <3>1. CASE t = q.token
      <4>1. tokens[t].uses = 0
        BY <2>2, <3>1 DEF IInv, TokensInv
      <4>2. /\ Cardinality(Downloading(t)') \in Nat
            /\ Cardinality(Downloading(t)') <= Cardinality(Workers)
        <5>1. Downloading(t)' \subseteq Workers
          BY DEF Downloading
        <5> QED
          BY <5>1, FilesAssumption, FS_Subset, FS_CardinalityType
      <4> QED
        BY <4>1, <4>2
    <3>2. CASE t # q.token
      <4>1. Downloading(t)' \subseteq Downloading(t)
        BY <1>1, <3>2, TurnFacts DEF Downloading
      <4>2. tokens[t].uses + Cardinality(Downloading(t)') <= Cardinality(Workers)
        BY <4>1, TokenTypes, DownloadingFacts, DownloadingShrinks
      <4> QED
        BY <4>1, <4>2 DEF IInv, TokensInv
    <3> QED
      BY <3>1, <3>2
  <2> QED
    BY <2>1, <2>2
<1> QED
  BY <1>2, <1>3, <1>4, <1>5, <1>6, <1>7 DEF IInv

\* A request that goes on, or ends without having changed anything.
LEMMA GoesOnStep ==
    ASSUME IInv, NEW w \in Workers, NEW q \in Request, Turns(w, q),
           UNCHANGED <<rows, blobs, users, orgs, plan, tokens, alone>>,
           requests[w].op # None,
           lock' \in Workers \cup {None}, faults' \in 0 .. MaxFaults, loop' \in BOOLEAN,
           faults' = 0 => faults = 0, lost \subseteq lost', lost' \subseteq Files,
           \A v \in Workers \ {w} : lock = v => lock' = v,
           Carries(w, q)',
           \A f \in Files : Bare(f) /\ Removing(requests[w], f) =>
              Removing(q, f) \/ f \in lost',
           \/ /\ q = Idle
              /\ faults' = 0 => \A f \in Files : ~Uploading(requests[w], f)
           \/ /\ q.op = requests[w].op /\ q.file = requests[w].file
              /\ q.token = requests[w].token
              /\ ErasuresAlone' => /\ Collected(q)
                                   /\ \A f \in Files :
                                         Uploading(requests[w], f) => Uploading(q, f)
    PROVE  IInv'
<1>1. TypeOK'
  BY TurnFacts DEF IInv, TypeOK
<1>2. Undisturbed(Workers \ {w})
  <2>1. \A f \in Files : Stored(f)' <=> Stored(f)
    BY DEF Stored
  <2>2. \A v \in Workers \ {w} :
           /\ requests[v].op = "purge" => \A f \in requests[v].rows : Purged(f)'
           /\ requests[v].op = "delete" =>
                 (rows'[requests[v].file].status = "deleted" =>
                     rows'[requests[v].file].age = 0)
           /\ requests[v].op = "token" => tokens'[requests[v].token].status = "unused"
    BY RequestFacts DEF Carries, Purged, Window
  <2> QED
    BY <2>1, <2>2 DEF Undisturbed
<1>3. Collected(Idle)
  BY IdleIsRequest DEF Collected, Ops
<1>4. DeletedFilesLeaveNoBytes' /\ LiveFilesHaveBytes' /\ ErasureInv'
  <2>1. ErasuresAlone' => /\ Collected(q)
                          /\ \A f \in Files : Uploading(requests[w], f) => Uploading(q, f)
    BY <1>3 DEF ErasuresAlone
  <2> QED
    BY <2>1, AsideKeeps
<1>5. TokensInv'
  <2>1. q = Idle \/ (q.op = requests[w].op /\ q.token = requests[w].token)
    OBVIOUS
  <2>2. \A t \in Tokens : Downloading(t)' \subseteq Downloading(t)
    BY <2>1, TurnDownloads
  <2> QED
    BY <2>2, TokensKept
<1> QED
  BY <1>1, <1>2, <1>4, <1>5, TableStep

-----------------------------------------------------------------------------
(* The beginnings.                                                         *)

LEMMA UploadStartStep ==
    ASSUME IInv, NEW w \in Workers, NEW f \in Files, UploadStart(w, f)
    PROVE  IInv'
<1> DEFINE q == [Idle EXCEPT !.op = "upload", !.stage = "started",
                             !.user = OwnerOf[f], !.file = f]
<1>1. OwnerOf[f] \in Users
  BY FilesAssumption
<1>2. /\ q \in Request /\ q.op = "upload" /\ q.stage = "started" /\ q.user = OwnerOf[f]
      /\ q.file = f /\ q.paths = {} /\ q.rows = {}
  BY <1>1, IdleIsRequest DEF Idle, Request, Ops
<1>3. /\ Begin(w, q) /\ rows[f].status = "unused" /\ Member(OwnerOf[f])
      /\ \A v \in Workers : requests[v].file # f
      /\ UNCHANGED <<rows, blobs, users, orgs, plan, tokens, lock, faults, loop, alone, lost>>
  BY DEF UploadStart
<1> HIDE DEF q
<1>4. Carries(w, q)
  BY <1>1, <1>2, <1>3, IdleIsRequest DEF Carries, Holds, Ops
<1>5. Collected(q)
  BY <1>2, <1>3 DEF Collected, Member, Remains
<1> QED
  BY <1>2, <1>3, <1>4, <1>5, StartStep DEF Ops

LEMMA DeleteStartStep ==
    ASSUME IInv, NEW w \in Workers, NEW u \in Users, NEW f \in Files, DeleteStart(w, u, f)
    PROVE  IInv'
<1> DEFINE q == [Idle EXCEPT !.op = "delete", !.stage = "started", !.user = u, !.file = f]
<1>2. /\ q \in Request /\ q.op = "delete" /\ q.stage = "started" /\ q.user = u
      /\ q.file = f /\ q.paths = {} /\ q.rows = {}
  BY IdleIsRequest DEF Idle, Request, Ops
<1>3. /\ Begin(w, q) /\ rows[f].status = "live"
      /\ UNCHANGED <<rows, blobs, users, orgs, plan, tokens, lock, faults, loop, alone, lost>>
  BY DEF DeleteStart, Readable
<1> HIDE DEF q
<1>4. Carries(w, q)
  BY <1>2, <1>3, IdleIsRequest DEF Carries, Holds, Ops
<1>5. ErasuresAlone => Collected(q)
  BY <1>2, <1>3 DEF Collected, IInv, ErasureInv, NothingOutlivesItsOwner, Stored
<1> QED
  BY <1>2, <1>3, <1>4, <1>5, StartStep DEF Ops

LEMMA TokenStartStep ==
    ASSUME IInv, NEW w \in Workers, NEW u \in Users, NEW t \in Tokens, NEW f \in Files,
           TokenStart(w, u, t, f)
    PROVE  IInv'
<1> DEFINE q == [Idle EXCEPT !.op = "token", !.stage = "started", !.user = u,
                             !.file = f, !.token = t]
<1>2. /\ q \in Request /\ q.op = "token" /\ q.user = u /\ q.stage = "started"
      /\ q.file = f /\ q.token = t /\ q.paths = {} /\ q.rows = {}
  BY IdleIsRequest DEF Idle, Request, Ops
<1>3. /\ Begin(w, q) /\ tokens[t].status = "unused"
      /\ \A v \in Workers : requests[v].token # t
      /\ UNCHANGED <<rows, blobs, users, orgs, plan, tokens, lock, faults, loop, alone, lost>>
  BY DEF TokenStart
<1> HIDE DEF q
<1>4. Carries(w, q)
  BY <1>2, <1>3, IdleIsRequest DEF Carries, Holds, Ops
<1>5. Collected(q)
  BY <1>2 DEF Collected
<1> QED
  BY <1>2, <1>3, <1>4, <1>5, StartStep DEF Ops

LEMMA DownloadStartStep ==
    ASSUME IInv, NEW w \in Workers, NEW u \in Users, NEW t \in Tokens, DownloadStart(w, u, t)
    PROVE  IInv'
<1> DEFINE f == tokens[t].file
           q == [Idle EXCEPT !.op = "download", !.stage = "started", !.user = u,
                             !.file = f, !.token = t]
<1>3. /\ Begin(w, q) /\ tokens[t].status = "valid"
      /\ UNCHANGED <<rows, blobs, users, orgs, plan, tokens, lock, faults, loop, alone, lost>>
  BY DEF DownloadStart
<1>1. f \in Files
  BY <1>3 DEF IInv, TokensInv
<1> HIDE DEF f
<1>2. /\ q \in Request /\ q.op = "download" /\ q.user = u /\ q.stage = "started"
      /\ q.file = f /\ q.token = t /\ q.paths = {} /\ q.rows = {}
  BY <1>1, IdleIsRequest DEF Idle, Request, Ops
<1> HIDE DEF q
<1>4. Carries(w, q)
  BY <1>1, <1>2, <1>3, IdleIsRequest DEF Carries, Holds, Ops
<1>5. Collected(q)
  BY <1>2 DEF Collected
<1> QED
  BY <1>2, <1>3, <1>4, <1>5, StartStep DEF Ops

LEMMA EraseUserStartStep ==
    ASSUME IInv, NEW w \in Workers, NEW u \in Users, EraseUserStart(w, u)
    PROVE  IInv'
<1> DEFINE paths == FilesOf(u)
           q == [Idle EXCEPT !.op = "eraseUser", !.stage = "unlinking",
                             !.user = u, !.paths = paths]
<1>1. \A f \in paths : f \in Files /\ Stored(f) /\ OwnerOf[f] = u
  BY DEF FilesOf
<1>3. /\ Begin(w, q)
      /\ UNCHANGED <<rows, blobs, users, orgs, plan, tokens, lock, faults, loop, alone, lost>>
  BY DEF EraseUserStart
<1>6. paths = FilesOf(u)
  OBVIOUS
<1> HIDE DEF paths
<1>2. /\ q \in Request /\ q.op = "eraseUser" /\ q.stage = "unlinking" /\ q.user = u
      /\ q.paths = paths /\ q.rows = {}
  BY <1>1, IdleIsRequest DEF Idle, Request, Ops
<1> HIDE DEF q
<1>4. Carries(w, q)
  BY <1>1, <1>2, IdleIsRequest DEF Carries, Holds, Ops, MayUnlink, Stored
<1>5. Collected(q)
  BY <1>2, <1>6 DEF Collected
<1> QED
  BY <1>2, <1>3, <1>4, <1>5, StartStep DEF Ops

LEMMA EraseOrgStartStep ==
    ASSUME IInv, NEW w \in Workers, NEW u \in Users, EraseOrgStart(w, u)
    PROVE  IInv'
<1> DEFINE paths == FilesIn(OrgOf[u])
           q == [Idle EXCEPT !.op = "eraseOrg", !.stage = "started",
                             !.user = u, !.paths = paths]
<1>1. \A f \in paths : f \in Files /\ Stored(f) /\ OrgOf[OwnerOf[f]] = OrgOf[u]
  BY DEF FilesIn
<1>3. /\ Begin(w, q)
      /\ UNCHANGED <<rows, blobs, users, orgs, plan, tokens, lock, faults, loop, alone, lost>>
  BY DEF EraseOrgStart
<1>6. paths = FilesIn(OrgOf[u])
  OBVIOUS
<1> HIDE DEF paths
<1>2. /\ q \in Request /\ q.op = "eraseOrg" /\ q.stage = "started" /\ q.user = u
      /\ q.paths = paths /\ q.rows = {}
  BY <1>1, IdleIsRequest DEF Idle, Request, Ops
<1> HIDE DEF q
<1>4. Carries(w, q)
  BY <1>1, <1>2, IdleIsRequest DEF Carries, Holds, Ops, MayUnlink, Stored
<1>5. Collected(q)
  BY <1>2, <1>6 DEF Collected
<1> QED
  BY <1>2, <1>3, <1>4, <1>5, StartStep DEF Ops

LEMMA PurgeStartStep ==
    ASSUME IInv, NEW w \in Workers, NEW todo \in SUBSET Orgs, PurgeStart(w, todo)
    PROVE  IInv'
<1> DEFINE q == [Idle EXCEPT !.op = "purge", !.stage = "unlinking", !.todo = todo]
<1>2. /\ q \in Request /\ q.op = "purge" /\ q.stage = "unlinking"
      /\ q.paths = {} /\ q.rows = {}
  BY IdleIsRequest DEF Idle, Request, Ops
<1>3. /\ Begin(w, q)
      /\ UNCHANGED <<rows, blobs, users, orgs, plan, tokens, lock, faults, loop, alone, lost>>
  BY DEF PurgeStart
<1> HIDE DEF q
<1>4. Carries(w, q)
  BY <1>2, IdleIsRequest DEF Carries, Holds, Ops
<1>5. Collected(q)
  BY <1>2 DEF Collected
<1> QED
  BY <1>2, <1>3, <1>4, <1>5, StartStep DEF Ops

-----------------------------------------------------------------------------
(* Locks taken, rows selected and blobs read.                              *)

\* The lock was free, or w had it already.
Locked(w) == lock \in {None, w} /\ lock' = w

LEMMA LockedFacts ==
    ASSUME IInv, NEW w \in Workers, Locked(w) \/ UNCHANGED lock
    PROVE  /\ lock' \in Workers \cup {None}
           /\ \A v \in Workers \ {w} : lock = v => lock' = v
  BY FilesAssumption DEF Locked, IInv, TypeOK

\* A request that goes on to the record q.
LEMMA OnStep ==
    ASSUME IInv, NEW w \in Workers, NEW q \in Request, Turns(w, q),
           UNCHANGED <<rows, blobs, users, orgs, plan, tokens, faults, loop, alone, lost>>,
           Locked(w) \/ UNCHANGED lock,
           q.op = requests[w].op, q.op \in Ops, q.file = requests[w].file,
           q.token = requests[w].token, q.user = requests[w].user,
           q.op \in {"delete", "eraseOrg"} => q.stage = "unlinking",
           Carries(w, q)', ErasuresAlone => Collected(q),
           \A f \in Files : Uploading(requests[w], f) => Uploading(q, f)
    PROVE  IInv'
<1>1. requests[w].op # None
  BY IdleIsRequest
<1>2. /\ lock' \in Workers \cup {None}
      /\ \A v \in Workers \ {w} : lock = v => lock' = v
  BY LockedFacts
<1>3. /\ faults' \in 0 .. MaxFaults /\ loop' \in BOOLEAN
      /\ faults' = 0 => faults = 0
      /\ lost \subseteq lost' /\ lost' \subseteq Files
  BY DEF IInv, TypeOK
<1>4. ErasuresAlone' => ErasuresAlone
  BY DEF ErasuresAlone
<1>5. ErasuresAlone' => /\ Collected(q)
                        /\ \A f \in Files : Uploading(requests[w], f) => Uploading(q, f)
  BY <1>4
<1>6. \A f \in Files : Removing(requests[w], f) => Removing(q, f)
  BY DEF Removing
<1> QED
  BY <1>1, <1>2, <1>3, <1>5, <1>6, GoesOnStep

LEMMA UploadFlushStep ==
    ASSUME IInv, NEW w \in Workers, UploadFlush(w)
    PROVE  IInv'
<1>1. /\ requests[w].op = "upload" /\ requests[w].stage = "written"
      /\ Turns(w, [requests[w] EXCEPT !.stage = "flushed"])
      /\ Locked(w)
      /\ UNCHANGED <<rows, blobs, users, orgs, plan, tokens, faults, loop, alone, lost>>
  BY DEF UploadFlush, At, TakeLock, Advance, Turns, Locked
<1>2. PICK p \in Request : p = requests[w] /\ Carries(w, p)
  BY RequestFacts
<1> DEFINE s == [p EXCEPT !.stage = "flushed"]
<1>3. /\ s \in Request /\ s.op = "upload" /\ s.stage = "flushed"
      /\ s.user = p.user /\ s.file = p.file /\ s.token = p.token
      /\ s.paths = p.paths /\ s.rows = p.rows
  BY <1>1, <1>2 DEF Request
<1>4. Turns(w, s)
  BY <1>1, <1>2
<1> HIDE DEF s
<1>5. PICK q \in Request : q = s
  BY <1>3
<1>6. Carries(w, q)'
  <2>1. lock' = w
    BY <1>1 DEF Locked
  <2>2. \A f \in q.paths : FALSE
    BY <1>1, <1>2, <1>3, <1>5 DEF Carries, MayUnlink
  <2>3. \A f \in q.rows : rows'[f].status # "unused"
    BY <1>1, <1>2, <1>3, <1>5 DEF Carries
  <2> QED
    BY <1>1, <1>2, <1>3, <1>5, <2>1, <2>2, <2>3, IdleIsRequest DEF Carries, Ops
<1>7. ErasuresAlone => Collected(q)
  BY <1>1, <1>2, <1>3, <1>5 DEF IInv, ErasureInv, Collected
<1>8. \A f \in Files : Uploading(requests[w], f) => Uploading(q, f)
  BY <1>1, <1>2, <1>3, <1>5 DEF Uploading
<1> QED
  BY <1>1, <1>2, <1>3, <1>4, <1>5, <1>6, <1>7, <1>8, OnStep DEF Ops

LEMMA DeleteFlushStep ==
    ASSUME IInv, NEW w \in Workers, DeleteFlush(w)
    PROVE  IInv'
<1>2. PICK p \in Request : p = requests[w] /\ Carries(w, p)
  BY RequestFacts
<1> DEFINE s == [p EXCEPT !.stage = "unlinking", !.paths = {p.file}]
<1>1. /\ p.op = "delete" /\ p.stage = "started" /\ p.file \in Files
      /\ Stored(p.file) /\ Turns(w, s) /\ Locked(w)
      /\ UNCHANGED <<rows, blobs, users, orgs, plan, tokens, faults, loop, alone, lost>>
  BY <1>2, RequestFacts DEF DeleteFlush, At, TakeLock, Turns, Locked
<1>3. /\ s \in Request /\ s.op = "delete" /\ s.stage = "unlinking"
      /\ s.user = p.user /\ s.file = p.file /\ s.token = p.token
      /\ s.paths = {p.file} /\ s.rows = p.rows
  BY <1>1, <1>2 DEF Request
<1> HIDE DEF s
<1>5. PICK q \in Request : q = s
  BY <1>3
<1>6. Carries(w, q)'
  <2>1. lock' = w
    BY <1>1 DEF Locked
  <2>2. \A f \in q.paths : MayUnlink(q, f)'
    BY <1>1, <1>3, <1>5 DEF MayUnlink
  <2>3. \A f \in q.paths \cup q.rows : rows'[f].status # "unused"
    BY <1>1, <1>2, <1>3, <1>5 DEF Carries
  <2>4. Stored(q.file)'
    BY <1>1, <1>3, <1>5 DEF Stored
  <2> QED
    BY <1>1, <1>2, <1>3, <1>5, <2>1, <2>2, <2>3, <2>4, IdleIsRequest DEF Carries, Ops
<1>7. ErasuresAlone => Collected(q)
  BY <1>1, <1>2, <1>3, <1>5 DEF IInv, ErasureInv, Collected
<1>8. \A f \in Files : Uploading(requests[w], f) => Uploading(q, f)
  BY <1>1, <1>2 DEF Uploading
<1> QED
  BY <1>1, <1>2, <1>3, <1>5, <1>6, <1>7, <1>8, OnStep DEF Ops

LEMMA DownloadReadStep ==
    ASSUME IInv, NEW w \in Workers, DownloadRead(w)
    PROVE  IInv'
<1>2. PICK p \in Request : p = requests[w] /\ Carries(w, p)
  BY RequestFacts
<1> DEFINE s == [p EXCEPT !.stage = "read"]
<1>1. /\ p.op = "download" /\ p.file \in Files /\ p.token \in Tokens /\ Turns(w, s)
      /\ UNCHANGED <<rows, blobs, users, orgs, plan, tokens, lock, faults, loop, alone, lost>>
  BY <1>2, RequestFacts DEF DownloadRead, At, Advance, Turns
<1>3. /\ s \in Request /\ s.op = "download" /\ s.stage = "read"
      /\ s.user = p.user /\ s.file = p.file /\ s.token = p.token
      /\ s.paths = p.paths /\ s.rows = p.rows
  BY <1>1, <1>2 DEF Request
<1> HIDE DEF s
<1>5. PICK q \in Request : q = s
  BY <1>3
<1>6. Carries(w, q)'
  <2>2. \A f \in q.paths : FALSE
    BY <1>1, <1>2, <1>3, <1>5 DEF Carries, MayUnlink
  <2>3. \A f \in q.rows : rows'[f].status # "unused"
    BY <1>1, <1>2, <1>3, <1>5 DEF Carries
  <2> QED
    BY <1>1, <1>2, <1>3, <1>5, <2>2, <2>3, IdleIsRequest DEF Carries, Ops, Holds
<1>7. Collected(q)
  BY <1>3, <1>5 DEF Collected
<1>8. \A f \in Files : Uploading(requests[w], f) => Uploading(q, f)
  BY <1>1, <1>2 DEF Uploading
<1> QED
  BY <1>1, <1>2, <1>3, <1>5, <1>6, <1>7, <1>8, OnStep DEF Ops

LEMMA DownloadFlushStep ==
    ASSUME IInv, NEW w \in Workers, DownloadFlush(w)
    PROVE  IInv'
<1>2. PICK p \in Request : p = requests[w] /\ Carries(w, p)
  BY RequestFacts
<1> DEFINE s == [p EXCEPT !.stage = "flushed"]
<1>1. /\ p.op = "download" /\ p.file \in Files /\ p.token \in Tokens
      /\ Turns(w, s) /\ Locked(w)
      /\ UNCHANGED <<rows, blobs, users, orgs, plan, tokens, faults, loop, alone, lost>>
  BY <1>2, RequestFacts DEF DownloadFlush, At, TakeLock, Advance, Turns, Locked
<1>3. /\ s \in Request /\ s.op = "download" /\ s.stage = "flushed"
      /\ s.user = p.user /\ s.file = p.file /\ s.token = p.token
      /\ s.paths = p.paths /\ s.rows = p.rows
  BY <1>1, <1>2 DEF Request
<1> HIDE DEF s
<1>5. PICK q \in Request : q = s
  BY <1>3
<1>6. Carries(w, q)'
  <2>2. \A f \in q.paths : FALSE
    BY <1>1, <1>2, <1>3, <1>5 DEF Carries, MayUnlink
  <2>3. \A f \in q.rows : rows'[f].status # "unused"
    BY <1>1, <1>2, <1>3, <1>5 DEF Carries
  <2> QED
    BY <1>1, <1>2, <1>3, <1>5, <2>2, <2>3, IdleIsRequest DEF Carries, Ops, Holds
<1>7. Collected(q)
  BY <1>3, <1>5 DEF Collected
<1>8. \A f \in Files : Uploading(requests[w], f) => Uploading(q, f)
  BY <1>1, <1>2 DEF Uploading
<1> QED
  BY <1>1, <1>2, <1>3, <1>5, <1>6, <1>7, <1>8, OnStep DEF Ops

LEMMA EraseUserFlushStep ==
    ASSUME IInv, NEW w \in Workers, EraseUserFlush(w)
    PROVE  IInv'
<1>2. PICK p \in Request : p = requests[w] /\ Carries(w, p)
  BY RequestFacts
<1>9. PICK removed \in SUBSET Files : removed = FilesOf(p.user)
  BY DEF FilesOf
<1> DEFINE s == [p EXCEPT !.stage = "flushed", !.rows = removed]
<1>1. /\ p.op = "eraseUser" /\ p.paths = {} /\ p.user \in Users
      /\ Turns(w, s) /\ Locked(w)
      /\ UNCHANGED <<rows, blobs, users, orgs, plan, tokens, faults, loop, alone, lost>>
  BY <1>2, <1>9, RequestFacts DEF EraseUserFlush, UnlinkedAll, TakeLock, Turns, Locked
<1>3. /\ s \in Request /\ s.op = "eraseUser" /\ s.stage = "flushed"
      /\ s.user = p.user /\ s.file = p.file /\ s.token = p.token
      /\ s.paths = {} /\ s.rows = removed
  BY <1>1, <1>2 DEF Request
<1> HIDE DEF s
<1>5. PICK q \in Request : q = s
  BY <1>3
<1>6. Carries(w, q)'
  <2>1. lock' = w
    BY <1>1 DEF Locked
  <2>3. \A f \in q.rows : rows'[f].status # "unused"
    BY <1>1, <1>3, <1>5, <1>9 DEF FilesOf, Stored
  <2>4. q.rows = FilesOf(q.user)'
    BY <1>1, <1>3, <1>5, <1>9 DEF FilesOf, Stored
  <2> QED
    BY <1>1, <1>3, <1>5, <2>1, <2>3, <2>4, IdleIsRequest DEF Carries, Ops, Holds
<1>7. ErasuresAlone => Collected(q)
  <2>1. ErasuresAlone => Collected(p)
    BY <1>2 DEF IInv, ErasureInv
  <2> QED
    BY <2>1, <1>1, <1>3, <1>5 DEF Collected
<1>8. \A f \in Files : Uploading(requests[w], f) => Uploading(q, f)
  BY <1>1, <1>2 DEF Uploading
<1> QED
  BY <1>1, <1>2, <1>3, <1>5, <1>6, <1>7, <1>8, OnStep DEF Ops

LEMMA EraseOrgFlushStep ==
    ASSUME IInv, NEW w \in Workers, EraseOrgFlush(w)
    PROVE  IInv'
<1>2. PICK p \in Request : p = requests[w] /\ Carries(w, p)
  BY RequestFacts
<1>9. PICK removed \in SUBSET Files : removed = FilesIn(OrgOf[p.user])
  BY DEF FilesIn
<1> DEFINE s == [p EXCEPT !.stage = "unlinking", !.rows = removed]
<1>1. /\ p.op = "eraseOrg" /\ p.user \in Users /\ Turns(w, s) /\ Locked(w)
      /\ UNCHANGED <<rows, blobs, users, orgs, plan, tokens, faults, loop, alone, lost>>
  BY <1>2, <1>9, RequestFacts DEF EraseOrgFlush, At, TakeLock, Turns, Locked
<1>3. /\ s \in Request /\ s.op = "eraseOrg" /\ s.stage = "unlinking"
      /\ s.user = p.user /\ s.file = p.file /\ s.token = p.token
      /\ s.paths = p.paths /\ s.rows = removed
  BY <1>1, <1>2 DEF Request
<1> HIDE DEF s
<1>5. PICK q \in Request : q = s
  BY <1>3
<1>6. Carries(w, q)'
  <2>1. lock' = w
    BY <1>1 DEF Locked
  <2>2. \A f \in q.paths : MayUnlink(q, f)'
    BY <1>1, <1>2, <1>3, <1>5 DEF MayUnlink, Carries
  <2>3. \A f \in q.rows : rows'[f].status # "unused"
    BY <1>1, <1>3, <1>5, <1>9 DEF FilesIn, Stored
  <2>5. \A f \in q.paths : rows'[f].status # "unused"
    BY <1>1, <1>2, <1>3, <1>5 DEF Carries
  <2>4. q.rows = FilesIn(OrgOf[q.user])'
    BY <1>1, <1>3, <1>5, <1>9 DEF FilesIn, Stored
  <2> QED
    BY <1>1, <1>3, <1>5, <2>1, <2>2, <2>3, <2>4, <2>5, IdleIsRequest DEF Carries, Ops, Holds
<1>7. ErasuresAlone => Collected(q)
  <2>1. ErasuresAlone => Collected(p)
    BY <1>2 DEF IInv, ErasureInv
  <2> QED
    BY <2>1, <1>1, <1>3, <1>5 DEF Collected
<1>8. \A f \in Files : Uploading(requests[w], f) => Uploading(q, f)
  BY <1>1, <1>2 DEF Uploading
<1> QED
  BY <1>1, <1>2, <1>3, <1>5, <1>6, <1>7, <1>8, OnStep DEF Ops

LEMMA PurgeSelectStep ==
    ASSUME IInv, NEW w \in Workers, NEW o \in Orgs, PurgeSelect(w, o)
    PROVE  IInv'
<1>2. PICK p \in Request : p = requests[w] /\ Carries(w, p)
  BY RequestFacts
<1>9. PICK expired \in SUBSET Files : expired = Expired(o)
  BY DEF Expired, FilesIn
<1> DEFINE s == [p EXCEPT !.stage = "started", !.todo = p.todo \ {o}, !.paths = expired,
                          !.rows = p.rows \cup expired]
<1>1. /\ p.op = "purge" /\ Turns(w, s)
      /\ UNCHANGED <<rows, blobs, users, orgs, plan, tokens, lock, faults, loop, alone, lost>>
  BY <1>2, <1>9 DEF PurgeSelect, UnlinkedAll, Turns
<1>3. /\ s \in Request /\ s.op = "purge" /\ s.stage = "started"
      /\ s.user = p.user /\ s.file = p.file /\ s.token = p.token
      /\ s.paths = expired /\ s.rows = p.rows \cup expired
  BY <1>1, <1>2 DEF Request
<1> HIDE DEF s
<1>5. PICK q \in Request : q = s
  BY <1>3
<1>4. \A f \in expired : f \in Files /\ rows[f].status = "deleted" /\ Purged(f)
  <2>1. rows \in [Files -> Row]
    BY DEF IInv, TypeOK
  <2>2. Window(o) >= 1
    BY DEF Window
  <2> SUFFICES ASSUME NEW f \in expired
               PROVE  f \in Files /\ rows[f].status = "deleted" /\ Purged(f)
    OBVIOUS
  <2>3. /\ f \in Files /\ rows[f].status = "deleted" /\ rows[f].age >= Window(o)
        /\ OrgOf[OwnerOf[f]] = o
    BY <1>9 DEF Expired, FilesIn
  <2>4. rows[f].age \in 0 .. 2
    BY <2>1, <2>3 DEF Row
  <2>5. rows[f].age >= 1
    BY <2>2, <2>3, <2>4 DEF Window
  <2> QED
    BY <2>3, <2>5 DEF Purged
<1>6. Carries(w, q)'
  <2>1. \A f \in q.paths : MayUnlink(q, f)' /\ rows'[f].status # "unused"
    BY <1>1, <1>3, <1>4, <1>5 DEF MayUnlink
  <2>2. \A f \in q.rows : rows'[f].status # "unused"
    BY <1>1, <1>2, <1>3, <1>4, <1>5 DEF Carries
  <2>3. \A f \in q.rows : Purged(f)
    BY <1>1, <1>2, <1>3, <1>4, <1>5 DEF Carries
  <2>4. \A f \in q.rows : Purged(f)'
    BY <1>1, <2>3 DEF Purged, Window
  <2> QED
    BY <1>1, <1>3, <1>5, <2>1, <2>2, <2>4, IdleIsRequest DEF Carries, Ops, Holds
<1>7. Collected(q)
  BY <1>3, <1>5 DEF Collected
<1>8. \A f \in Files : Uploading(requests[w], f) => Uploading(q, f)
  BY <1>1, <1>2 DEF Uploading
<1> QED
  BY <1>1, <1>2, <1>3, <1>5, <1>6, <1>7, <1>8, OnStep DEF Ops

LEMMA PurgeFlushStep ==
    ASSUME IInv, NEW w \in Workers, PurgeFlush(w)
    PROVE  IInv'
<1>2. PICK p \in Request : p = requests[w] /\ Carries(w, p)
  BY RequestFacts
<1> DEFINE s == [p EXCEPT !.stage = "unlinking"]
<1>1. /\ p.op = "purge" /\ Turns(w, s)
      /\ IF p.rows = {} THEN UNCHANGED lock ELSE Locked(w)
      /\ UNCHANGED <<rows, blobs, users, orgs, plan, tokens, faults, loop, alone, lost>>
  BY <1>2 DEF PurgeFlush, At, TakeLock, Advance, Turns, Locked
<1>3. /\ s \in Request /\ s.op = "purge" /\ s.stage = "unlinking"
      /\ s.user = p.user /\ s.file = p.file /\ s.token = p.token
      /\ s.paths = p.paths /\ s.rows = p.rows
  BY <1>1, <1>2 DEF Request
<1> HIDE DEF s
<1>5. PICK q \in Request : q = s
  BY <1>3
<1>6. Carries(w, q)'
  <2>1. Holds(q) => lock' = w
    BY <1>1, <1>3, <1>5 DEF Holds, Locked
  <2>2. \A f \in q.paths : MayUnlink(q, f)'
    BY <1>1, <1>2, <1>3, <1>5 DEF MayUnlink, Carries
  <2>3. \A f \in q.paths \cup q.rows : rows'[f].status # "unused"
    BY <1>1, <1>2, <1>3, <1>5 DEF Carries
  <2>4. \A f \in q.rows : Purged(f)'
    BY <1>1, <1>2, <1>3, <1>5 DEF Carries, Purged, Window
  <2> QED
    BY <1>3, <1>5, <2>1, <2>2, <2>3, <2>4, IdleIsRequest DEF Carries, Ops
<1>7. Collected(q)
  BY <1>3, <1>5 DEF Collected
<1>8. \A f \in Files : Uploading(requests[w], f) => Uploading(q, f)
  BY <1>1, <1>2 DEF Uploading
<1>9. Locked(w) \/ UNCHANGED lock
  BY <1>1
<1> QED
  BY <1>1, <1>2, <1>3, <1>5, <1>6, <1>7, <1>8, <1>9, OnStep DEF Ops

-----------------------------------------------------------------------------
(* The ends.                                                               *)

LEMMA IdleCarries ==
    ASSUME NEW w \in Workers
    PROVE  Carries(w, Idle)'
<1>1. Idle.paths = {} /\ Idle.rows = {}
  BY DEF Idle
<1> QED
  BY <1>1, IdleIsRequest DEF Carries, Holds, Ops

LEMMA FinishFacts ==
    ASSUME IInv, NEW w \in Workers, Finish(w)
    PROVE  /\ Turns(w, Idle) /\ lock' \in Workers \cup {None}
           /\ \A v \in Workers \ {w} : lock = v => lock' = v
  BY FilesAssumption DEF Finish, Turns, IInv, TypeOK

LEMMA AbortStep ==
    ASSUME IInv, NEW w \in Workers, Abort(w)
    PROVE  IInv'
<1>1. /\ requests[w] # Idle /\ Finish(w)
      /\ UNCHANGED <<rows, blobs, users, orgs, plan, tokens, alone>>
  BY DEF Abort
<1>2. faults' \in 0 .. MaxFaults /\ faults' # 0 /\ loop' \in BOOLEAN
  BY FilesAssumption DEF Abort, IInv, TypeOK, Survives
<1>3. requests[w].op # None
  BY <1>1, RequestFacts
<1>4. /\ lost \subseteq lost' /\ lost' \subseteq Files
      /\ \A f \in Files : Bare(f) /\ Removing(requests[w], f) => f \in lost'
  BY RemovesIsRemoving DEF Abort, IInv, TypeOK
<1> QED
  BY <1>1, <1>2, <1>3, <1>4, FinishFacts, IdleIsRequest, IdleCarries, GoesOnStep

LEMMA FailStep ==
    ASSUME IInv, NEW w \in Workers, Fail(w)
    PROVE  IInv'
<1>1. /\ Finish(w) /\ Refused(w)
      /\ UNCHANGED <<rows, blobs, users, orgs, plan, tokens, faults, loop, alone, lost>>
  BY DEF Fail
<1>2. /\ faults' \in 0 .. MaxFaults /\ loop' \in BOOLEAN /\ (faults' = 0 => faults = 0)
      /\ lost \subseteq lost' /\ lost' \subseteq Files
  BY <1>1 DEF IInv, TypeOK
<1>3. requests[w].op # None
  BY <1>1, IdleIsRequest DEF Refused, At, Ops
<1>4. \A f \in Files : ~Removing(requests[w], f) /\ ~Uploading(requests[w], f)
  BY <1>1 DEF Refused, At, Removing, Uploading
<1> QED
  BY <1>1, <1>2, <1>3, <1>4, FinishFacts, IdleIsRequest, IdleCarries, GoesOnStep

-----------------------------------------------------------------------------
(* Steps that change the tables or the disk.                               *)

LEMMA LiveStep ==
    ASSUME IInv, NEW w \in Workers, NEW q \in Request, Turns(w, q), lost' = lost,
           \A f \in Files : Bare(f)' =>
              Removing(q, f) \/ (Bare(f) /\ ~Removing(requests[w], f))
    PROVE  LiveFilesHaveBytes'
<1> SUFFICES ASSUME NEW f \in Files, Bare(f)', f \notin lost
             PROVE  \E v \in Workers : Removes(v, f)'
  BY DEF LiveFilesHaveBytes
<1>1. CASE Removing(q, f)
  BY <1>1, TurnFacts, RemovesIsRemoving
<1>2. CASE Bare(f) /\ ~Removing(requests[w], f)
  <2>1. PICK v \in Workers : Removing(requests[v], f)
    BY <1>2, RemovesIsRemoving DEF IInv, LiveFilesHaveBytes
  <2>2. v # w
    BY <1>2, <2>1
  <2>3. Removing(requests'[v], f)
    BY <2>1, <2>2, TurnFacts
  <2> QED
    BY <2>3, RemovesIsRemoving
<1> QED
  BY <1>1, <1>2

\* No erasure overlaps a request of another kind.
LEMMA ErasureStep ==
    ASSUME IInv, NEW w \in Workers, NEW q \in Request, Turns(w, q),
           UNCHANGED <<users, orgs, faults, alone>>,
           requests[w].op \notin {None, "eraseUser", "eraseOrg"},
           q = Idle \/ (q.op = requests[w].op /\ q.file = requests[w].file),
           blobs' \subseteq Files,
           \A f \in Files : f \in blobs' =>
              \/ Stored(f)' \/ Uploading(q, f)
              \/ f \in blobs /\ ~Stored(f) /\ ~Uploading(requests[w], f),
           ErasuresAlone => \A f \in Files :
              Stored(f)' \/ f \in blobs' => Stored(f) \/ f \in blobs \/ Remains(f)
    PROVE  ErasureInv'
<1> SUFFICES ASSUME ErasuresAlone'
             PROVE  NothingOutlivesItsOwner' /\ BlobsHaveRows' /\
                    \A v \in Workers : Collected(requests[v])'
  BY DEF ErasureInv
<1>1. ErasuresAlone
  BY DEF ErasuresAlone
<1>2. \A v \in Workers : requests[v].op \notin {"eraseUser", "eraseOrg"}
  <2> SUFFICES ASSUME NEW v \in Workers, requests[v].op \in {"eraseUser", "eraseOrg"}
               PROVE  FALSE
    OBVIOUS
  <2>1. requests[v].op \in alone
    BY <1>1 DEF ErasuresAlone
  <2>2. v # w
    OBVIOUS
  <2>3. requests[w] = Idle
    BY <2>1, <2>2 DEF IInv, AloneIsAlone
  <2> QED
    BY <2>3, IdleIsRequest
<1>3. NothingOutlivesItsOwner'
  BY <1>1 DEF IInv, ErasureInv, NothingOutlivesItsOwner, Remains
<1>4. BlobsHaveRows'
  <2> SUFFICES ASSUME NEW f \in blobs', ~Stored(f)'
               PROVE  \E v \in Workers : Uploading(requests'[v], f)
    BY DEF BlobsHaveRows, Uploading
  <2>1. CASE Uploading(q, f)
    BY <2>1, TurnFacts
  <2>2. CASE f \in blobs /\ ~Stored(f) /\ ~Uploading(requests[w], f)
    <3>1. PICK v \in Workers : Uploading(requests[v], f)
      BY <1>1, <2>2 DEF IInv, ErasureInv, BlobsHaveRows
    <3>2. v # w
      BY <2>2, <3>1
    <3> QED
      BY <3>1, <3>2, TurnFacts
  <2> QED
    BY <2>1, <2>2
<1>5. ASSUME NEW v \in Workers PROVE Collected(requests[v])'
  <2>1. Collected(requests[v])
    BY <1>1 DEF IInv, ErasureInv
  <2>2. /\ requests'[v].op \notin {"eraseUser", "eraseOrg"}
        /\ requests'[v].op \in {"upload", "delete"} =>
              requests[v].op \in {"upload", "delete"} /\ requests'[v].file = requests[v].file
    <3>1. CASE v = w
      BY <1>2, <3>1, TurnFacts, IdleIsRequest DEF Ops
    <3>2. CASE v # w
      BY <1>2, <3>2, TurnFacts
    <3> QED
      BY <3>1, <3>2
  <2> QED
    BY <2>1, <2>2 DEF Collected, Remains
<1> QED
  BY <1>3, <1>4, <1>5

LEMMA RowFacts ==
    ASSUME IInv, NEW f \in Files
    PROVE  /\ rows \in [Files -> Row] /\ rows[f] \in Row /\ rows[f].age \in 0 .. 2
           /\ rows[f].status \in {"unused", "live", "deleted", "gone"}
           /\ f \in blobs => rows[f].status # "deleted"
<1>1. rows \in [Files -> Row]
  BY DEF IInv, TypeOK
<1>2. rows[f] \in Row
  BY <1>1
<1> QED
  BY <1>1, <1>2 DEF Row, IInv, DeletedFilesLeaveNoBytes

LEMMA UploadWriteStep ==
    ASSUME IInv, NEW w \in Workers, UploadWrite(w)
    PROVE  IInv'
<1>2. PICK p \in Request : p = requests[w] /\ Carries(w, p)
  BY RequestFacts
<1> DEFINE s == [p EXCEPT !.stage = "written"]
<1>1. /\ p.op = "upload" /\ p.file \in Files /\ p.user \in Users /\ Turns(w, s)
      /\ blobs' = blobs \cup {p.file} /\ rows[p.file].status = "unused"
      /\ UNCHANGED <<rows, users, orgs, plan, tokens, lock, faults, loop, alone, lost>>
  BY <1>2, RequestFacts DEF UploadWrite, At, Advance, Turns, Carries
<1>3. /\ s \in Request /\ s.op = "upload" /\ s.stage = "written"
      /\ s.user = p.user /\ s.file = p.file /\ s.token = p.token
      /\ s.paths = p.paths /\ s.rows = p.rows
  BY <1>1, <1>2 DEF Request
<1> HIDE DEF s
<1>4. PICK q \in Request : q = s
  BY <1>3
<1>5. Carries(w, q)'
  <2>1. ~Holds(q)
    BY <1>3, <1>4 DEF Holds
  <2>2. \A f \in q.paths : FALSE
    BY <1>1, <1>2, <1>3, <1>4 DEF Carries, MayUnlink
  <2>3. \A f \in q.rows : rows'[f].status # "unused"
    BY <1>1, <1>2, <1>3, <1>4 DEF Carries
  <2> QED
    BY <1>1, <1>3, <1>4, <2>1, <2>2, <2>3, IdleIsRequest DEF Carries, Ops
<1>6. TypeOK'
  BY <1>1, <1>3, TurnFacts DEF IInv, TypeOK
<1>7. Undisturbed(Workers \ {w})
  <2>1. \A f \in Files : Stored(f)' <=> Stored(f)
    BY <1>1 DEF Stored
  <2>2. \A v \in Workers \ {w} :
           /\ requests[v].op = "purge" => \A f \in requests[v].rows : Purged(f)'
           /\ requests[v].op = "delete" =>
                 (rows'[requests[v].file].status = "deleted" =>
                     rows'[requests[v].file].age = 0)
           /\ requests[v].op = "token" => tokens'[requests[v].token].status = "unused"
    BY <1>1, RequestFacts DEF Carries, Purged, Window
  <2> QED
    BY <1>1, <2>1, <2>2 DEF Undisturbed
<1>8. DeletedFilesLeaveNoBytes'
  BY <1>1 DEF IInv, DeletedFilesLeaveNoBytes
<1>9. LiveFilesHaveBytes'
  <2>1. \A f \in Files : ~Removing(requests[w], f)
    BY <1>1, <1>2 DEF Removing
  <2>2. \A f \in Files : Bare(f)' => Bare(f)
    BY <1>1 DEF Bare
  <2> QED
    BY <1>1, <1>3, <2>1, <2>2, LiveStep
<1>10. ErasureInv'
  <2>1. \A f \in Files : f \in blobs' =>
           \/ Stored(f)' \/ Uploading(q, f)
           \/ f \in blobs /\ ~Stored(f) /\ ~Uploading(requests[w], f)
    BY <1>1, <1>2, <1>3, <1>4 DEF Uploading, Stored
  <2>2. ErasuresAlone => Remains(p.file)
    BY <1>1, <1>2 DEF IInv, ErasureInv, Collected
  <2>3. ErasuresAlone => \A f \in Files :
           Stored(f)' \/ f \in blobs' => Stored(f) \/ f \in blobs \/ Remains(f)
    BY <1>1, <2>2 DEF Stored
  <2>4. blobs' \subseteq Files
    BY <1>6 DEF TypeOK
  <2> QED
    BY <1>1, <1>2, <1>3, <1>4, <2>1, <2>3, <2>4, IdleIsRequest, ErasureStep DEF Ops
<1>11. TokensInv'
  <2>1. \A t \in Tokens : Downloading(t)' \subseteq Downloading(t)
    BY <1>1, <1>2, <1>3, TurnDownloads
  <2> QED
    BY <1>1, <2>1, TokensKept
<1> QED
  BY <1>1, <1>2, <1>3, <1>4, <1>5, <1>6, <1>7, <1>8, <1>9, <1>10, <1>11, IdleIsRequest,
     TableStep DEF Ops

LEMMA UploadCommitStep ==
    ASSUME IInv, NEW w \in Workers, UploadCommit(w)
    PROVE  IInv'
<1>2. PICK p \in Request : p = requests[w] /\ Carries(w, p)
  BY RequestFacts
<1>1. /\ p.op = "upload" /\ p.stage = "flushed" /\ p.file \in Files
      /\ Finish(w) /\ lock = w
      /\ rows' = [rows EXCEPT ![p.file].status = "live"]
      /\ rows[p.file].status = "unused" /\ p.file \in blobs
      /\ UNCHANGED <<blobs, users, orgs, plan, tokens, faults, loop, alone, lost>>
  BY <1>2, RequestFacts DEF UploadCommit, At, Carries, Holds
<1>3. /\ rows' \in [Files -> Row] /\ rows'[p.file].status = "live"
      /\ \A f \in Files \ {p.file} : rows'[f] = rows[f]
  BY <1>1, RowFacts DEF Row
<1>4. Turns(w, Idle) /\ lock' \in Workers \cup {None} /\ Idle \in Request
  BY <1>1, FinishFacts, IdleIsRequest
<1>5. Carries(w, Idle)'
  BY IdleCarries
<1>6. TypeOK'
  BY <1>1, <1>3, <1>4, TurnFacts DEF IInv, TypeOK
<1>7. Undisturbed(Workers \ {w})
  <2>1. ASSUME NEW v \in Workers \ {w}
        PROVE  /\ requests[v].op = "purge" => \A f \in requests[v].rows : Purged(f)'
               /\ requests[v].op = "delete" =>
                     (rows'[requests[v].file].status = "deleted" =>
                         rows'[requests[v].file].age = 0)
               /\ requests[v].op = "token" => tokens'[requests[v].token].status = "unused"
               /\ ~(requests[v].op = "upload" /\ requests[v].file = p.file)
               /\ lock # v
    <3>1. PICK q \in Request : q = requests[v] /\ Carries(v, q)
      BY RequestFacts
    <3>2. /\ \A f \in q.rows : f \in Files /\ f # p.file
          /\ q.op = "delete" => q.file \in Files /\ q.file # p.file
      BY <1>1, <3>1, RequestFacts DEF Carries
    <3>3. q.op = "purge" => \A f \in q.rows : Purged(f)'
      BY <1>1, <1>3, <3>1, <3>2 DEF Carries, Purged, Window
    <3>4. q.op = "delete" => (rows'[q.file].status = "deleted" => rows'[q.file].age = 0)
      BY <1>3, <3>1, <3>2 DEF Carries
    <3>5. q.op = "token" => tokens'[q.token].status = "unused"
      BY <1>1, <3>1 DEF Carries
    <3>6. ~(q.op = "upload" /\ q.file = p.file) /\ lock # v
      BY <1>1, <1>2, <3>1 DEF IInv, RequestsDiffer
    <3> QED
      BY <3>1, <3>3, <3>4, <3>5, <3>6
  <2>2. \A f \in Files : rows'[f] = rows[f] \/ f = p.file
    BY <1>3
  <2> QED
    BY <1>1, <1>3, <2>1, <2>2 DEF Undisturbed
<1>8. DeletedFilesLeaveNoBytes'
  BY <1>1, <1>3 DEF IInv, DeletedFilesLeaveNoBytes
<1>9. LiveFilesHaveBytes'
  <2>1. \A f \in Files : ~Removing(requests[w], f)
    BY <1>1, <1>2 DEF Removing
  <2>2. \A f \in Files : Bare(f)' => Bare(f)
    BY <1>1, <1>3 DEF Bare
  <2> QED
    BY <1>1, <1>4, <2>1, <2>2, LiveStep
<1>10. ErasureInv'
  <2>1. \A f \in Files : f \in blobs' =>
           \/ Stored(f)' \/ Uploading(Idle, f)
           \/ f \in blobs /\ ~Stored(f) /\ ~Uploading(requests[w], f)
    BY <1>1, <1>2, <1>3 DEF Uploading, Stored
  <2>2. \A f \in Files : Stored(f)' \/ f \in blobs' => Stored(f) \/ f \in blobs
    BY <1>1, <1>3 DEF Stored
  <2>4. blobs' \subseteq Files
    BY <1>6 DEF TypeOK
  <2> QED
    BY <1>1, <1>2, <1>4, <2>1, <2>2, <2>4, IdleIsRequest, ErasureStep DEF Ops
<1>11. TokensInv'
  <2>1. \A t \in Tokens : Downloading(t)' \subseteq Downloading(t)
    BY <1>4, TurnDownloads
  <2> QED
    BY <1>1, <2>1, TokensKept
<1> QED
  BY <1>1, <1>2, <1>4, <1>5, <1>6, <1>7, <1>8, <1>9, <1>10, <1>11, IdleIsRequest,
     TableStep DEF Ops

LEMMA DeleteCommitStep ==
    ASSUME IInv, NEW w \in Workers, DeleteCommit(w)
    PROVE  IInv'
<1>2. PICK p \in Request : p = requests[w] /\ Carries(w, p)
  BY RequestFacts
<1>1. /\ p.op = "delete" /\ p.file \in Files /\ Finish(w) /\ lock = w
      /\ rows' = [rows EXCEPT ![p.file] = [status |-> "deleted", age |-> 0]]
      /\ Stored(p.file) /\ p.file \notin blobs
      /\ rows[p.file].status = "deleted" => rows[p.file].age = 0
      /\ UNCHANGED <<blobs, users, orgs, plan, tokens, faults, loop, alone, lost>>
  BY <1>2, RequestFacts DEF DeleteCommit, UnlinkedAll, Carries, Holds
<1>3. /\ rows' \in [Files -> Row]
      /\ rows'[p.file].status = "deleted" /\ rows'[p.file].age = 0
      /\ \A f \in Files \ {p.file} : rows'[f] = rows[f]
  BY <1>1, RowFacts DEF Row
<1>4. Turns(w, Idle) /\ lock' \in Workers \cup {None} /\ Idle \in Request
  BY <1>1, FinishFacts, IdleIsRequest
<1>5. Carries(w, Idle)'
  BY IdleCarries
<1>6. TypeOK'
  BY <1>1, <1>3, <1>4, TurnFacts DEF IInv, TypeOK
<1>12. \A f \in Files : Stored(f)' <=> Stored(f)
  BY <1>1, <1>3 DEF Stored
<1>7. Undisturbed(Workers \ {w})
  <2>1. ASSUME NEW v \in Workers \ {w}
        PROVE  /\ requests[v].op = "purge" => \A f \in requests[v].rows : Purged(f)'
               /\ requests[v].op = "delete" =>
                     (rows'[requests[v].file].status = "deleted" =>
                         rows'[requests[v].file].age = 0)
               /\ requests[v].op = "token" => tokens'[requests[v].token].status = "unused"
               /\ lock # v
    <3>1. PICK q \in Request : q = requests[v] /\ Carries(v, q)
      BY RequestFacts
    <3>2. q.rows \subseteq Files /\ (q.op = "delete" => q.file \in Files)
      BY <3>1, RequestFacts
    <3>3. q.op = "purge" => \A f \in q.rows : Purged(f) /\ f # p.file
      BY <1>1, <3>1, <3>2, RowFacts DEF Carries, Purged, Stored
    <3>4. q.op = "purge" => \A f \in q.rows : Purged(f)'
      BY <1>1, <1>3, <3>2, <3>3 DEF Purged, Window
    <3>5. q.op = "delete" => (rows'[q.file].status = "deleted" => rows'[q.file].age = 0)
      BY <1>3, <3>1, <3>2 DEF Carries
    <3>6. q.op = "token" => tokens'[q.token].status = "unused"
      BY <1>1, <3>1 DEF Carries
    <3> QED
      BY <1>1, <3>1, <3>4, <3>5, <3>6
  <2>2. \A f \in Files : rows'[f] = rows[f] \/ f = p.file
    BY <1>3
  <2> QED
    BY <1>1, <1>3, <2>1, <2>2 DEF Undisturbed, Stored
<1>8. DeletedFilesLeaveNoBytes'
  BY <1>1, <1>3 DEF IInv, DeletedFilesLeaveNoBytes
<1>9. LiveFilesHaveBytes'
  <2>1. \A f \in Files : Removing(requests[w], f) => f = p.file
    BY <1>1, <1>2 DEF Removing
  <2>2. \A f \in Files : Bare(f)' => Bare(f) /\ f # p.file
    BY <1>1, <1>3 DEF Bare
  <2> QED
    BY <1>1, <1>4, <2>1, <2>2, LiveStep
<1>10. ErasureInv'
  <2>1. \A f \in Files : f \in blobs' =>
           \/ Stored(f)' \/ Uploading(Idle, f)
           \/ f \in blobs /\ ~Stored(f) /\ ~Uploading(requests[w], f)
    BY <1>1, <1>2, <1>12 DEF Uploading
  <2>4. blobs' \subseteq Files
    BY <1>6 DEF TypeOK
  <2> QED
    BY <1>1, <1>2, <1>4, <1>12, <2>1, <2>4, IdleIsRequest, ErasureStep DEF Ops
<1>11. TokensInv'
  <2>1. \A t \in Tokens : Downloading(t)' \subseteq Downloading(t)
    BY <1>4, TurnDownloads
  <2> QED
    BY <1>1, <2>1, TokensKept
<1> QED
  BY <1>1, <1>2, <1>4, <1>5, <1>6, <1>7, <1>8, <1>9, <1>10, <1>11, IdleIsRequest,
     TableStep DEF Ops

\* While erasures are alone, the others rest while one is in flight.
LEMMA ErasureIsAlone ==
    ASSUME IInv, ErasuresAlone, NEW w \in Workers,
           requests[w].op \in {"eraseUser", "eraseOrg"}
    PROVE  /\ \A v \in Workers \ {w} : requests[v] = Idle
           /\ \A f \in blobs : f \in Files /\ Stored(f)
<1>1. requests[w].op \in alone
  BY DEF ErasuresAlone
<1>2. \A v \in Workers \ {w} : requests[v] = Idle
  BY <1>1 DEF IInv, AloneIsAlone
<1>3. \A v \in Workers : requests[v].op # "upload"
  BY <1>2, IdleIsRequest DEF Ops
<1>4. blobs \subseteq Files /\ BlobsHaveRows
  BY DEF IInv, TypeOK, ErasureInv
<1> QED
  BY <1>2, <1>3, <1>4 DEF BlobsHaveRows, Uploading

LEMMA UnlinkStep ==
    ASSUME IInv, NEW w \in Workers, NEW f \in Files, Unlink(w, f)
    PROVE  IInv'
<1>2. PICK p \in Request : p = requests[w] /\ Carries(w, p)
  BY RequestFacts
<1> DEFINE s == [p EXCEPT !.paths = p.paths \ {f}]
<1>1. /\ p.stage = "unlinking" /\ f \in p.paths /\ Turns(w, s)
      /\ blobs' = blobs \ {f} /\ rows[f].status # "unused" /\ MayUnlink(p, f)
      /\ UNCHANGED <<rows, users, orgs, plan, tokens, lock, faults, loop, alone, lost>>
  BY <1>2 DEF Unlink, Turns, Carries
<1>3. /\ s \in Request /\ s.op = p.op /\ s.stage = "unlinking"
      /\ s.user = p.user /\ s.file = p.file /\ s.token = p.token
      /\ s.paths = p.paths \ {f} /\ s.rows = p.rows
  BY <1>1, <1>2 DEF Request
<1> HIDE DEF s
<1>4. PICK q \in Request : q = s
  BY <1>3
<1>5. Carries(w, q)'
  <2>1. Holds(q) => lock' = w
    BY <1>1, <1>2, <1>3, <1>4 DEF Holds, Carries
  <2>2. \A g \in q.paths : MayUnlink(q, g)'
    BY <1>1, <1>2, <1>3, <1>4 DEF MayUnlink, Carries
  <2>3. \A g \in q.paths \cup q.rows : rows'[g].status # "unused"
    BY <1>1, <1>2, <1>3, <1>4 DEF Carries
  <2>4. q.op = "purge" => \A g \in q.rows : Purged(g)'
    BY <1>1, <1>2, <1>3, <1>4 DEF Carries, Purged, Window
  <2>5. q.op = "delete" =>
          /\ rows'[q.file].status # "unused"
          /\ rows'[q.file].status = "deleted" => rows'[q.file].age = 0
          /\ Stored(q.file)' /\ (q.file \in q.paths \/ q.file \notin blobs')
    BY <1>1, <1>2, <1>3, <1>4 DEF Carries, Stored
  <2>6. q.op # "upload"
    BY <1>1, <1>3, <1>4 DEF MayUnlink
  <2>7. (q.op = "eraseOrg" /\ q.stage = "unlinking") => q.rows = FilesIn(OrgOf[q.user])'
    BY <1>1, <1>2, <1>3, <1>4 DEF Carries, FilesIn, Stored
  <2>8. /\ q.op = "token" => tokens'[q.token].status = "unused"
        /\ q.op = "download" => tokens'[q.token].status # "unused"
        /\ q.op = None => q = Idle
        /\ q.op \notin {None, "purge"} => q.user \in Users
        /\ q.op \in {"upload", "delete", "token", "download"} => q.file \in Files
        /\ q.op \in {"token", "download"} => q.token \in Tokens
    BY <1>1, <1>2, <1>3, <1>4, IdleIsRequest DEF Carries
  <2> QED
    BY <1>3, <1>4, <2>1, <2>2, <2>3, <2>4, <2>5, <2>6, <2>7, <2>8 DEF Carries
<1>6. TypeOK'
  BY <1>1, <1>3, TurnFacts DEF IInv, TypeOK
<1>7. Undisturbed(Workers \ {w})
  <2>1. \A g \in Files : Stored(g)' <=> Stored(g)
    BY <1>1 DEF Stored
  <2>2. \A v \in Workers \ {w} :
           /\ requests[v].op = "purge" => \A g \in requests[v].rows : Purged(g)'
           /\ requests[v].op = "delete" =>
                 (rows'[requests[v].file].status = "deleted" =>
                     rows'[requests[v].file].age = 0)
           /\ requests[v].op = "token" => tokens'[requests[v].token].status = "unused"
    BY <1>1, RequestFacts DEF Carries, Purged, Window
  <2> QED
    BY <1>1, <2>1, <2>2 DEF Undisturbed
<1>8. DeletedFilesLeaveNoBytes'
  BY <1>1 DEF IInv, DeletedFilesLeaveNoBytes
<1>9. LiveFilesHaveBytes'
  <2>1. \A g \in Files : Removing(requests[w], g) <=> Removing(q, g)
    BY <1>1, <1>2, <1>3, <1>4 DEF Removing
  <2>2. rows[f].status = "live" => Removing(q, f)
    BY <1>1, <1>3, <1>4 DEF Removing, MayUnlink
  <2>3. \A g \in Files : Bare(g)' => Removing(q, g) \/ (Bare(g) /\ ~Removing(requests[w], g))
    BY <1>1, <2>1, <2>2 DEF Bare
  <2> QED
    BY <1>1, <1>3, <1>4, <2>3, LiveStep
<1>10. ErasureInv'
  <2>1. CASE p.op \in {"eraseUser", "eraseOrg"}
    <3> SUFFICES ASSUME ErasuresAlone'
                 PROVE  NothingOutlivesItsOwner' /\ BlobsHaveRows' /\
                        \A v \in Workers : Collected(requests[v])'
      BY DEF ErasureInv
    <3>1. ErasuresAlone
      BY <1>1 DEF ErasuresAlone
    <3>2. /\ \A v \in Workers \ {w} : requests[v] = Idle
          /\ \A g \in blobs : g \in Files /\ Stored(g)
      BY <1>2, <2>1, <3>1, ErasureIsAlone
    <3>3. NothingOutlivesItsOwner'
      BY <1>1, <3>1 DEF IInv, ErasureInv, NothingOutlivesItsOwner, Remains, Stored
    <3>4. BlobsHaveRows'
      BY <1>1, <3>2 DEF BlobsHaveRows, Stored
    <3>5. ASSUME NEW v \in Workers PROVE Collected(requests[v])'
      <4>1. CASE v = w
        <5>1. Collected(p)
          BY <1>2, <3>1 DEF IInv, ErasureInv
        <5>2. requests'[v] = q
          BY <1>1, <1>3, <1>4, <4>1, TurnFacts
        <5> QED
          BY <1>1, <1>3, <1>4, <2>1, <5>1, <5>2 DEF Collected, FilesOf, FilesIn, Stored
      <4>2. CASE v # w
        <5>1. requests'[v].op = None
          BY <1>1, <1>3, <3>2, <4>2, TurnFacts, IdleIsRequest
        <5> QED
          BY <5>1, IdleIsRequest DEF Collected, Ops
      <4> QED
        BY <4>1, <4>2
    <3> QED
      BY <3>3, <3>4, <3>5
  <2>2. CASE p.op \notin {"eraseUser", "eraseOrg"}
    <3>1. \A g \in Files : g \in blobs' =>
             \/ Stored(g)' \/ Uploading(q, g)
             \/ g \in blobs /\ ~Stored(g) /\ ~Uploading(requests[w], g)
      BY <1>1, <1>2 DEF Uploading, Stored
    <3>2. \A g \in Files : Stored(g)' \/ g \in blobs' => Stored(g) \/ g \in blobs
      BY <1>1 DEF Stored
    <3>3. p.op # None
      BY <1>1, IdleIsRequest DEF MayUnlink, Ops
    <3>4. blobs' \subseteq Files
      BY <1>6 DEF TypeOK
    <3>5. /\ requests[w].op \notin {None, "eraseUser", "eraseOrg"}
          /\ q.op = requests[w].op /\ q.file = requests[w].file
      BY <1>2, <1>3, <1>4, <2>2, <3>3
    <3> QED
      BY <1>1, <1>4, <3>1, <3>2, <3>4, <3>5, ErasureStep
  <2> QED
    BY <2>1, <2>2
<1>11. TokensInv'
  <2>1. \A t \in Tokens : Downloading(t)' \subseteq Downloading(t)
    BY <1>1, <1>2, <1>3, TurnDownloads
  <2> QED
    BY <1>1, <2>1, TokensKept
<1>12. requests[w].op # None
  BY <1>1, <1>2, IdleIsRequest DEF MayUnlink, Ops
<1> QED
  BY <1>1, <1>2, <1>3, <1>4, <1>5, <1>6, <1>7, <1>8, <1>9, <1>10, <1>11, <1>12, TableStep

\* A request that leaves files, users and tenants alone.
LEMMA TokensStep ==
    ASSUME IInv, NEW w \in Workers, Finish(w),
           requests[w].op \in {"token", "download"},
           UNCHANGED <<rows, blobs, users, orgs, plan, faults, loop, alone, lost>>,
           tokens' \in [Tokens -> Token], TokensInv',
           \A t \in Tokens : tokens[t].status # "unused" => tokens'[t].status # "unused",
           \A v \in Workers \ {w} : requests[v].op = "token" =>
              tokens'[requests[v].token].status = "unused"
    PROVE  IInv'
<1>1. /\ Turns(w, Idle) /\ lock' \in Workers \cup {None} /\ Idle \in Request
      /\ \A v \in Workers \ {w} : lock = v => lock' = v
  BY FinishFacts, IdleIsRequest
<1>2. TypeOK'
  BY <1>1, TurnFacts DEF IInv, TypeOK
<1>3. Undisturbed(Workers \ {w})
  <2>1. \A f \in Files : Stored(f)' <=> Stored(f)
    BY DEF Stored
  <2>2. \A v \in Workers \ {w} :
           /\ requests[v].op = "purge" => \A f \in requests[v].rows : Purged(f)'
           /\ requests[v].op = "delete" =>
                 (rows'[requests[v].file].status = "deleted" =>
                     rows'[requests[v].file].age = 0)
    BY RequestFacts DEF Carries, Purged, Window
  <2> QED
    BY <1>1, <2>1, <2>2 DEF Undisturbed
<1>4. /\ requests[w].op \notin {None, "eraseUser", "eraseOrg"}
      /\ \A f \in Files : ~Removing(requests[w], f) /\ ~Uploading(requests[w], f)
  BY IdleIsRequest DEF Removing, Uploading, Ops
<1>5. DeletedFilesLeaveNoBytes' /\ LiveFilesHaveBytes' /\ ErasureInv'
  <2>1. Collected(Idle)
    BY IdleIsRequest DEF Collected, Ops
  <2> QED
    BY <1>1, <1>4, <2>1, AsideKeeps
<1> QED
  BY <1>1, <1>2, <1>3, <1>4, <1>5, IdleCarries, TableStep

LEMMA TokenCommitStep ==
    ASSUME IInv, NEW w \in Workers, TokenCommit(w)
    PROVE  IInv'
<1>2. PICK p \in Request : p = requests[w] /\ Carries(w, p)
  BY RequestFacts
<1> DEFINE t == p.token
<1>1. /\ p.op = "token" /\ t \in Tokens /\ p.file \in Files /\ Finish(w)
      /\ tokens[t].status = "unused"
      /\ tokens' = [tokens EXCEPT ![t] = [tokens[t] EXCEPT !.status = "valid", !.file = p.file]]
      /\ UNCHANGED <<rows, blobs, users, orgs, plan, faults, loop, alone, lost>>
  BY <1>2, RequestFacts DEF TokenCommit, At, Carries
<1> HIDE DEF t
<1>3. /\ tokens' \in [Tokens -> Token] /\ tokens'[t].status = "valid"
      /\ tokens'[t].file = p.file /\ tokens'[t].uses = tokens[t].uses
      /\ \A u \in Tokens \ {t} : tokens'[u] = tokens[u]
  BY <1>1, TokenTypes DEF Token
<1>4. \A v \in Workers \ {w} : requests[v].op = "token" =>
         tokens'[requests[v].token].status = "unused"
  <2> SUFFICES ASSUME NEW v \in Workers \ {w}, requests[v].op = "token"
               PROVE  tokens'[requests[v].token].status = "unused"
    OBVIOUS
  <2>1. tokens[requests[v].token].status = "unused" /\ requests[v].token \in Tokens
    BY RequestFacts DEF Carries
  <2>2. requests[v].token # t
    BY <1>1, <1>2 DEF IInv, RequestsDiffer, t
  <2> QED
    BY <1>3, <2>1, <2>2
<1>5. TokensInv'
  <2>1. \A u \in Tokens : Downloading(u)' \subseteq Downloading(u)
    BY <1>1, FinishFacts, IdleIsRequest, TurnDownloads
  <2> SUFFICES ASSUME NEW u \in Tokens
               PROVE  /\ tokens'[u].status = "unused" => tokens'[u].file = None
                      /\ tokens'[u].status \in {"unused", "valid"} => tokens'[u].uses = 0
                      /\ tokens'[u].status = "valid" => tokens'[u].file \in Files
                      /\ tokens'[u].uses + Cardinality(Downloading(u)') <= Cardinality(Workers)
                      /\ "download" \in alone =>
                            /\ tokens'[u].uses <= 1
                            /\ \A v \in Downloading(u)' : tokens'[u].uses = 0
    BY <1>1 DEF TokensInv
  <2>2. tokens'[u].uses = tokens[u].uses
    BY <1>3
  <2>3. tokens[u].uses + Cardinality(Downloading(u)') <= Cardinality(Workers)
    BY <2>1, TokenTypes, DownloadingFacts, DownloadingShrinks
  <2>4. "download" \in alone => /\ tokens[u].uses <= 1
                                /\ \A v \in Downloading(u)' : tokens[u].uses = 0
    BY <2>1 DEF IInv, TokensInv
  <2>5. /\ tokens'[u].status = "unused" => tokens'[u].file = None
        /\ tokens'[u].status \in {"unused", "valid"} => tokens[u].uses = 0
        /\ tokens'[u].status = "valid" => tokens'[u].file \in Files
    BY <1>1, <1>3 DEF IInv, TokensInv
  <2> QED
    BY <2>2, <2>3, <2>4, <2>5
<1>6. \A u \in Tokens : tokens[u].status # "unused" => tokens'[u].status # "unused"
  BY <1>1, <1>3
<1> QED
  BY <1>1, <1>2, <1>3, <1>4, <1>5, <1>6, TokensStep

LEMMA DownloadCommitStep ==
    ASSUME IInv, NEW w \in Workers, DownloadCommit(w)
    PROVE  IInv'
<1>2. PICK p \in Request : p = requests[w] /\ Carries(w, p)
  BY RequestFacts
<1>9. PICK t \in Tokens : t = p.token /\ p.op = "download"
  BY <1>2, RequestFacts DEF DownloadCommit, At
<1>1. /\ Finish(w) /\ tokens[t].status # "unused"
      /\ tokens' = [tokens EXCEPT ![t] = [[tokens[t] EXCEPT !.status = "used"]
                                             EXCEPT !.uses = tokens[t].uses + 1]]
      /\ UNCHANGED <<rows, blobs, users, orgs, plan, faults, loop, alone, lost>>
  BY <1>2, <1>9 DEF DownloadCommit, At, Carries, Spent
<1>3. /\ tokens \in [Tokens -> Token] /\ tokens[t] \in Token /\ tokens[t].uses \in Nat
      /\ tokens[t].uses + Cardinality(Downloading(t)) <= Cardinality(Workers)
  BY TokenTypes
<1>4. /\ w \in Downloading(t) /\ Downloading(t)' = Downloading(t) \ {w}
      /\ \A u \in Tokens \ {t} : Downloading(u)' \subseteq Downloading(u)
  <2>1. /\ requests'[w].op = None
        /\ \A v \in Workers \ {w} : requests'[v] = requests[v]
    BY <1>1, FinishFacts, IdleIsRequest, TurnFacts
  <2> QED
    BY <1>2, <1>9, <2>1, IdleIsRequest DEF Downloading, Ops
<1>5. /\ Cardinality(Downloading(t)') = Cardinality(Downloading(t)) - 1
      /\ Cardinality(Downloading(t)) \in Nat /\ Cardinality(Downloading(t)) >= 1
      /\ Cardinality(Workers) \in Nat
  <2>1. IsFiniteSet(Downloading(t)) /\ Cardinality(Workers) \in Nat
    BY DownloadingFacts
  <2>2. PICK D : D = Downloading(t)
    OBVIOUS
  <2>3. /\ Cardinality(D \ {w}) = Cardinality(D) - 1 /\ Cardinality(D) \in Nat
        /\ Cardinality(D \ {w}) \in Nat
    BY <1>4, <2>1, <2>2, FS_RemoveElement, FS_CardinalityType
  <2> QED
    BY <1>4, <2>1, <2>2, <2>3
<1>6. tokens[t].uses + 1 \in 0 .. Cardinality(Workers)
  BY <1>3, <1>5
<1>7. /\ tokens' \in [Tokens -> Token] /\ tokens'[t].status = "used"
      /\ tokens'[t].file = tokens[t].file /\ tokens'[t].uses = tokens[t].uses + 1
      /\ \A u \in Tokens \ {t} : tokens'[u] = tokens[u]
  BY <1>1, <1>3, <1>6 DEF Token
<1>8. TokensInv'
  <2> SUFFICES ASSUME NEW u \in Tokens
               PROVE  /\ tokens'[u].status = "unused" => tokens'[u].file = None
                      /\ tokens'[u].status \in {"unused", "valid"} => tokens'[u].uses = 0
                      /\ tokens'[u].status = "valid" => tokens'[u].file \in Files
                      /\ tokens'[u].uses + Cardinality(Downloading(u)') <= Cardinality(Workers)
                      /\ "download" \in alone =>
                            /\ tokens'[u].uses <= 1
                            /\ \A v \in Downloading(u)' : tokens'[u].uses = 0
    BY <1>1 DEF TokensInv
  <2>1. CASE u = t
    <3>1. tokens'[u].uses + Cardinality(Downloading(u)') <= Cardinality(Workers)
      BY <1>3, <1>5, <1>7, <2>1
    <3>2. "download" \in alone => tokens'[u].uses <= 1 /\ Downloading(u)' = {}
      <4> SUFFICES ASSUME "download" \in alone
                   PROVE  tokens'[u].uses <= 1 /\ Downloading(u)' = {}
        OBVIOUS
      <4>1. tokens[t].uses = 0
        BY <1>4 DEF IInv, TokensInv
      <4>2. \A v \in Workers \ {w} : requests[v] = Idle
        BY <1>2, <1>9 DEF IInv, AloneIsAlone
      <4>3. Downloading(t) = {w}
        BY <1>4, <4>2, IdleIsRequest DEF Downloading, Ops
      <4> QED
        BY <1>4, <1>7, <2>1, <4>1, <4>3
    <3>3. tokens'[u].status = "used"
      BY <1>7, <2>1
    <3> QED
      BY <3>1, <3>2, <3>3
  <2>2. CASE u # t
    <3>1. tokens'[u] = tokens[u] /\ Downloading(u)' \subseteq Downloading(u)
      BY <1>4, <1>7, <2>2
    <3>2. tokens'[u].uses + Cardinality(Downloading(u)') <= Cardinality(Workers)
      BY <3>1, TokenTypes, DownloadingFacts, DownloadingShrinks
    <3> QED
      BY <3>1, <3>2 DEF IInv, TokensInv
  <2> QED
    BY <2>1, <2>2
<1>10. \A v \in Workers \ {w} : requests[v].op = "token" =>
          tokens'[requests[v].token].status = "unused"
  <2> SUFFICES ASSUME NEW v \in Workers \ {w}, requests[v].op = "token"
               PROVE  tokens'[requests[v].token].status = "unused"
    OBVIOUS
  <2>1. tokens[requests[v].token].status = "unused" /\ requests[v].token \in Tokens
    BY RequestFacts DEF Carries
  <2> QED
    BY <1>1, <1>7, <2>1
<1>11. \A u \in Tokens : tokens[u].status # "unused" => tokens'[u].status # "unused"
  BY <1>7
<1> QED
  BY <1>1, <1>2, <1>7, <1>8, <1>9, <1>10, <1>11, TokensStep

LEMMA RemovedFacts ==
    ASSUME IInv, NEW removed \in SUBSET Files, RowsRemoved(removed)
    PROVE  /\ rows' \in [Files -> Row]
           /\ \A f \in removed : rows'[f].status = "gone"
           /\ \A f \in Files \ removed : rows'[f] = rows[f]
           /\ \A f \in Files : Stored(f)' <=> Stored(f) /\ f \notin removed
<1>1. rows \in [Files -> Row] /\ [status |-> "gone", age |-> 0] \in Row
  BY DEF IInv, TypeOK, Row
<1>2. /\ rows' \in [Files -> Row]
      /\ \A f \in removed : rows'[f].status = "gone"
      /\ \A f \in Files \ removed : rows'[f] = rows[f]
  BY <1>1 DEF RowsRemoved
<1> QED
  BY <1>2 DEF Stored

LEMMA RemovedTokens ==
    ASSUME IInv, alone' = alone, NEW w \in Workers, Turns(w, Idle),
           NEW removed \in SUBSET Files, TokensRemoved(removed) \/ UNCHANGED tokens
    PROVE  /\ tokens' \in [Tokens -> Token] /\ TokensInv'
           /\ \A t \in Tokens : tokens'[t].status = "unused" <=> tokens[t].status = "unused"
<1>1. tokens \in [Tokens -> Token]
  BY DEF IInv, TypeOK
<1>2. ASSUME NEW t \in Tokens
      PROVE  /\ tokens'[t] \in Token
             /\ tokens'[t].uses = tokens[t].uses /\ tokens'[t].file = tokens[t].file
             /\ tokens'[t].status = tokens[t].status \/ tokens'[t].status = "gone"
             /\ tokens[t].status = "unused" => tokens'[t].status = "unused"
  <2>1. tokens[t] \in Token /\ (tokens[t].status = "unused" => tokens[t].file \notin removed)
    BY <1>1, FilesAssumption DEF IInv, TokensInv
  <2>2. \/ tokens'[t] = tokens[t]
        \/ /\ tokens'[t] = [tokens[t] EXCEPT !.status = "gone"]
           /\ tokens[t].file \in removed
    BY DEF TokensRemoved
  <2> QED
    BY <2>1, <2>2 DEF Token
<1>3. tokens' \in [Tokens -> Token]
  <2>1. CASE UNCHANGED tokens
    BY <1>1, <2>1
  <2>2. CASE TokensRemoved(removed)
    BY <1>2, <2>2 DEF TokensRemoved
  <2> QED
    BY <2>1, <2>2
<1>4. \A t \in Tokens : Downloading(t)' \subseteq Downloading(t)
  BY IdleIsRequest, TurnDownloads
<1>5. TokensInv'
  BY <1>2, <1>4, TokensKept
<1> QED
  BY <1>2, <1>3, <1>5

\* The commit of an erasure or a purge.
LEMMA RemovalStep ==
    ASSUME IInv, NEW w \in Workers, Finish(w), requests[w].op # None,
           NEW removed \in SUBSET Files, RowsRemoved(removed),
           TokensRemoved(removed) \/ UNCHANGED tokens,
           \A f \in removed : rows[f].status # "unused",
           lock = w \/ removed = {},
           \A f \in Files : Removing(requests[w], f) /\ Stored(f) => f \in removed,
           UNCHANGED <<blobs, plan, faults, loop, alone, lost>>,
           users' \subseteq Users, orgs' \subseteq Orgs, ErasureInv'
    PROVE  IInv'
<1>1. /\ Turns(w, Idle) /\ lock' \in Workers \cup {None} /\ Idle \in Request
      /\ \A v \in Workers \ {w} : lock = v => lock' = v
  BY FinishFacts, IdleIsRequest
<1>2. /\ tokens' \in [Tokens -> Token] /\ TokensInv'
      /\ \A t \in Tokens : tokens'[t].status = "unused" <=> tokens[t].status = "unused"
  BY <1>1, RemovedTokens
<1>3. /\ rows' \in [Files -> Row]
      /\ \A f \in removed : rows'[f].status = "gone"
      /\ \A f \in Files \ removed : rows'[f] = rows[f]
      /\ \A f \in Files : Stored(f)' <=> Stored(f) /\ f \notin removed
  BY RemovedFacts
<1>4. TypeOK'
  BY <1>1, <1>2, <1>3, TurnFacts DEF IInv, TypeOK
<1>5. Undisturbed(Workers \ {w})
  <2>1. ASSUME NEW v \in Workers \ {w}
        PROVE  /\ requests[v].op = "purge" => \A f \in requests[v].rows : Purged(f)'
               /\ requests[v].op = "delete" =>
                     (rows'[requests[v].file].status = "deleted" =>
                         rows'[requests[v].file].age = 0)
               /\ requests[v].op = "token" => tokens'[requests[v].token].status = "unused"
               /\ lock = v => lock' = v /\ \A f \in Files : Stored(f)' <=> Stored(f)
    <3>1. PICK q \in Request : q = requests[v] /\ Carries(v, q)
      BY RequestFacts
    <3>2. /\ q.rows \subseteq Files /\ (q.op = "delete" => q.file \in Files)
          /\ q.op = "token" => q.token \in Tokens
      BY <3>1, RequestFacts
    <3>3. q.op = "purge" => \A f \in q.rows : Purged(f)'
      BY <1>3, <3>1, <3>2 DEF Carries, Purged, Window
    <3>4. q.op = "delete" => (rows'[q.file].status = "deleted" => rows'[q.file].age = 0)
      BY <1>3, <3>1, <3>2 DEF Carries
    <3>5. q.op = "token" => tokens'[q.token].status = "unused"
      BY <1>2, <3>1, <3>2 DEF Carries
    <3>6. lock = v => lock' = v /\ \A f \in Files : Stored(f)' <=> Stored(f)
      BY <1>1, <1>3
    <3> QED
      BY <3>1, <3>3, <3>4, <3>5, <3>6
  <2>2. \A f \in Files :
           /\ rows[f].status # "unused" => rows'[f].status # "unused"
           /\ rows[f].status = "unused" => rows'[f].status = "unused"
           /\ rows[f].status \notin {"live", "unused"} =>
                 rows'[f].status \notin {"live", "unused"}
    BY <1>3
  <2> QED
    BY <1>2, <2>1, <2>2 DEF Undisturbed
<1>6. DeletedFilesLeaveNoBytes'
  BY <1>3 DEF IInv, DeletedFilesLeaveNoBytes
<1>7. LiveFilesHaveBytes'
  <2>1. \A f \in Files : Bare(f)' => Bare(f) /\ ~Removing(requests[w], f)
    BY <1>3 DEF Stored, Bare
  <2> QED
    BY <1>1, <2>1, LiveStep
<1> QED
  BY <1>1, <1>2, <1>4, <1>5, <1>6, <1>7, IdleCarries, TableStep

\* The commit of an erasure, with what it has collected and unlinked.
LEMMA EraseStep ==
    ASSUME IInv, NEW w \in Workers, Finish(w),
           requests[w].op \in {"eraseUser", "eraseOrg"},
           NEW removed \in SUBSET Files, RowsRemoved(removed),
           \A f \in Files : Remains(f) /\ ~Remains(f)' /\ Stored(f) => f \in removed,
           ErasuresAlone => \A f \in removed : f \notin blobs,
           UNCHANGED <<blobs, faults, alone>>
    PROVE  ErasureInv'
<1> SUFFICES ASSUME ErasuresAlone'
             PROVE  NothingOutlivesItsOwner' /\ BlobsHaveRows' /\
                    \A v \in Workers : Collected(requests[v])'
  BY DEF ErasureInv
<1>1. ErasuresAlone
  BY DEF ErasuresAlone
<1>2. /\ \A v \in Workers \ {w} : requests[v] = Idle
      /\ \A f \in blobs : f \in Files /\ Stored(f)
  BY <1>1, ErasureIsAlone
<1>3. \A f \in Files : Stored(f)' <=> Stored(f) /\ f \notin removed
  BY RemovedFacts
<1>4. NothingOutlivesItsOwner'
  <2> SUFFICES ASSUME NEW f \in Files, ~Remains(f)'
               PROVE  ~Stored(f)' /\ f \notin blobs
    BY DEF NothingOutlivesItsOwner
  <2>1. CASE Remains(f)
    BY <1>1, <1>2, <1>3, <2>1
  <2>2. CASE ~Remains(f)
    BY <1>1, <1>3, <2>2 DEF IInv, ErasureInv, NothingOutlivesItsOwner
  <2> QED
    BY <2>1, <2>2
<1>5. \A f \in blobs' : Stored(f)'
  BY <1>1, <1>2, <1>3
<1>6. BlobsHaveRows'
  BY <1>5 DEF BlobsHaveRows
<1>7. \A v \in Workers : Collected(requests[v])'
  <2>1. \A v \in Workers : requests'[v] = Idle
    BY <1>2, FinishFacts, IdleIsRequest, TurnFacts
  <2> QED
    BY <2>1, IdleIsRequest DEF Collected, Ops
<1> QED
  BY <1>4, <1>6, <1>7

LEMMA EraseUserCommitStep ==
    ASSUME IInv, NEW w \in Workers, EraseUserCommit(w)
    PROVE  IInv'
<1>2. PICK p \in Request : p = requests[w] /\ Carries(w, p)
  BY RequestFacts
<1>1. /\ p.op = "eraseUser" /\ p.user \in Users /\ Finish(w) /\ lock = w
      /\ p.rows \in SUBSET Files /\ p.rows = FilesOf(p.user) /\ p.paths = {}
      /\ RowsRemoved(p.rows) /\ TokensRemoved(p.rows) /\ users' = users \ {p.user}
      /\ UNCHANGED <<blobs, orgs, plan, faults, loop, alone, lost>>
  BY <1>2, RequestFacts DEF EraseUserCommit, At, Carries, Holds
<1>3. /\ \A f \in p.rows : rows[f].status # "unused"
      /\ \A f \in Files : f \in p.rows <=> Stored(f) /\ OwnerOf[f] = p.user
  BY <1>1 DEF FilesOf, Stored
<1>4. users' \subseteq Users /\ orgs' \subseteq Orgs
  BY <1>1 DEF IInv, TypeOK
<1>5. \A f \in Files : Removing(requests[w], f) /\ Stored(f) => f \in p.rows
  BY <1>1, <1>2, <1>3 DEF Removing
<1>6. ErasureInv'
  <2>1. \A f \in Files : Remains(f) /\ ~Remains(f)' /\ Stored(f) => f \in p.rows
    BY <1>1, <1>3 DEF Remains
  <2>2. ErasuresAlone => \A f \in p.rows : f \notin blobs
    <3>1. ErasuresAlone => Collected(p)
      BY <1>2 DEF IInv, ErasureInv
    <3> QED
      BY <1>1, <3>1 DEF Collected
  <2> QED
    BY <1>1, <1>2, <2>1, <2>2, EraseStep
<1>7. requests[w].op # None
  BY <1>1, <1>2, IdleIsRequest DEF Ops
<1> QED
  BY <1>1, <1>3, <1>4, <1>5, <1>6, <1>7, RemovalStep

LEMMA EraseOrgCommitStep ==
    ASSUME IInv, NEW w \in Workers, EraseOrgCommit(w)
    PROVE  IInv'
<1>2. PICK p \in Request : p = requests[w] /\ Carries(w, p)
  BY RequestFacts
<1>1. /\ p.op = "eraseOrg" /\ p.user \in Users /\ Finish(w) /\ lock = w
      /\ p.rows \in SUBSET Files /\ p.rows = FilesIn(OrgOf[p.user]) /\ p.paths = {}
      /\ RowsRemoved(p.rows) /\ TokensRemoved(p.rows) /\ orgs' = orgs \ {OrgOf[p.user]}
      /\ UNCHANGED <<blobs, users, plan, faults, loop, alone, lost>>
  BY <1>2, RequestFacts DEF EraseOrgCommit, UnlinkedAll, Carries, Holds
<1>3. /\ \A f \in p.rows : rows[f].status # "unused"
      /\ \A f \in Files : f \in p.rows <=> Stored(f) /\ OrgOf[OwnerOf[f]] = OrgOf[p.user]
  BY <1>1 DEF FilesIn, Stored
<1>4. users' \subseteq Users /\ orgs' \subseteq Orgs
  BY <1>1 DEF IInv, TypeOK
<1>5. \A f \in Files : Removing(requests[w], f) /\ Stored(f) => f \in p.rows
  BY <1>1, <1>2, <1>3 DEF Removing
<1>6. ErasureInv'
  <2>1. \A f \in Files : Remains(f) /\ ~Remains(f)' /\ Stored(f) => f \in p.rows
    BY <1>1, <1>3 DEF Remains
  <2>2. ErasuresAlone => \A f \in p.rows : f \notin blobs
    <3>1. ErasuresAlone => Collected(p)
      BY <1>2 DEF IInv, ErasureInv
    <3> QED
      BY <1>1, <3>1 DEF Collected
  <2> QED
    BY <1>1, <1>2, <2>1, <2>2, EraseStep
<1>7. requests[w].op # None
  BY <1>1, <1>2, IdleIsRequest DEF Ops
<1> QED
  BY <1>1, <1>3, <1>4, <1>5, <1>6, <1>7, RemovalStep

LEMMA PurgeCommitStep ==
    ASSUME IInv, NEW w \in Workers, PurgeCommit(w)
    PROVE  IInv'
<1>2. PICK p \in Request : p = requests[w] /\ Carries(w, p)
  BY RequestFacts
<1>1. /\ p.op = "purge" /\ Finish(w) /\ (lock = w \/ p.rows = {})
      /\ p.rows \in SUBSET Files /\ RowsRemoved(p.rows)
      /\ UNCHANGED <<blobs, users, orgs, plan, tokens, faults, loop, alone, lost>>
  BY <1>2, RequestFacts DEF PurgeCommit, UnlinkedAll, Carries, Holds
<1>3. \A f \in p.rows : rows[f].status # "unused" /\ Purged(f)
  BY <1>1, <1>2 DEF Carries
<1>4. users' \subseteq Users /\ orgs' \subseteq Orgs /\ blobs' \subseteq Files
  BY <1>1 DEF IInv, TypeOK
<1>5. \A f \in Files : ~Removing(requests[w], f) /\ ~Uploading(requests[w], f)
  BY <1>1, <1>2 DEF Removing, Uploading
<1>6. ErasureInv'
  <2>1. \A f \in Files : Stored(f)' <=> Stored(f) /\ f \notin p.rows
    BY <1>1, RemovedFacts
  <2>2. \A f \in p.rows : f \in blobs => ~Stored(f)
    BY <1>1, <1>3, RowFacts DEF Purged, Stored
  <2>3. \A f \in Files : f \in blobs' =>
           \/ Stored(f)' \/ Uploading(Idle, f)
           \/ f \in blobs /\ ~Stored(f) /\ ~Uploading(requests[w], f)
    BY <1>1, <1>5, <2>1, <2>2
  <2>4. requests[w].op \notin {None, "eraseUser", "eraseOrg"}
    BY <1>1, <1>2, IdleIsRequest DEF Ops
  <2>5. Turns(w, Idle) /\ Idle \in Request
    BY <1>1, FinishFacts, IdleIsRequest
  <2> QED
    BY <1>1, <1>4, <2>1, <2>3, <2>4, <2>5, ErasureStep
<1>7. requests[w].op # None
  BY <1>1, <1>2, IdleIsRequest DEF Ops
<1> QED
  BY <1>1, <1>3, <1>4, <1>5, <1>6, <1>7, RemovalStep

-----------------------------------------------------------------------------
(* Steps of no request.                                                    *)

LEMMA PassingStep ==
    ASSUME IInv, UNCHANGED <<blobs, users, orgs, lock, requests, faults, loop, alone, lost>>,
           \A f \in Files : rows'[f].status = rows[f].status,
           Undisturbed(Workers), TypeOK', TokensInv'
    PROVE  IInv'
<1>1. RequestsCarry'
  BY CarryOthers DEF RequestsCarry
<1>2. RequestsDiffer' /\ AloneIsAlone'
  BY DEF IInv, RequestsDiffer, AloneIsAlone
<1>3. DeletedFilesLeaveNoBytes'
  BY DEF IInv, DeletedFilesLeaveNoBytes
<1>4. LiveFilesHaveBytes'
  <2>1. \A f \in Files : /\ Bare(f)' <=> Bare(f)
                         /\ \A w \in Workers : Removes(w, f)' <=> Removes(w, f)
    BY DEF Removes, At, Bare
  <2> QED
    BY <2>1 DEF IInv, LiveFilesHaveBytes
<1>5. ErasureInv'
  <2>1. \A f \in Files : (Stored(f)' <=> Stored(f)) /\ (Remains(f)' <=> Remains(f))
    BY DEF Stored, Remains
  <2>2. ErasuresAlone' <=> ErasuresAlone
    BY DEF ErasuresAlone
  <2>3. NothingOutlivesItsOwner => NothingOutlivesItsOwner'
    BY <2>1 DEF NothingOutlivesItsOwner
  <2>4. BlobsHaveRows => BlobsHaveRows'
    BY <2>1 DEF BlobsHaveRows, Uploading, IInv, TypeOK
  <2>5. \A w \in Workers : Collected(requests[w]) => Collected(requests[w])'
    <3> SUFFICES ASSUME NEW w \in Workers, Collected(requests[w])
                 PROVE  Collected(requests[w])'
      OBVIOUS
    <3> QED
      BY <2>1, RequestFacts DEF Collected, FilesOf, FilesIn
  <2> QED
    BY <2>2, <2>3, <2>4, <2>5 DEF IInv, ErasureInv
<1> QED
  BY <1>1, <1>2, <1>3, <1>4, <1>5 DEF IInv

LEMMA ExpireStep ==
    ASSUME IInv, NEW t \in Tokens, Expire(t)
    PROVE  IInv'
<1>1. /\ tokens[t].status = "valid" /\ tokens' = [tokens EXCEPT ![t].status = "used"]
      /\ UNCHANGED <<rows, blobs, users, orgs, plan, lock, requests, faults, loop, alone, lost>>
  BY DEF Expire
<1>2. /\ tokens' \in [Tokens -> Token] /\ tokens'[t].status = "used"
      /\ tokens'[t].uses = tokens[t].uses /\ tokens'[t].file = tokens[t].file
      /\ \A u \in Tokens \ {t} : tokens'[u] = tokens[u]
  BY <1>1, TokenTypes DEF Token
<1>3. TokensInv'
  <2>1. \A u \in Tokens : Downloading(u)' \subseteq Downloading(u)
    BY <1>1 DEF Downloading
  <2>2. \A u \in Tokens :
           /\ tokens'[u].uses = tokens[u].uses /\ tokens'[u].file = tokens[u].file
           /\ tokens'[u].status \in {"unused", "valid"} =>
                 tokens'[u].status = tokens[u].status
    BY <1>2
  <2> QED
    BY <1>1, <2>1, <2>2, TokensKept
<1>4. Undisturbed(Workers)
  <2>1. \A f \in Files : Stored(f)' <=> Stored(f)
    BY <1>1 DEF Stored
  <2>2. \A v \in Workers :
           /\ requests[v].op = "purge" => \A f \in requests[v].rows : Purged(f)'
           /\ requests[v].op = "delete" =>
                 (rows'[requests[v].file].status = "deleted" =>
                     rows'[requests[v].file].age = 0)
           /\ requests[v].op = "token" => tokens'[requests[v].token].status = "unused"
    BY <1>1, <1>2, RequestFacts DEF Carries, Purged, Window
  <2> QED
    BY <1>1, <1>2, <2>1, <2>2 DEF Undisturbed
<1>5. TypeOK'
  BY <1>1, <1>2 DEF IInv, TypeOK
<1> QED
  BY <1>1, <1>3, <1>4, <1>5, PassingStep

LEMMA AgeStep ==
    ASSUME IInv, NEW f \in Files, Age(f)
    PROVE  IInv'
<1>1. /\ rows[f].status = "deleted" /\ rows[f].age < 2
      /\ \A w \in Workers : requests[w].file # f
      /\ rows' = [rows EXCEPT ![f].age = rows[f].age + 1]
      /\ UNCHANGED <<blobs, users, orgs, plan, tokens, lock, requests, faults, loop, alone, lost>>
  BY DEF Age
<1>2. rows \in [Files -> Row] /\ rows[f] \in Row /\ rows[f].age \in 0 .. 2
  BY RowFacts
<1>3. rows[f].age + 1 \in 0 .. 2
  BY <1>1, <1>2
<1>4. /\ rows' \in [Files -> Row] /\ rows'[f].status = rows[f].status
      /\ rows'[f].age = rows[f].age + 1
      /\ \A g \in Files \ {f} : rows'[g] = rows[g]
  BY <1>1, <1>2, <1>3 DEF Row
<1>5. \A g \in Files : rows'[g].status = rows[g].status
  BY <1>4
<1>6. TokensInv'
  BY <1>1 DEF IInv, TokensInv, Downloading
<1>7. Undisturbed(Workers)
  <2>1. \A g \in Files : Stored(g)' <=> Stored(g)
    BY <1>5 DEF Stored
  <2>2. \A o \in Orgs : Window(o)' = Window(o) /\ Window(o) \in {1, 2}
    BY <1>1 DEF Window
  <2>3. \A g \in Files : Purged(g) => Purged(g)'
    <3> SUFFICES ASSUME NEW g \in Files, Purged(g) PROVE Purged(g)'
      OBVIOUS
    <3>1. CASE g # f
      <4>1. rows'[g] = rows[g]
        BY <1>4, <3>1
      <4> QED
        BY <1>1, <4>1 DEF Purged, Window
    <3>2. CASE g = f
      <4>1. OrgOf[OwnerOf[f]] \in Orgs
        BY FilesAssumption
      <4>2. PICK n \in {1, 2} : n = Window(OrgOf[OwnerOf[f]]) /\ n = Window(OrgOf[OwnerOf[f]])'
        BY <2>2, <4>1
      <4>3. rows[f].age >= 1 /\ ("changePlan" \in alone => rows[f].age >= n)
        BY <1>1, <3>2, <4>2 DEF Purged
      <4>4. rows'[f].age >= 1 /\ ("changePlan" \in alone => rows'[f].age >= n)
        BY <1>2, <1>4, <4>3
      <4> QED
        BY <1>1, <1>5, <3>2, <4>2, <4>4 DEF Purged
    <3> QED
      BY <3>1, <3>2
  <2>4. \A v \in Workers :
           /\ requests[v].op = "purge" => \A g \in requests[v].rows : Purged(g)'
           /\ requests[v].op = "delete" =>
                 (rows'[requests[v].file].status = "deleted" =>
                     rows'[requests[v].file].age = 0)
           /\ requests[v].op = "token" => tokens'[requests[v].token].status = "unused"
    <3> SUFFICES ASSUME NEW v \in Workers
                 PROVE  /\ requests[v].op = "purge" =>
                              \A g \in requests[v].rows : Purged(g)'
                        /\ requests[v].op = "delete" =>
                              (rows'[requests[v].file].status = "deleted" =>
                                  rows'[requests[v].file].age = 0)
                        /\ requests[v].op = "token" =>
                              tokens'[requests[v].token].status = "unused"
      OBVIOUS
    <3>1. PICK q \in Request : q = requests[v] /\ Carries(v, q)
      BY RequestFacts
    <3>2. /\ q.rows \subseteq Files /\ (q.op = "delete" => q.file \in Files \ {f})
      BY <1>1, <3>1, RequestFacts
    <3>3. q.op = "purge" => \A g \in q.rows : Purged(g)'
      BY <2>3, <3>1, <3>2 DEF Carries
    <3>4. q.op = "delete" => (rows'[q.file].status = "deleted" => rows'[q.file].age = 0)
      BY <1>4, <3>1, <3>2 DEF Carries
    <3>5. q.op = "token" => tokens'[q.token].status = "unused"
      BY <1>1, <3>1 DEF Carries
    <3> QED
      BY <3>1, <3>3, <3>4, <3>5
  <2> QED
    BY <1>1, <1>5, <2>1, <2>4 DEF Undisturbed
<1>8. TypeOK'
  BY <1>1, <1>4 DEF IInv, TypeOK
<1> QED
  BY <1>1, <1>5, <1>6, <1>7, <1>8, PassingStep

LEMMA ChangePlanStep ==
    ASSUME IInv, NEW o \in Orgs, ChangePlan(o)
    PROVE  IInv'
<1>1. /\ "changePlan" \in alone => \A w \in Workers : requests[w] = Idle
      /\ plan' = [plan EXCEPT ![o] = IF plan[o] = "free" THEN "paid" ELSE "free"]
      /\ UNCHANGED <<rows, blobs, users, orgs, tokens, lock, requests, faults, loop, alone, lost>>
  BY DEF ChangePlan
<1>2. TypeOK'
  BY <1>1 DEF IInv, TypeOK
<1>3. TokensInv'
  BY <1>1 DEF IInv, TokensInv, Downloading
<1>4. Undisturbed(Workers)
  <2>1. \A f \in Files : Stored(f)' <=> Stored(f)
    BY <1>1 DEF Stored
  <2>2. ASSUME NEW v \in Workers, requests[v].op = "purge", NEW f \in requests[v].rows
        PROVE  Purged(f)'
    <3>1. "changePlan" \notin alone
      BY <1>1, <2>2, IdleIsRequest DEF Ops
    <3>2. Purged(f)
      BY <2>2, RequestFacts DEF Carries
    <3> QED
      BY <1>1, <3>1, <3>2 DEF Purged
  <2>3. \A v \in Workers :
           /\ requests[v].op = "delete" =>
                 (rows'[requests[v].file].status = "deleted" =>
                     rows'[requests[v].file].age = 0)
           /\ requests[v].op = "token" => tokens'[requests[v].token].status = "unused"
    BY <1>1, RequestFacts DEF Carries
  <2> QED
    BY <1>1, <2>1, <2>2, <2>3 DEF Undisturbed
<1> QED
  BY <1>1, <1>2, <1>3, <1>4, PassingStep

-----------------------------------------------------------------------------
(* The invariant.                                                          *)

LEMMA InitIInv == Init => IInv
<1> SUFFICES ASSUME Init PROVE IInv
  OBVIOUS
<1>1. /\ \A f \in Files : rows[f].status = "unused"
      /\ \A w \in Workers : requests[w] = Idle
      /\ \A t \in Tokens : /\ tokens[t].status = "unused" /\ tokens[t].file = None
                           /\ tokens[t].uses = 0
      /\ blobs = {} /\ faults = 0 /\ lost = {}
  BY DEF Init
<1>2. TypeOK
  <2>1. 0 \in 0 .. Cardinality(Workers) /\ 0 \in 0 .. MaxFaults
    BY FilesAssumption, FS_CardinalityType
  <2>2. rows \in [Files -> Row]
    BY DEF Init, Row
  <2>3. tokens \in [Tokens -> Token]
    BY <2>1 DEF Init, Token
  <2>4. requests \in [Workers -> Request]
    BY IdleIsRequest DEF Init
  <2> QED
    BY <2>1, <2>2, <2>3, <2>4 DEF Init, TypeOK
<1>3. RequestsCarry
  BY <1>1, IdleIsRequest DEF RequestsCarry
<1>4. RequestsDiffer /\ AloneIsAlone
  BY <1>1, IdleIsRequest DEF RequestsDiffer, AloneIsAlone, Ops
<1>5. DeletedFilesLeaveNoBytes /\ LiveFilesHaveBytes
  BY <1>1 DEF DeletedFilesLeaveNoBytes, LiveFilesHaveBytes, Bare
<1>6. ErasureInv
  <2>1. \A f \in Files : OwnerOf[f] \in Users /\ OrgOf[OwnerOf[f]] \in Orgs
    BY FilesAssumption
  <2>2. NothingOutlivesItsOwner /\ BlobsHaveRows
    BY <1>1, <2>1 DEF Init, NothingOutlivesItsOwner, BlobsHaveRows, Remains
  <2>3. \A w \in Workers : Collected(requests[w])
    BY <1>1, IdleIsRequest DEF Collected, Ops
  <2> QED
    BY <2>2, <2>3 DEF ErasureInv
<1>7. TokensInv
  <2> SUFFICES ASSUME NEW t \in Tokens
               PROVE  /\ Downloading(t) = {}
                      /\ tokens[t].uses + Cardinality(Downloading(t)) <= Cardinality(Workers)
    BY <1>1 DEF TokensInv
  <2>1. Downloading(t) = {}
    BY <1>1, IdleIsRequest DEF Downloading, Ops
  <2> QED
    BY <1>1, <2>1, FilesAssumption, FS_EmptySet, FS_CardinalityType
<1> QED
  BY <1>2, <1>3, <1>4, <1>5, <1>6, <1>7 DEF IInv

LEMMA StartKeeps ==
    ASSUME IInv, NEW w \in Workers, Start(w)
    PROVE  IInv'
<1>1. ASSUME NEW u \in Users, PurgeTenant(w, u) PROVE IInv'
  <2>1. {OrgOf[u]} \in SUBSET Orgs
    BY FilesAssumption
  <2> QED
    BY <1>1, <2>1, PurgeStartStep DEF PurgeTenant
<1> QED
  BY <1>1, UploadStartStep, DeleteStartStep, TokenStartStep, DownloadStartStep,
     EraseUserStartStep, EraseOrgStartStep DEF Start

LEMMA ContinueKeeps ==
    ASSUME IInv, NEW w \in Workers, Continue(w)
    PROVE  IInv'
  BY UploadWriteStep, UploadFlushStep, UploadCommitStep, DeleteFlushStep,
     DeleteCommitStep, TokenCommitStep, DownloadReadStep, DownloadFlushStep,
     DownloadCommitStep, EraseUserFlushStep, EraseUserCommitStep, EraseOrgFlushStep,
     EraseOrgCommitStep, PurgeSelectStep, PurgeFlushStep, PurgeCommitStep, UnlinkStep,
     FailStep DEF Continue

LEMMA StutterStep == ASSUME IInv, UNCHANGED vars PROVE IInv'
<1>1. UNCHANGED <<rows, blobs, users, orgs, plan, tokens, lock, requests, faults, loop, alone, lost>>
  BY DEF vars
<1>2. TypeOK' /\ TokensInv'
  BY <1>1 DEF IInv, TypeOK, TokensInv, Downloading
<1>3. Undisturbed(Workers)
  <2>1. \A f \in Files : Stored(f)' <=> Stored(f)
    BY <1>1 DEF Stored
  <2>2. \A v \in Workers :
           /\ requests[v].op = "purge" => \A f \in requests[v].rows : Purged(f)'
           /\ requests[v].op = "delete" =>
                 (rows'[requests[v].file].status = "deleted" =>
                     rows'[requests[v].file].age = 0)
           /\ requests[v].op = "token" => tokens'[requests[v].token].status = "unused"
    BY <1>1, RequestFacts DEF Carries, Purged, Window
  <2> QED
    BY <1>1, <2>1, <2>2 DEF Undisturbed
<1> QED
  BY <1>1, <1>2, <1>3, PassingStep

LEMMA NextIInv == IInv /\ [Next]_vars => IInv'
<1> SUFFICES ASSUME IInv, [Next]_vars PROVE IInv'
  OBVIOUS
<1>1. ASSUME NEW w \in Workers, Start(w) \/ Continue(w) \/ Abort(w) PROVE IInv'
  BY <1>1, StartKeeps, ContinueKeeps, AbortStep
<1>2. ASSUME PurgeAll PROVE IInv'
  <2>1. System \in Workers /\ orgs \in SUBSET Orgs
    BY FilesAssumption DEF IInv, TypeOK
  <2> QED
    BY <1>2, <2>1, PurgeStartStep DEF PurgeAll
<1> QED
  BY <1>1, <1>2, ExpireStep, AgeStep, ChangePlanStep, StutterStep DEF Next

LEMMA Invariance == Spec => []IInv
  BY InitIInv, NextIInv, PTL DEF Spec

-----------------------------------------------------------------------------
(* The theorems.                                                           *)

\* A deleted file leaves no bytes on the disk, however uploads, deletions,
\* downloads, erasures, purges and aborts interleave; and a file that can be
\* listed has its blob, or a request that deletes its row is in flight, or such
\* a request was aborted after it had unlinked the blob.
THEOREM RowsAndBytesStayTogether == Spec => []RowsAndBytesAgree
<1>1. IInv => RowsAndBytesAgree
  BY DEF IInv, RowsAndBytesAgree
<1> QED
  BY <1>1, Invariance, PTL

\* Where erasures overlap nothing and no request is aborted, neither a row nor
\* a blob of an erased user or tenant remains.
THEOREM ErasuresAreComplete == Spec => []ErasureIsComplete
<1>1. IInv => ErasureIsComplete
  BY DEF IInv, ErasureInv, ErasuresAlone, ErasureIsComplete
<1> QED
  BY <1>1, Invariance, PTL

\* Where downloads overlap nothing, a token serves one download at most.
THEOREM TokensServeOnce == Spec => []TokensAreUsedOnce
<1>1. IInv => TokensAreUsedOnce
  BY DEF IInv, TokensInv, TokensAreUsedOnce
<1> QED
  BY <1>1, Invariance, PTL

\* The steps that remove rows.
LEMMA Removals ==
    ASSUME IInv, [Next]_vars, NEW f \in Files, Stored(f), rows'[f].status = "gone"
    PROVE  \E w \in Workers : /\ f \in requests[w].rows
                              /\ EraseUserCommit(w) \/ EraseOrgCommit(w) \/ PurgeCommit(w)
<1>1. rows \in [Files -> Row] /\ rows[f] \in Row
  BY RowFacts
<1>2. rows[f].status # "gone" /\ rows'[f] # rows[f]
  BY DEF Stored
<1>3. rows' # rows
  BY <1>2
<1>4. ASSUME NEW w \in Workers, UploadCommit(w) PROVE FALSE
  BY <1>1, <1>2, <1>4 DEF UploadCommit, Row
<1>5. ASSUME NEW w \in Workers, DeleteCommit(w) PROVE FALSE
  BY <1>1, <1>2, <1>5 DEF DeleteCommit
<1>6. ASSUME NEW g \in Files, Age(g) PROVE FALSE
  BY <1>1, <1>2, <1>6 DEF Age, Row
<1>7. ASSUME NEW w \in Workers, Start(w) PROVE FALSE
  BY <1>3, <1>7 DEF Start, UploadStart, DeleteStart, TokenStart, DownloadStart,
     EraseUserStart, EraseOrgStart, PurgeTenant, PurgeStart
<1>8. ASSUME NEW w \in Workers, Continue(w)
      PROVE  EraseUserCommit(w) \/ EraseOrgCommit(w) \/ PurgeCommit(w)
  BY <1>3, <1>4, <1>5, <1>8 DEF Continue, UploadWrite, UploadFlush, DeleteFlush,
     TokenCommit, DownloadRead, DownloadFlush, DownloadCommit, EraseUserFlush,
     EraseOrgFlush, PurgeSelect, PurgeFlush, Unlink, Fail
<1>9. PICK w \in Workers : EraseUserCommit(w) \/ EraseOrgCommit(w) \/ PurgeCommit(w)
  BY <1>3, <1>6, <1>7, <1>8 DEF Next, Abort, PurgeAll, PurgeStart, Expire, ChangePlan, vars
<1>10. RowsRemoved(requests[w].rows)
  BY <1>9 DEF EraseUserCommit, EraseOrgCommit, PurgeCommit
<1>11. f \in requests[w].rows
  BY <1>2, <1>10 DEF RowsRemoved
<1> QED
  BY <1>9, <1>11

\* Where plans do not change during a purge, no row of a user and a tenant that
\* still exist is removed before the tenant's own window has passed since its
\* deletion, whoever else's rows the same purge removes.
THEOREM PurgesKeepTheWindow == Spec => RetentionRespected
<1> DEFINE Respected ==
       "changePlan" \in alone =>
          \A f \in Files :
             Stored(f) /\ rows'[f].status = "gone" /\ Remains(f)' =>
                rows[f].status = "deleted" /\ rows[f].age >= Window(OrgOf[OwnerOf[f]])
<1>1. IInv /\ [Next]_vars => [Respected]_vars
  <2> SUFFICES ASSUME IInv, [Next]_vars, "changePlan" \in alone, NEW f \in Files,
                      Stored(f), rows'[f].status = "gone", Remains(f)'
               PROVE  rows[f].status = "deleted" /\ rows[f].age >= Window(OrgOf[OwnerOf[f]])
    OBVIOUS
  <2>1. PICK w \in Workers : /\ f \in requests[w].rows
                             /\ EraseUserCommit(w) \/ EraseOrgCommit(w) \/ PurgeCommit(w)
    BY Removals
  <2>2. PICK p \in Request : p = requests[w] /\ Carries(w, p)
    BY RequestFacts
  <2>3. ~EraseUserCommit(w)
    <3> SUFFICES ASSUME EraseUserCommit(w) PROVE FALSE
      OBVIOUS
    <3>1. p.rows = FilesOf(p.user) /\ users' = users \ {p.user}
      BY <2>2 DEF EraseUserCommit, At, Carries
    <3> QED
      BY <2>1, <2>2, <3>1 DEF FilesOf, Remains
  <2>4. ~EraseOrgCommit(w)
    <3> SUFFICES ASSUME EraseOrgCommit(w) PROVE FALSE
      OBVIOUS
    <3>1. p.rows = FilesIn(OrgOf[p.user]) /\ orgs' = orgs \ {OrgOf[p.user]}
      BY <2>2 DEF EraseOrgCommit, UnlinkedAll, Carries
    <3> QED
      BY <2>1, <2>2, <3>1 DEF FilesIn, Remains
  <2>5. p.op = "purge"
    BY <2>1, <2>2, <2>3, <2>4 DEF PurgeCommit
  <2>6. Purged(f)
    BY <2>1, <2>2, <2>5 DEF Carries
  <2> QED
    BY <2>6 DEF Purged, Stored
<1>2. Spec => [][Respected]_vars
  BY <1>1, Invariance, PTL DEF Spec
<1> QED
  BY <1>2 DEF RetentionRespected

=============================================================================
