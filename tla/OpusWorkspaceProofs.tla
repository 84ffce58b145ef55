------------------------ MODULE OpusWorkspaceProofs -------------------------
(***************************************************************************)
(* Theorems of OpusWorkspace, for every set of users, requests and plans,  *)
(* every price and every number of seats, and every bound: members fit     *)
(* their plan, checks hold until the commit, every period is billed once   *)
(* and upgrades charge no more than a period, and tenants with members     *)
(* stay.                                                                   *)
(***************************************************************************)
EXTENDS OpusWorkspace, FiniteSetTheorems, SequenceTheorems, WellFoundedInduction, TLAPS

-----------------------------------------------------------------------------
(* The inductive invariant.                                                *)

\* A request reads and writes under the lock from Meter, or from the deletion
\* of a user, to the end of its session.
HoldsLock(w) == requests[w].stage \in {"locked", "written"} => lock = w

\* A row of subscriptions that covers one period, when n have been invoiced.
Covers(s, n) ==
    /\ s \in Subscription
    /\ s.end = s.start + Period
    /\ s.end <= MaxTime + (n + 1) * Period

\* What a change of plan is about to commit: the members have their seats, the
\* period is the same, and an upgrade in it is charged the difference at most.
PlanReady(q) ==
    /\ tenant # None /\ Len(invoices) < MaxInvoices
    /\ Covers(q.sub, Len(invoices))
    /\ Cardinality(Members) <= q.sub.seats /\ q.sub.seats <= MaxSeats[q.sub.plan]
    /\ sub # NoSubscription => q.sub.start = sub.start /\ q.sub.end = sub.end
    /\ q.invoice # NoInvoice =>
          /\ q.invoice.kind = "proration" /\ q.invoice.until = q.sub.end
          /\ (Monthly(Ensured) <= Monthly(q.sub) /\ q.invoice.from >= q.sub.start)
                => q.invoice.amount <= Monthly(q.sub) - Monthly(Ensured)

\* What the billing of a period is about to commit: the next period, and the
\* invoice for the one before it.
BillReady(q) ==
    /\ tenant # None /\ Len(invoices) < MaxInvoices
    /\ Covers(q.sub, Len(invoices) + 1)
    /\ sub # NoSubscription => q.sub.start = sub.end
    /\ q.invoice \in Invoice /\ q.invoice.kind = "period"
    /\ q.invoice.until = q.sub.start
    /\ q.invoice.until = q.invoice.from + Period

\* A request that is about to commit has checked what its operation demands,
\* and it still holds.
Prepared(q) ==
    \/ /\ q.op = "invite" /\ q.role \in Roles \ {"owner"}
       /\ q.target \in users \ Members /\ tenant # None /\ SeatIsFree
    \/ q.op = "role" /\ q.role \in Roles \ {"owner"} /\ q.target \in Manageable
    \/ q.op = "remove" /\ q.role = None /\ q.target \in Manageable
    \/ q.op = "plan" /\ q.target = None /\ PlanReady(q)
    \/ q.op = "bill" /\ q.target = None /\ BillReady(q)
    \/ q.op = "eraseOrg" /\ q.target = None /\ q.dooms /\ roles[q.user] = "owner"
    \/ q.op = "eraseUser" /\ q.target = None /\ (q.dooms => Members \subseteq {q.user})

Carries(q) ==
    /\ q.stage # "idle" => q.user \in Users
    /\ q.stage \in {"entered", "locked", "collected"} =>
          q.target = None /\ q.role = None /\ q.invoice = NoInvoice /\ ~q.dooms
    /\ q.stage = "collected" => q.op = "eraseUser"
    /\ q.stage = "written" =>
          /\ Prepared(q)
          /\ q.op # "eraseUser" => Manages(q.user)
          /\ q.dooms => q.op \in {"eraseOrg", "eraseUser"}
          /\ q.invoice # NoInvoice => q.op \in {"plan", "bill"}

RequestsCarry == \A w \in Workers : HoldsLock(w) /\ Carries(requests[w])

\* The row of subscriptions and the invoices are of the periods there were.
BillingInv ==
    /\ sub = NoSubscription => invoices = <<>>
    /\ sub # NoSubscription =>
          /\ Covers(sub, Len(invoices))
          /\ \A i \in DOMAIN invoices : invoices[i].until <= sub.end

IInv ==
    /\ TypeOK /\ IsFiniteSet(Members)
    /\ RequestsCarry
    /\ SeatsWithinPlan
    /\ BillingInv /\ PeriodsBilledOnce /\ UpgradesChargeTheDifference

-----------------------------------------------------------------------------
(* Proration: rounding, and the sum of what has been charged.              *)

LEMMA Quotient ==
    ASSUME NEW n \in Nat, NEW d \in Nat \ {0}
    PROVE  /\ n \div d \in Nat /\ n % d \in 0 .. d - 1
           /\ n = d * (n \div d) + (n % d)
  OBVIOUS

LEMMA TimesLess ==
    ASSUME NEW a \in Int, NEW b \in Int, NEW c \in Nat \ {0}, c * a < c * b
    PROVE  a < b
  OBVIOUS

LEMMA RoundedNear ==
    ASSUME NEW n \in Nat, NEW k \in Nat, NEW d \in Nat \ {0}
    PROVE  /\ Rounded(n, k, d) \in Nat
           /\ 2 * (d * Rounded(n, k, d)) - d <= 2 * (n * k)
           /\ 2 * (n * k) <= 2 * (d * Rounded(n, k, d)) + d
<1> DEFINE m == n * k
           q == m \div d
           r == m % d
<1>1. m \in Nat
  OBVIOUS
<1> HIDE DEF m
<1>2. q \in Nat /\ r \in 0 .. d - 1 /\ m = d * q + r
  BY <1>1, Quotient
<1>3. Rounded(n, k, d) = IF 2 * r > d \/ (2 * r = d /\ q % 2 = 1) THEN q + 1 ELSE q
  BY DEF Rounded, m
<1> HIDE DEF q, r
<1>5. d * q \in Nat /\ d * (q + 1) = d * q + d
  BY <1>2
<1> DEFINE e == d * q
<1>6. e \in Nat /\ m = e + r /\ d * (q + 1) = e + d
  BY <1>2, <1>5
<1>7. CASE Rounded(n, k, d) = q + 1 /\ 2 * r >= d
  <2>1. d * Rounded(n, k, d) = e + d
    BY <1>6, <1>7
  <2> HIDE DEF e
  <2>2. /\ 2 * (e + d) - d <= 2 * m /\ 2 * m <= 2 * (e + d) + d
    BY <1>2, <1>6, <1>7
  <2> QED BY <1>2, <1>7, <2>1, <2>2 DEF m
<1>8. CASE Rounded(n, k, d) = q /\ 2 * r <= d
  <2>1. d * Rounded(n, k, d) = e
    BY <1>8
  <2> HIDE DEF e
  <2>2. /\ 2 * e - d <= 2 * m /\ 2 * m <= 2 * e + d
    BY <1>2, <1>6, <1>8
  <2> QED BY <1>2, <1>8, <2>1, <2>2 DEF m
<1> QED BY <1>2, <1>3, <1>7, <1>8

\* Of amounts of which no more than the whole is due, the roundings grow no
\* faster than the amounts.
LEMMA RoundedGrows ==
    ASSUME NEW a \in Nat, NEW b \in Nat, a <= b,
           NEW k \in Nat, NEW d \in Nat \ {0}, k <= d
    PROVE  Rounded(b, k, d) - Rounded(a, k, d) <= b - a
<1> DEFINE x == Rounded(a, k, d)
           y == Rounded(b, k, d)
           c == b - a
<1>1. /\ x \in Nat /\ 2 * (d * x) - d <= 2 * (a * k) /\ 2 * (a * k) <= 2 * (d * x) + d
      /\ y \in Nat /\ 2 * (d * y) - d <= 2 * (b * k) /\ 2 * (b * k) <= 2 * (d * y) + d
  BY RoundedNear
<1>2. c \in Nat /\ b = a + c
  OBVIOUS
<1>3. CASE a = b
  BY <1>3, <1>1
<1>4. CASE k = d
  <2>1. \A n \in Nat : Rounded(n, d, d) = n
    <3> SUFFICES ASSUME NEW n \in Nat PROVE Rounded(n, d, d) = n
      OBVIOUS
    <3>1. (n * d) \div d = n /\ (n * d) % d = 0
      OBVIOUS
    <3> QED BY <3>1 DEF Rounded
  <2> QED BY <1>4, <2>1
<1>5. CASE c > 0 /\ k < d
  <2> HIDE DEF x, y, c
  <2>1. b * k = a * k + c * k /\ c * k < d * c /\ c * k \in Nat /\ d * c \in Nat
        /\ a * k \in Nat
    BY <1>2, <1>5
  <2>2. d * (y - x) = d * y - d * x /\ d * (c + 1) = d * c + d /\ d * x \in Nat /\ d * y \in Nat
    BY <1>1, <1>2
  <2>3. d * (y - x) < d * (c + 1)
    BY <1>1, <2>1, <2>2
  <2>4. y - x < c + 1
    BY <2>3, <1>1, <1>2, TimesLess
  <2> QED BY <1>1, <1>2, <2>4 DEF x, y, c
<1> QED BY <1>2, <1>3, <1>4, <1>5

LEMMA LeastNatural ==
    ASSUME NEW S \in SUBSET Nat, S # {}
    PROVE  \E m \in S : \A k \in S : m <= k
<1>1. \E m \in S : \A k \in S : ~ (<<k, m>> \in OpToRel(<, Nat))
  BY NatLessThanWellFounded, WFMin
<1>2. ASSUME NEW k \in Nat, NEW m \in Nat, ~ (<<k, m>> \in OpToRel(<, Nat))
      PROVE m <= k
  <2>1. <<k, m>> \in Nat \X Nat /\ <<k,m>>[1] = k /\ <<k,m>>[2] = m
    OBVIOUS
  <2>2. ~ (k < m)
    BY <1>2, <2>1, Zenon DEF OpToRel
  <2> QED BY <2>2
<1> QED
  BY <1>1, <1>2

\* Induction, for a set instead of a predicate.
LEMMA Induction ==
    ASSUME NEW S, 0 \in S, \A n \in Nat : n \in S => n + 1 \in S
    PROVE  \A n \in Nat : n \in S
<1> DEFINE Out == Nat \ S
<1> SUFFICES ASSUME Out # {} PROVE FALSE
  OBVIOUS
<1>1. PICK m \in Out : \A k \in Out : m <= k
  <2> HIDE DEF Out
  <2>1. Out \in SUBSET Nat
    BY DEF Out
  <2> QED
    BY <2>1, LeastNatural
<1>2. m - 1 \in Nat /\ m - 1 \notin Out /\ (m - 1) + 1 = m
  BY <1>1
<1> QED
  BY <1>2

\* The fold of Charges, row by row.
Adds(sums, rows, end) ==
    /\ sums[0] = 0
    /\ \A i \in 1 .. Len(rows) :
          sums[i] = IF Prorates(rows[i], end) THEN sums[i - 1] + rows[i].amount
                    ELSE sums[i - 1]
    /\ Charges(rows, end) = sums[Len(rows)]

LEMMA ChargesAdd ==
    ASSUME NEW rows \in Seq(Invoice), NEW end
    PROVE  \E sums : Adds(sums, rows, end)
<1> DEFINE N == Len(rows)
           op(p, o) == IF Prorates(o, end) THEN p + o.amount ELSE p
           Def(g, t) == IF t = {} THEN 0 ELSE op(g[t \ {Max(t)}], rows[Max(t)])
           Solves(g, n) == g = [t \in SUBSET (1 .. n) |-> Def(g, t)]
<1>1. N \in Nat /\ DOMAIN rows = 1 .. N
  OBVIOUS
<1>3. \A n \in Nat : \A t \in SUBSET (1 .. n) : n \in t => Max(t) = n
  <2> SUFFICES ASSUME NEW n \in Nat, NEW t \in SUBSET (1 .. n), n \in t
               PROVE  Max(t) = n
    OBVIOUS
  <2>1. n \in t /\ \A y \in t : n >= y
    OBVIOUS
  <2>2. Max(t) \in t /\ \A y \in t : Max(t) >= y
    BY <2>1, Zenon DEF Max
  <2>3. Max(t) \in 1 .. n /\ n >= Max(t) /\ Max(t) >= n
    BY <2>1, <2>2
  <2> QED
    BY <2>3
<1>4. Charges(rows, end) = (CHOOSE g : Solves(g, N))[1 .. N]
  BY <1>1, Zenon DEF Charges, FoldLeft, MapThenFoldSet
<1> HIDE DEF op
<1>5. ASSUME NEW n \in 0 .. N - 1, NEW g, Solves(g, n)
      PROVE  \E h : Solves(h, n + 1)
  <2> DEFINE h == [t \in SUBSET (1 .. n + 1) |->
                      IF n + 1 \in t THEN op(g[t \ {n + 1}], rows[n + 1]) ELSE g[t]]
  <2>1. ASSUME NEW t \in SUBSET (1 .. n + 1) PROVE h[t] = Def(h, t)
    <3>1. CASE n + 1 \in t
      <4>1. Max(t) = n + 1
        BY <1>3, <3>1
      <4>2. t \ {n + 1} \in SUBSET (1 .. n)
        OBVIOUS
      <4>3. h[t \ {n + 1}] = g[t \ {n + 1}]
        BY <4>2
      <4> QED BY <3>1, <4>1, <4>3
    <3>2. CASE n + 1 \notin t
      <4>0. ASSUME NEW y \in t PROVE y \in 1 .. n
        <5>1. y \in 1 .. n + 1 /\ y # n + 1
          BY <3>2
        <5> QED
          BY <5>1
      <4>1. t \in SUBSET (1 .. n) /\ t \ {Max(t)} \in SUBSET (1 .. n)
        BY <4>0
      <4>2. g[t] = Def(g, t)
        BY <4>1, <1>5
      <4>3. h[t] = g[t] /\ h[t \ {Max(t)}] = g[t \ {Max(t)}]
        BY <3>2, <4>1
      <4> QED BY <4>2, <4>3
    <3> QED BY <3>1, <3>2
  <2>2. Solves(h, n + 1)
    <3> HIDE DEF Def
    <3> QED BY <2>1
  <2> QED BY <2>2
<1>6. \E g : Solves(g, N)
  <2> DEFINE S == {n \in Nat : n <= N => \E g : Solves(g, n)}
  <2>1. 0 \in S
    <3>1. Solves([t \in SUBSET (1 .. 0) |-> 0], 0)
      OBVIOUS
    <3> QED BY <3>1
  <2> HIDE DEF Solves
  <2>2. ASSUME NEW n \in Nat, n \in S PROVE n + 1 \in S
    BY <1>1, <1>5, <2>2
  <2>3. \A n \in Nat : n \in S
    <3> HIDE DEF S
    <3> QED BY <2>1, <2>2, Induction
  <2> QED BY <1>1, <2>3
<1>7. PICK g : Solves(g, N) /\ Charges(rows, end) = g[1 .. N]
  <2>1. Solves(CHOOSE g : Solves(g, N), N)
    BY <1>6, Zenon
  <2> QED BY <1>4, <2>1
<1> DEFINE sums == [n \in 0 .. N |-> g[1 .. n]]
<1>8. \A t \in SUBSET (1 .. N) : g[t] = Def(g, t)
  BY <1>7
<1>9. sums[0] = 0
  <2>1. 1 .. 0 = {} /\ {} \in SUBSET (1 .. N) /\ 0 \in 0 .. N
    BY <1>1
  <2>2. g[{}] = Def(g, {})
    BY <1>8, <2>1
  <2> QED BY <2>1, <2>2
<1>10. ASSUME NEW i \in 1 .. N PROVE sums[i] = op(sums[i - 1], rows[i])
  <2>1. 1 .. i \in SUBSET (1 .. N) /\ i \in 1 .. i /\ (1 .. i) \ {i} = 1 .. i - 1
    BY <1>1
  <2>2. Max(1 .. i) = i
    BY <1>3, <2>1
  <2>3. g[1 .. i] = op(g[1 .. i - 1], rows[i])
    BY <1>8, <2>1, <2>2
  <2> QED BY <1>1, <2>3
<1>11. Adds(sums, rows, end)
  <2>1. Charges(rows, end) = sums[N]
    BY <1>1, <1>7
  <2> HIDE DEF sums
  <2> QED BY <1>9, <1>10, <2>1 DEF Adds, op
<1> QED BY <1>11

\* What has been charged is a natural number.
LEMMA ChargesType ==
    ASSUME NEW rows \in Seq(Invoice), NEW end
    PROVE  Charges(rows, end) \in Nat
<1>1. PICK sums : Adds(sums, rows, end)
  BY ChargesAdd
<1> DEFINE N == Len(rows)
           S == {n \in Nat : n <= N => sums[n] \in Nat}
<1>2. N \in Nat /\ \A i \in 1 .. N : rows[i] \in Invoice
  OBVIOUS
<1>3. 0 \in S
  BY <1>1 DEF Adds
<1>4. ASSUME NEW n \in Nat, n \in S PROVE n + 1 \in S
  <2> SUFFICES ASSUME n + 1 <= N PROVE sums[n + 1] \in Nat
    OBVIOUS
  <2>1. n + 1 \in 1 .. N /\ (n + 1) - 1 = n /\ sums[n] \in Nat
    BY <1>2, <1>4
  <2>2. rows[n + 1].amount \in Nat
    BY <1>2, <2>1 DEF Invoice
  <2> QED BY <1>1, <1>2, <2>1, <2>2 DEF Adds
<1>5. \A n \in Nat : n \in S
  <2> HIDE DEF S
  <2> QED BY <1>3, <1>4, Induction
<1> QED BY <1>1, <1>2, <1>5 DEF Adds

\* Rows of other periods, and rows that are no prorations, charge nothing.
LEMMA ChargesNothing ==
    ASSUME NEW rows \in Seq(Invoice), NEW end,
           \A i \in DOMAIN rows : ~Prorates(rows[i], end)
    PROVE  Charges(rows, end) = 0
<1>1. PICK sums : Adds(sums, rows, end)
  BY ChargesAdd
<1> DEFINE N == Len(rows)
           S == {n \in Nat : n <= N => sums[n] = 0}
<1>2. N \in Nat /\ DOMAIN rows = 1 .. N
  OBVIOUS
<1>3. 0 \in S
  BY <1>1 DEF Adds
<1>4. ASSUME NEW n \in Nat, n \in S PROVE n + 1 \in S
  <2> SUFFICES ASSUME n + 1 <= N PROVE sums[n + 1] = 0
    OBVIOUS
  <2>1. n + 1 \in 1 .. N /\ (n + 1) - 1 = n /\ sums[n] = 0
    BY <1>2, <1>4
  <2> QED BY <1>1, <1>2, <2>1 DEF Adds
<1>5. \A n \in Nat : n \in S
  <2> HIDE DEF S
  <2> QED BY <1>3, <1>4, Induction
<1> QED BY <1>1, <1>2, <1>5 DEF Adds

\* One more row adds what it charges.
LEMMA ChargesAppend ==
    ASSUME NEW rows \in Seq(Invoice), NEW row \in Invoice, NEW end
    PROVE  /\ Charges(rows, end) \in Nat
           /\ Charges(Append(rows, row), end) =
                 IF Prorates(row, end) THEN Charges(rows, end) + row.amount
                 ELSE Charges(rows, end)
<1> DEFINE N == Len(rows)
           more == Append(rows, row)
<1>1. /\ N \in Nat /\ more \in Seq(Invoice) /\ Len(more) = N + 1 /\ more[N + 1] = row
      /\ \A i \in 1 .. N : more[i] = rows[i] /\ rows[i] \in Invoice
  OBVIOUS
<1> HIDE DEF more
<1>2. PICK sums : Adds(sums, rows, end)
  BY ChargesAdd
<1>3. PICK msums : Adds(msums, more, end)
  BY <1>1, ChargesAdd
<1> DEFINE S == {n \in Nat : n <= N => sums[n] \in Nat /\ msums[n] = sums[n]}
<1>4. 0 \in S
  BY <1>2, <1>3 DEF Adds
<1>5. ASSUME NEW n \in Nat, n \in S PROVE n + 1 \in S
  <2> SUFFICES ASSUME n + 1 <= N
               PROVE  sums[n + 1] \in Nat /\ msums[n + 1] = sums[n + 1]
    OBVIOUS
  <2>1. /\ n + 1 \in 1 .. N /\ n + 1 \in 1 .. N + 1 /\ (n + 1) - 1 = n
        /\ sums[n] \in Nat /\ msums[n] = sums[n]
    BY <1>1, <1>5
  <2>2. more[n + 1] = rows[n + 1] /\ rows[n + 1].amount \in Nat
    BY <1>1, <2>1 DEF Invoice
  <2> QED BY <1>1, <1>2, <1>3, <2>1, <2>2 DEF Adds
<1>6. \A n \in Nat : n \in S
  <2> HIDE DEF S
  <2> QED BY <1>4, <1>5, Induction
<1>7. sums[N] \in Nat /\ msums[N] = sums[N]
  BY <1>1, <1>6
<1>8. N + 1 \in 1 .. Len(more) /\ (N + 1) - 1 = N
  BY <1>1
<1>9. Charges(rows, end) = sums[N] /\ Charges(more, end) = msums[N + 1]
  BY <1>1, <1>2, <1>3 DEF Adds
<1> HIDE DEF N
<1>10. msums[N + 1] = IF Prorates(row, end) THEN msums[N] + row.amount ELSE msums[N]
  BY <1>1, <1>3, <1>8, Zenon DEF Adds
<1> QED BY <1>7, <1>9, <1>10 DEF more

-----------------------------------------------------------------------------
(* Steps that only change requests.                                        *)

LEMMA IdleIsRequest == Idle \in Request /\ Carries(Idle)
  BY WorkspaceAssumption DEF Idle, Request, NoInvoice, Carries

LEMMA RequestFacts ==
    ASSUME IInv, NEW w \in Workers
    PROVE  /\ requests \in [Workers -> Request] /\ requests[w] \in Request
           /\ HoldsLock(w) /\ Carries(requests[w]) /\ w # None
  BY WorkspaceAssumption DEF IInv, TypeOK, RequestsCarry

\* Whoever works under the lock is the only one to have anything to commit.
LEMMA Alone ==
    ASSUME IInv, NEW w \in Workers, requests[w].stage \in {"locked", "written"},
           NEW v \in Workers \ {w}
    PROVE  requests[v].stage \notin {"locked", "written"}
  BY RequestFacts DEF HoldsLock

LEMMA CarriesKept ==
    ASSUME NEW q, Carries(q), UNCHANGED <<users, tenant, roles, sub, invoices, now>>
    PROVE  Carries(q)'
<1>1. /\ Members' = Members /\ Manageable' = Manageable /\ SeatIsFree' = SeatIsFree
      /\ Ensured' = Ensured /\ Manages(q.user)' = Manages(q.user)
  BY DEF Members, Manageable, SeatIsFree, Ensured, Manages
<1>2. Prepared(q) => Prepared(q)'
  BY <1>1 DEF Prepared, PlanReady, BillReady
<1> QED
  BY <1>1, <1>2 DEF Carries

LEMMA CarriesUnwritten ==
    ASSUME NEW q, Carries(q), q.stage # "written"
    PROVE  Carries(q)'
  BY DEF Carries

LEMMA RequestStep ==
    ASSUME IInv, NEW w \in Workers, NEW q \in Request,
           requests' = [requests EXCEPT ![w] = q],
           UNCHANGED <<users, tenant, roles, sub, invoices, now, lowered, workload>>,
           Carries(q), q.stage \in {"locked", "written"} => lock' = w,
           lock' \in Workers \cup {None},
           \A v \in Workers \ {w} : lock = v => lock' = v
    PROVE  IInv'
<1>1. requests' \in [Workers -> Request]
  BY RequestFacts
<1>2. RequestsCarry'
  <2> SUFFICES ASSUME NEW v \in Workers PROVE HoldsLock(v)' /\ Carries(requests[v])'
    BY DEF RequestsCarry
  <2>1. CASE v = w
    BY <2>1, RequestFacts, CarriesKept DEF HoldsLock
  <2>2. CASE v # w
    <3>1. requests'[v] = requests[v] /\ HoldsLock(v) /\ Carries(requests[v])
      BY <2>2, RequestFacts
    <3> QED
      BY <2>2, <3>1, CarriesKept DEF HoldsLock
  <2> QED
    BY <2>1, <2>2
<1>3. Members' = Members
  BY DEF Members
<1>4. TypeOK' /\ IsFiniteSet(Members)' /\ SeatsWithinPlan'
  BY <1>1, <1>3 DEF IInv, TypeOK, SeatsWithinPlan
<1>5. BillingInv' /\ PeriodsBilledOnce' /\ UpgradesChargeTheDifference'
  BY DEF IInv, BillingInv, PeriodsBilledOnce, PeriodInvoices,
         UpgradesChargeTheDifference, Charged, ProratedInPeriod
<1> QED
  BY <1>2, <1>4, <1>5 DEF IInv

LEMMA PrepareStep ==
    ASSUME IInv, NEW w \in Workers, NEW op \in Ops, NEW new \in Request,
           Prepare(w, op, new),
           Carries([new EXCEPT !.stage = "written", !.op = op])
    PROVE  IInv'
<1> DEFINE q == [new EXCEPT !.stage = "written", !.op = op]
<1>1. q \in Request /\ q.stage = "written"
  BY DEF Request
<1>2. /\ requests' = [requests EXCEPT ![w] = q] /\ lock' = lock /\ lock = w
      /\ UNCHANGED <<users, tenant, roles, sub, invoices, now, lowered, workload>>
  BY RequestFacts DEF Prepare, HoldsLock
<1> HIDE DEF q
<1>3. Carries(q)
  BY DEF q
<1> QED
  BY <1>1, <1>2, <1>3, RequestStep

LEMMA EnterStep ==
    ASSUME IInv, NEW w \in Workers, Enter(w)
    PROVE  IInv'
<1>1. PICK u \in Members : requests' = [requests EXCEPT ![w] =
                               [Idle EXCEPT !.stage = "entered", !.user = u]]
  BY DEF Enter
<1> DEFINE q == [Idle EXCEPT !.stage = "entered", !.user = u]
<1>2. q \in Request /\ Carries(q) /\ q.stage = "entered"
  BY WorkspaceAssumption DEF Idle, Request, NoInvoice, Carries, Members
<1>3. requests' = [requests EXCEPT ![w] = q]
  BY <1>1
<1> HIDE DEF q
<1> QED
  BY <1>2, <1>3, RequestStep DEF Enter, IInv, TypeOK

LEMMA MeterStep ==
    ASSUME IInv, NEW w \in Workers, Meter(w)
    PROVE  IInv'
<1> DEFINE q == [requests[w] EXCEPT !.stage = "locked"]
<1>1. q \in Request /\ Carries(q)
  BY RequestFacts DEF Meter, Request, Carries
<1>2. requests' = [requests EXCEPT ![w] = q]
  BY DEF Meter
<1> HIDE DEF q
<1> QED
  BY <1>1, <1>2, RequestStep, WorkspaceAssumption, ZenonT(40) DEF Meter, LockIsFree, IInv, TypeOK

LEMMA CollectUserStep ==
    ASSUME IInv, NEW w \in Workers, CollectUser(w)
    PROVE  IInv'
<1>1. PICK u \in users :
         requests' = [requests EXCEPT ![w] =
                        [Idle EXCEPT !.stage = "collected", !.op = "eraseUser",
                                     !.user = u, !.listed = roles[u] # None]]
  BY DEF CollectUser
<1> DEFINE q == [Idle EXCEPT !.stage = "collected", !.op = "eraseUser",
                             !.user = u, !.listed = roles[u] # None]
<1>2. u \in Users
  BY DEF IInv, TypeOK
<1>3. q \in Request /\ Carries(q) /\ q.stage = "collected"
  BY <1>2 DEF Idle, Request, NoInvoice, Carries, Ops
<1>4. requests' = [requests EXCEPT ![w] = q]
  BY <1>1
<1> HIDE DEF q
<1> QED
  BY <1>3, <1>4, RequestStep DEF CollectUser, IInv, TypeOK

LEMMA DeleteUserStep ==
    ASSUME IInv, NEW w \in Workers, DeleteUser(w)
    PROVE  IInv'
<1> DEFINE r == requests[w]
           dooms == Orphaned(r)
           q == [r EXCEPT !.stage = "written", !.dooms = dooms]
<1>1. r \in Request /\ Carries(r) /\ r.stage = "collected" /\ dooms \in BOOLEAN
  BY RequestFacts DEF DeleteUser, Orphaned, Request
<1>2. dooms => Members \subseteq {r.user}
  BY DEF Orphaned
<1>3. requests' = [requests EXCEPT ![w] = q]
  BY DEF DeleteUser
<1> HIDE DEF dooms, r
<1>4. q \in Request /\ Carries(q)
  BY <1>1, <1>2 DEF Request, Carries, Prepared
<1> HIDE DEF q
<1> QED
  BY <1>3, <1>4, RequestStep, WorkspaceAssumption, ZenonT(40) DEF DeleteUser, LockIsFree, IInv, TypeOK

LEMMA AbortStep ==
    ASSUME IInv, NEW w \in Workers, Abort(w)
    PROVE  IInv'
<1>1. /\ requests' = [requests EXCEPT ![w] = Idle]
      /\ UNCHANGED <<users, tenant, roles, sub, invoices, now, lowered, workload>>
      /\ lock' = IF lock = w THEN None ELSE lock
      /\ Idle.stage = "idle"
  BY DEF Abort, Released, Idle
<1> QED
  BY <1>1, IdleIsRequest, RequestStep DEF IInv, TypeOK

LEMMA TickStep ==
    ASSUME IInv, Tick
    PROVE  IInv'
<1>1. /\ now' = now + 1 /\ now < MaxTime /\ now \in Nat
      /\ UNCHANGED <<users, tenant, roles, sub, invoices, lock, requests, lowered, workload>>
  BY DEF Tick, IInv, TypeOK
<1>2. /\ Members' = Members /\ Manageable' = Manageable /\ SeatIsFree' = SeatIsFree
      /\ Monthly(Ensured)' = Monthly(Ensured)
  BY <1>1 DEF Members, Manageable, SeatIsFree, Ensured, Monthly
<1>3. RequestsCarry'
  <2> SUFFICES ASSUME NEW v \in Workers PROVE HoldsLock(v)' /\ Carries(requests[v])'
    BY DEF RequestsCarry
  <2> DEFINE q == requests[v]
  <2>1. q' = q /\ HoldsLock(v)' /\ Carries(q)
    BY <1>1, RequestFacts DEF HoldsLock
  <2>2. Manages(q.user)' = Manages(q.user)
    BY <1>1 DEF Manages
  <2>3. Prepared(q) => Prepared(q)'
    BY <1>1, <1>2 DEF Prepared, PlanReady, BillReady
  <2> QED
    BY <1>1, <2>1, <2>2, <2>3 DEF Carries
<1>4. TypeOK' /\ IsFiniteSet(Members)' /\ SeatsWithinPlan'
  BY <1>1, <1>2, WorkspaceAssumption DEF IInv, TypeOK, SeatsWithinPlan
<1>5. BillingInv' /\ PeriodsBilledOnce' /\ UpgradesChargeTheDifference'
  BY <1>1 DEF IInv, BillingInv, PeriodsBilledOnce, PeriodInvoices,
         UpgradesChargeTheDifference, Charged, ProratedInPeriod
<1> QED
  BY <1>3, <1>4, <1>5 DEF IInv

-----------------------------------------------------------------------------
(* What a request prepares under the lock.                                 *)

LEMMA LockedFacts ==
    ASSUME IInv, NEW w \in Workers, requests[w].stage = "locked"
    PROVE  /\ requests[w] \in Request /\ requests[w].user \in Users
           /\ requests[w].target = None /\ requests[w].role = None
           /\ requests[w].invoice = NoInvoice /\ ~requests[w].dooms
  BY RequestFacts DEF Carries

LEMMA InviteMemberStep ==
    ASSUME IInv, NEW w \in Workers, InviteMember(w)
    PROVE  IInv'
<1> DEFINE r == requests[w]
<1>1. /\ r.stage = "locked" /\ Manages(r.user) /\ tenant # None /\ SeatIsFree
      /\ \E u \in users \ Members, role \in Roles \ {"owner"} :
             Prepare(w, "invite", [r EXCEPT !.target = u, !.role = role])
  BY DEF InviteMember
<1>2. PICK u \in users \ Members, role \in Roles \ {"owner"} :
         Prepare(w, "invite", [r EXCEPT !.target = u, !.role = role])
  BY <1>1
<1> DEFINE new == [r EXCEPT !.target = u, !.role = role]
<1>3. /\ r \in Request /\ u \in Users /\ r.invoice = NoInvoice /\ ~r.dooms
      /\ r.user \in Users /\ "invite" \in Ops
  BY <1>1, LockedFacts DEF IInv, TypeOK, Ops
<1> HIDE DEF r
<1>4. new \in Request
  BY <1>3 DEF Request
<1>5. Carries([new EXCEPT !.stage = "written", !.op = "invite"])
  BY <1>1, <1>3 DEF Request, Carries, Prepared
<1> HIDE DEF new
<1> QED
  BY <1>2, <1>3, <1>4, <1>5, PrepareStep DEF new

LEMMA ChangeRoleStep ==
    ASSUME IInv, NEW w \in Workers, ChangeRole(w)
    PROVE  IInv'
<1> DEFINE r == requests[w]
<1>1. /\ r.stage = "locked" /\ Manages(r.user)
      /\ \E u \in Manageable, role \in Roles \ {"owner"} :
             Prepare(w, "role", [r EXCEPT !.target = u, !.role = role])
  BY DEF ChangeRole
<1>2. PICK u \in Manageable, role \in Roles \ {"owner"} :
         Prepare(w, "role", [r EXCEPT !.target = u, !.role = role])
  BY <1>1
<1> DEFINE new == [r EXCEPT !.target = u, !.role = role]
<1>3. /\ r \in Request /\ u \in Users /\ r.invoice = NoInvoice /\ ~r.dooms
      /\ r.user \in Users /\ "role" \in Ops
  BY <1>1, LockedFacts DEF Manageable, Members, Ops
<1> HIDE DEF r
<1>4. new \in Request
  BY <1>3 DEF Request
<1>5. Carries([new EXCEPT !.stage = "written", !.op = "role"])
  BY <1>1, <1>3 DEF Request, Carries, Prepared
<1> HIDE DEF new
<1> QED
  BY <1>2, <1>3, <1>4, <1>5, PrepareStep DEF new

LEMMA RemoveMemberStep ==
    ASSUME IInv, NEW w \in Workers, RemoveMember(w)
    PROVE  IInv'
<1> DEFINE r == requests[w]
<1>1. /\ r.stage = "locked" /\ Manages(r.user)
      /\ \E u \in Manageable : Prepare(w, "remove", [r EXCEPT !.target = u])
  BY DEF RemoveMember
<1>2. PICK u \in Manageable : Prepare(w, "remove", [r EXCEPT !.target = u])
  BY <1>1
<1> DEFINE new == [r EXCEPT !.target = u]
<1>3. /\ r \in Request /\ u \in Users /\ r.invoice = NoInvoice /\ ~r.dooms
      /\ r.user \in Users /\ r.role = None /\ "remove" \in Ops
  BY <1>1, LockedFacts DEF Manageable, Members, Ops
<1> HIDE DEF r
<1>4. new \in Request
  BY <1>3 DEF Request
<1>5. Carries([new EXCEPT !.stage = "written", !.op = "remove"])
  BY <1>1, <1>3 DEF Request, Carries, Prepared
<1> HIDE DEF new
<1> QED
  BY <1>2, <1>3, <1>4, <1>5, PrepareStep DEF new

LEMMA EraseOrganizationStep ==
    ASSUME IInv, NEW w \in Workers, EraseOrganization(w)
    PROVE  IInv'
<1> DEFINE r == requests[w]
           new == [r EXCEPT !.dooms = TRUE]
<1>1. /\ r.stage = "locked" /\ roles[r.user] = "owner"
      /\ Prepare(w, "eraseOrg", new)
  BY DEF EraseOrganization
<1>2. /\ r \in Request /\ r.invoice = NoInvoice /\ r.target = None
      /\ r.user \in Users /\ "eraseOrg" \in Ops
  BY <1>1, LockedFacts DEF Ops
<1>3. Manages(r.user)
  BY <1>1, WorkspaceAssumption DEF Manages, AtLeast, Rank, Roles
<1> HIDE DEF r
<1>4. new \in Request
  BY <1>2 DEF Request
<1>5. Carries([new EXCEPT !.stage = "written", !.op = "eraseOrg"])
  BY <1>1, <1>2, <1>3 DEF Request, Carries, Prepared
<1> HIDE DEF new
<1> QED
  BY <1>1, <1>2, <1>4, <1>5, PrepareStep

LEMMA TimesAreNatural == Times \subseteq Nat
<1>1. (MaxInvoices + 1) * Period \in Nat /\ MaxTime \in Nat
  BY WorkspaceAssumption
<1> QED
  BY <1>1 DEF Times

\* A bound of the model: more invoices do not end later than the last of Times.
LEMMA TimesEnough ==
    ASSUME NEW n \in 0 .. MaxInvoices
    PROVE  /\ (n + 1) * Period \in Nat
           /\ (n + 1) * Period <= (MaxInvoices + 1) * Period
           /\ (n + 2) * Period = (n + 1) * Period + Period
           /\ Times = 0 .. MaxTime + (MaxInvoices + 1) * Period
           /\ (MaxInvoices + 1) * Period \in Nat
  BY WorkspaceAssumption DEF Times

\* The subscription s with another plan and other seats, as in ChangePlan.
Replanned(s, plan, seats) == [s EXCEPT !.plan = plan, !.seats = seats]

LEMMA ReplannedFields ==
    ASSUME NEW s \in Subscription, NEW plan \in Plans, NEW seats \in Nat
    PROVE  /\ Replanned(s, plan, seats) \in Subscription
           /\ Replanned(s, plan, seats).plan = plan
           /\ Replanned(s, plan, seats).seats = seats
           /\ Replanned(s, plan, seats).start = s.start
           /\ Replanned(s, plan, seats).end = s.end
           /\ Monthly(Replanned(s, plan, seats)) \in Nat
<1> DEFINE new == Replanned(s, plan, seats)
<1>1. /\ new \in Subscription /\ new.plan = plan /\ new.seats = seats
      /\ new.start = s.start /\ new.end = s.end
  BY DEF Subscription, Replanned
<1> HIDE DEF new
<1>2. Price[plan] \in Nat /\ Price[plan] * seats \in Nat
  BY WorkspaceAssumption
<1>3. Monthly(new) \in Nat
  BY <1>1, <1>2 DEF Monthly
<1> QED
  BY <1>1, <1>3 DEF new

LEMMA RenewedFields ==
    ASSUME NEW s \in Subscription
    PROVE  /\ Renewed(s).start = s.end /\ Renewed(s).end = s.end + Period
           /\ Renewed(s).end \in Times => Renewed(s) \in Subscription
  BY DEF Renewed, Subscription

\* The subscription that change_plan and run_period_billing start from.
LEMMA EnsuredFacts ==
    ASSUME IInv
    PROVE  /\ Covers(Ensured, Len(invoices)) /\ Ensured \in Subscription
           /\ Ensured.start \in Nat /\ Ensured.end \in Nat
           /\ Ensured.end = Ensured.start + Period
           /\ sub # NoSubscription => Ensured = sub
           /\ Monthly(Ensured) \in Nat
<1>1. Len(invoices) \in 0 .. MaxInvoices /\ now \in Nat /\ now <= MaxTime
  BY WorkspaceAssumption DEF IInv, TypeOK
<1> DEFINE n == Len(invoices)
           m == (MaxInvoices + 1) * Period
           k == (n + 1) * Period
<1>2. k \in Nat /\ k <= m /\ Times = 0 .. MaxTime + m /\ m \in Nat /\ Period <= k
  <2>1. n \in Nat /\ Period \in Nat
    BY <1>1, WorkspaceAssumption
  <2>2. (n + 1) * Period = n * Period + Period /\ n * Period \in Nat
    BY <2>1
  <2> QED
    BY <1>1, <2>1, <2>2, TimesEnough
<1> HIDE DEF m, k, n
<1>3. CASE sub = NoSubscription
  <2>1. Ensured = [plan |-> "free", seats |-> 1, start |-> now, end |-> now + Period]
    BY <1>3 DEF Ensured
  <2>2. now \in Times /\ now + Period \in Times /\ now + Period <= MaxTime + k
    BY <1>1, <1>2, WorkspaceAssumption
  <2>3. Covers(Ensured, n)
    BY <2>1, <2>2, WorkspaceAssumption DEF Covers, Subscription, k
  <2> QED
    BY <1>1, <1>3, <2>1, <2>3, WorkspaceAssumption DEF Monthly, Covers, n
<1>4. CASE sub # NoSubscription
  <2>1. Ensured = sub /\ Covers(sub, n)
    BY <1>4 DEF Ensured, IInv, BillingInv, n
  <2>2. sub.start \in Nat /\ sub.end \in Nat /\ sub.seats \in Nat /\ sub.plan \in Plans
    BY <1>2, <2>1, WorkspaceAssumption DEF Covers, Subscription
  <2> QED
    BY <2>1, <2>2, WorkspaceAssumption DEF Monthly, Covers, n
<1> QED
  BY <1>3, <1>4

\* What is left of the period is no more than the period, once it has begun.
LEMMA ProrationFacts ==
    ASSUME NEW old \in Subscription, NEW new \in Subscription,
           old.end = old.start + Period, now \in Nat,
           Monthly(old) \in Nat, Monthly(new) \in Nat
    PROVE  /\ Proration(old, new) \in Nat
           /\ (Monthly(old) <= Monthly(new) /\ now >= old.start)
                => Proration(old, new) <= Monthly(new) - Monthly(old)
<1> DEFINE left   == old.end - Sooner(now, old.end)
           length == old.end - old.start
           charge == Rounded(Monthly(new), left, length)
           credit == Rounded(Monthly(old), left, length)
<1>1. /\ old.start \in Nat /\ old.end \in Nat /\ Period \in Nat \ {0}
  BY TimesAreNatural, WorkspaceAssumption DEF Subscription
<1>2. left \in Nat /\ length \in Nat \ {0} /\ (now >= old.start => left <= length)
  BY <1>1 DEF Sooner
<1> HIDE DEF left, length
<1>3. charge \in Nat /\ credit \in Nat
  BY <1>2, RoundedNear
<1>4. ASSUME Monthly(old) <= Monthly(new), now >= old.start
      PROVE  charge - credit <= Monthly(new) - Monthly(old)
  BY <1>2, <1>4, RoundedGrows
<1>5. Proration(old, new) = IF charge > credit THEN charge - credit ELSE 0
  BY DEF Proration, left, length
<1> HIDE DEF charge, credit
<1> QED
  BY <1>3, <1>4, <1>5

LEMMA ChangePlanStep ==
    ASSUME IInv, NEW w \in Workers, ChangePlan(w)
    PROVE  IInv'
<1> DEFINE r == requests[w]
           New(plan, seats) == Replanned(Ensured, plan, seats)
           Due(plan, seats) == Proration(Ensured, New(plan, seats))
           Row(plan, seats) == IF Due(plan, seats) = 0 THEN NoInvoice
                               ELSE [kind |-> "proration", amount |-> Due(plan, seats),
                                     from |-> now, until |-> New(plan, seats).end]
<1>1. /\ r.stage = "locked" /\ Manages(r.user)
      /\ tenant # None /\ Len(invoices) < MaxInvoices
      /\ \E plan \in Plans : \E seats \in 1 .. MaxSeats[plan] :
             /\ seats >= Cardinality(Members)
             /\ Prepare(w, "plan", [r EXCEPT !.sub = New(plan, seats),
                                             !.invoice = Row(plan, seats)])
  BY DEF ChangePlan, Replanned
<1> HIDE DEF New, Due, Row
<1>0. PICK plan \in Plans : \E seats \in 1 .. MaxSeats[plan] :
         /\ seats >= Cardinality(Members)
         /\ Prepare(w, "plan", [r EXCEPT !.sub = New(plan, seats),
                                         !.invoice = Row(plan, seats)])
  BY <1>1
<1>2. PICK seats \in 1 .. MaxSeats[plan] :
         /\ seats >= Cardinality(Members)
         /\ Prepare(w, "plan", [r EXCEPT !.sub = New(plan, seats),
                                         !.invoice = Row(plan, seats)])
  BY <1>0
<1> USE DEF New, Due, Row
<1> DEFINE s == New(plan, seats)
           due == Due(plan, seats)
           row == Row(plan, seats)
           new == [r EXCEPT !.sub = s, !.invoice = row]
<1>3. /\ r \in Request /\ r.target = None /\ ~r.dooms
      /\ r.user \in Users /\ "plan" \in Ops /\ IsFiniteSet(Members)
  BY <1>1, LockedFacts DEF Ops, IInv
<1>4. MaxSeats[plan] \in Nat /\ seats \in Nat /\ Cardinality(Members) \in Nat
  BY <1>2, <1>3, FS_CardinalityType, WorkspaceAssumption
<1>5. /\ Ensured \in Subscription /\ Covers(Ensured, Len(invoices))
      /\ Ensured.end = Ensured.start + Period
      /\ sub # NoSubscription => Ensured = sub
  BY EnsuredFacts
<1>6. /\ s \in Subscription /\ s.start = Ensured.start /\ s.end = Ensured.end
      /\ s.plan = plan /\ s.seats = seats /\ Monthly(s) \in Nat
  BY <1>0, <1>4, <1>5, ReplannedFields
<1>7. Covers(s, Len(invoices))
  BY <1>5, <1>6 DEF Covers
<1>8. now \in 0 .. MaxTime /\ now \in Nat /\ now \in Times
  <2>1. MaxTime \in Nat /\ (MaxInvoices + 1) * Period \in Nat
    BY WorkspaceAssumption
  <2> QED
    BY <2>1 DEF Times, IInv, TypeOK
<1> HIDE DEF r, New
<1>9. /\ due \in Nat
      /\ (Monthly(Ensured) <= Monthly(s) /\ now >= s.start)
            => due <= Monthly(s) - Monthly(Ensured)
  BY <1>5, <1>6, <1>8, EnsuredFacts, ProrationFacts
<1>10. row = IF due = 0 THEN NoInvoice
             ELSE [kind |-> "proration", amount |-> due, from |-> now, until |-> s.end]
  OBVIOUS
<1> HIDE DEF s, due, Row
<1>11. row \in Invoice \cup {NoInvoice}
  BY <1>6, <1>8, <1>9, <1>10 DEF Invoice, Subscription
<1>12. row # NoInvoice => /\ row.kind = "proration" /\ row.until = s.end
                          /\ row.from = now /\ row.amount = due
  BY <1>10
<1> HIDE DEF row
<1>13. /\ new \in Request /\ new.sub = s /\ new.invoice = row /\ new.user = r.user
       /\ new.target = None /\ ~new.dooms
  BY <1>3, <1>6, <1>11 DEF Request
<1>14. Prepare(w, "plan", new)
  BY <1>2 DEF s, row
<1> HIDE DEF new
<1> DEFINE q == [new EXCEPT !.stage = "written", !.op = "plan"]
<1>15. /\ q.stage = "written" /\ q.op = "plan" /\ q.sub = s /\ q.invoice = row
       /\ q.user = r.user /\ q.target = None /\ ~q.dooms
  BY <1>13 DEF Request
<1> HIDE DEF q
<1>16. PlanReady(q)
  BY <1>1, <1>2, <1>5, <1>6, <1>7, <1>9, <1>12, <1>15 DEF PlanReady
<1>17. Carries(q)
  BY <1>1, <1>3, <1>15, <1>16 DEF Carries, Prepared
<1> QED
  BY <1>3, <1>13, <1>14, <1>17, PrepareStep DEF q

LEMMA BillPeriodStep ==
    ASSUME IInv, NEW w \in Workers, BillPeriod(w)
    PROVE  IInv'
<1> DEFINE r == requests[w]
           s == Renewed(Ensured)
           row == [kind |-> "period", amount |-> Monthly(Ensured),
                   from |-> Ensured.start, until |-> Ensured.end]
           new == [r EXCEPT !.sub = s, !.invoice = row]
           n == Len(invoices)
<1>1. /\ r.stage = "locked" /\ Manages(r.user)
      /\ tenant # None /\ n < MaxInvoices
      /\ Prepare(w, "bill", new)
  BY DEF BillPeriod
<1>2. /\ r \in Request /\ r.target = None /\ ~r.dooms /\ r.user \in Users
      /\ "bill" \in Ops /\ n \in Nat
  BY <1>1, LockedFacts DEF Ops, IInv, TypeOK
<1>3. /\ Ensured \in Subscription /\ Covers(Ensured, n)
      /\ Ensured.end = Ensured.start + Period
      /\ Ensured.start \in Nat /\ Ensured.end \in Nat
      /\ sub # NoSubscription => Ensured = sub
      /\ Monthly(Ensured) \in Nat
  BY EnsuredFacts
<1>4. row \in Invoice /\ row # NoInvoice
  BY <1>3, WorkspaceAssumption DEF Invoice, Subscription, NoInvoice
<1>5. /\ row.kind = "period" /\ row.until = Ensured.end /\ row.from = Ensured.start
  OBVIOUS
<1>6. Covers(s, n + 1) /\ s.start = Ensured.end
  <2>1. /\ s.start = Ensured.end /\ s.end = Ensured.end + Period
        /\ s.end \in Times => s \in Subscription
    BY <1>3, RenewedFields
  <2>2. n + 1 \in 0 .. MaxInvoices /\ n \in 0 .. MaxInvoices
    BY <1>1, <1>2, WorkspaceAssumption
  <2> DEFINE k == (n + 1) * Period
             l == ((n + 1) + 1) * Period
             m == (MaxInvoices + 1) * Period
  <2>3. /\ k \in Nat /\ l \in Nat /\ m \in Nat /\ l = k + Period /\ l <= m
        /\ Times = 0 .. MaxTime + m
    <3>1. ((n + 1) + 1) * Period = (n + 2) * Period
      BY <2>2
    <3> QED
      BY <2>2, <3>1, TimesEnough
  <2>4. Ensured.end <= MaxTime + k
    BY <1>3 DEF Covers
  <2> HIDE DEF k, l, m
  <2> DEFINE end == s.end
  <2>5. end = Ensured.end + Period
    BY <2>1
  <2> HIDE DEF s
  <2>6. end \in Times /\ end <= MaxTime + l
    <3> HIDE DEF end
    <3> QED
      BY <1>3, <2>3, <2>4, <2>5, WorkspaceAssumption, SMTT(30)
  <2> QED
    BY <1>3, <2>1, <2>6 DEF Covers, l
<1> HIDE DEF s, row, r
<1>7. /\ new \in Request /\ new.sub = s /\ new.invoice = row /\ new.user = r.user
      /\ new.target = None /\ ~new.dooms
  BY <1>2, <1>4, <1>6 DEF Request, Covers
<1> HIDE DEF new
<1> DEFINE q == [new EXCEPT !.stage = "written", !.op = "bill"]
<1>8. /\ q.stage = "written" /\ q.op = "bill" /\ q.sub = s /\ q.invoice = row
      /\ q.user = r.user /\ q.target = None /\ ~q.dooms
  BY <1>7 DEF Request
<1> HIDE DEF q
<1>9. BillReady(q)
  BY <1>1, <1>3, <1>4, <1>5, <1>6, <1>8 DEF BillReady
<1>10. Carries(q)
  BY <1>1, <1>2, <1>8, <1>9 DEF Carries, Prepared
<1> QED
  BY <1>1, <1>2, <1>7, <1>10, PrepareStep DEF q

-----------------------------------------------------------------------------
(* What a commit does.                                                     *)

LEMMA CommitFacts ==
    ASSUME IInv, NEW w \in Workers, Commit(w)
    PROVE  LET r == requests[w] IN
           /\ r \in Request /\ r.user \in Users /\ Prepared(r)
           /\ r.op # "eraseUser" => Manages(r.user)
           /\ r.dooms => r.op \in {"eraseOrg", "eraseUser"}
           /\ r.invoice # NoInvoice => r.op \in {"plan", "bill"}
           /\ requests' \in [Workers -> Request] /\ RequestsCarry'
           /\ lock' = None /\ now' = now /\ workload' = workload
<1> DEFINE r == requests[w]
<1>1. /\ r.stage = "written" /\ r \in Request /\ Carries(r)
      /\ requests' = [requests EXCEPT ![w] = Idle]
      /\ lock' = None /\ now' = now /\ workload' = workload
  BY RequestFacts DEF Commit, Released, HoldsLock
<1>2. requests' \in [Workers -> Request]
  BY <1>1, RequestFacts, IdleIsRequest
<1>3. RequestsCarry'
  <2> SUFFICES ASSUME NEW v \in Workers PROVE HoldsLock(v)' /\ Carries(requests[v])'
    BY DEF RequestsCarry
  <2>1. CASE v = w
    <3>1. requests'[v] = Idle /\ Idle.stage = "idle"
      BY <1>1, <2>1, RequestFacts DEF Idle
    <3> QED
      BY <3>1, IdleIsRequest, CarriesUnwritten DEF HoldsLock
  <2>2. CASE v # w
    <3>1. /\ requests'[v] = requests[v] /\ Carries(requests[v])
          /\ requests[v].stage \notin {"locked", "written"}
      BY <1>1, <2>2, RequestFacts, Alone
    <3> QED
      BY <3>1, CarriesUnwritten DEF HoldsLock
  <2> QED
    BY <2>1, <2>2
<1> QED
  BY <1>1, <1>2, <1>3 DEF Carries

\* Members change, and nothing of what they pay for.
LEMMA MembersStep ==
    ASSUME IInv, NEW w \in Workers, Commit(w),
           UNCHANGED <<tenant, sub, invoices, lowered>>,
           users' \subseteq Users, roles' \in [Users -> Roles \cup {None}],
           Members' \subseteq users', IsFiniteSet(Members'),
           tenant # None => Cardinality(Members') <= MaxSeats[tenant]
    PROVE  IInv'
<1>1. /\ requests' \in [Workers -> Request] /\ RequestsCarry'
      /\ lock' = None /\ now' = now /\ workload' = workload
  BY CommitFacts
<1>2. TypeOK' /\ IsFiniteSet(Members)' /\ SeatsWithinPlan'
  BY <1>1 DEF IInv, TypeOK, SeatsWithinPlan
<1>3. BillingInv' /\ PeriodsBilledOnce' /\ UpgradesChargeTheDifference'
  BY <1>1 DEF IInv, BillingInv, PeriodsBilledOnce, PeriodInvoices,
         UpgradesChargeTheDifference, Charged, ProratedInPeriod
<1> QED
  BY <1>1, <1>2, <1>3 DEF IInv

LEMMA CommitMembers ==
    ASSUME IInv, NEW w \in Workers, Commit(w), ~requests[w].dooms,
           requests[w].op \in {"invite", "role", "remove", "eraseUser"}
    PROVE  IInv'
<1> DEFINE r == requests[w]
<1>1. /\ r.user \in Users /\ Prepared(r) /\ r.invoice = NoInvoice
      /\ UNCHANGED <<tenant, sub, invoices, lowered>>
      /\ users' = IF r.op = "eraseUser" THEN users \ {r.user} ELSE users
      /\ roles' = IF r.op = "eraseUser" THEN [roles EXCEPT ![r.user] = None]
                  ELSE [roles EXCEPT ![r.target] = r.role]
  BY CommitFacts DEF Commit, RolesAfter
<1>2. /\ roles \in [Users -> Roles \cup {None}] /\ None \notin Roles
      /\ users \subseteq Users /\ Members \subseteq users
      /\ IsFiniteSet(Members) /\ Cardinality(Members) \in Nat
      /\ tenant # None => Cardinality(Members) <= MaxSeats[tenant]
      /\ tenant # None => MaxSeats[tenant] \in Nat
  BY FS_CardinalityType, WorkspaceAssumption DEF IInv, TypeOK, SeatsWithinPlan
<1>3. CASE r.op = "invite"
  <2>1. /\ r.role \in Roles /\ r.target \in users \ Members
        /\ tenant # None /\ Cardinality(Members) < MaxSeats[tenant]
    BY <1>1, <1>3 DEF Prepared, SeatIsFree
  <2>2. /\ users' = users /\ roles' = [roles EXCEPT ![r.target] = r.role]
    BY <1>1, <1>3
  <2> HIDE DEF r
  <2>3. Members' = Members \cup {r.target}
    BY <1>2, <2>1, <2>2 DEF Members
  <2>4. IsFiniteSet(Members') /\ Cardinality(Members') = Cardinality(Members) + 1
    BY <1>2, <2>1, <2>3, FS_AddElement
  <2>5. roles' \in [Users -> Roles \cup {None}] /\ Members' \subseteq users'
    BY <1>2, <2>1, <2>2, <2>3
  <2> QED
    BY <1>1, <1>2, <2>1, <2>2, <2>4, <2>5, MembersStep
<1>4. CASE r.op = "role"
  <2>1. r.role \in Roles /\ r.target \in Members
    BY <1>1, <1>4 DEF Prepared, Manageable
  <2>2. /\ users' = users /\ roles' = [roles EXCEPT ![r.target] = r.role]
    BY <1>1, <1>4
  <2> HIDE DEF r
  <2>3. Members' = Members /\ roles' \in [Users -> Roles \cup {None}]
    BY <1>2, <2>1, <2>2 DEF Members
  <2> QED
    BY <1>1, <1>2, <2>2, <2>3, MembersStep
<1>5. CASE r.op = "remove"
  <2>1. r.role = None /\ r.target \in Members
    BY <1>1, <1>5 DEF Prepared, Manageable
  <2>2. /\ users' = users /\ roles' = [roles EXCEPT ![r.target] = r.role]
    BY <1>1, <1>5
  <2> HIDE DEF r
  <2>3. Members' \subseteq Members /\ roles' \in [Users -> Roles \cup {None}]
    BY <1>2, <2>1, <2>2 DEF Members
  <2>4. IsFiniteSet(Members') /\ Cardinality(Members') <= Cardinality(Members)
        /\ Cardinality(Members') \in Nat
    BY <1>2, <2>3, FS_Subset, FS_CardinalityType
  <2> QED
    BY <1>1, <1>2, <2>2, <2>3, <2>4, MembersStep
<1>6. CASE r.op = "eraseUser"
  <2>1. /\ users' = users \ {r.user} /\ roles' = [roles EXCEPT ![r.user] = None]
    BY <1>1, <1>6
  <2> HIDE DEF r
  <2>2. /\ Members' = Members \ {r.user} /\ roles' \in [Users -> Roles \cup {None}]
    BY <1>1, <1>2, <2>1 DEF Members
  <2>3. IsFiniteSet(Members') /\ Cardinality(Members') <= Cardinality(Members)
        /\ Cardinality(Members') \in Nat
    BY <1>2, <2>2, FS_Subset, FS_CardinalityType
  <2> QED
    BY <1>1, <1>2, <2>1, <2>2, <2>3, MembersStep, SMTT(30)
<1> QED
  BY <1>3, <1>4, <1>5, <1>6

LEMMA CommitErasure ==
    ASSUME IInv, NEW w \in Workers, Commit(w), requests[w].dooms
    PROVE  IInv'
<1>1. /\ users' \subseteq users /\ roles' = [u \in Users |-> None]
      /\ tenant' = None /\ sub' = NoSubscription /\ invoices' = <<>>
      /\ lowered' \in BOOLEAN
  <2>1. users' \subseteq users
    BY DEF Commit
  <2>2. roles' = [u \in Users |-> None]
    BY DEF Commit, RolesAfter
  <2>3. tenant' = None /\ sub' = NoSubscription /\ invoices' = <<>>
    <3>1. requests[w].op \notin {"plan", "bill"} /\ requests[w].invoice = NoInvoice
      BY CommitFacts
    <3> QED
      BY <3>1 DEF Commit
  <2>4. lowered' \in BOOLEAN
    BY DEF Commit, IInv, TypeOK
  <2> QED
    BY <2>1, <2>2, <2>3, <2>4
<1>2. Members' = {} /\ IsFiniteSet(Members')
  BY <1>1, FS_EmptySet DEF Members
<1>3. <<>> \in Seq(Invoice) /\ Len(<<>>) <= MaxInvoices /\ DOMAIN <<>> = {}
  BY WorkspaceAssumption
<1>4. TypeOK'
  BY <1>1, <1>2, <1>3, CommitFacts DEF IInv, TypeOK
<1>5. BillingInv' /\ PeriodsBilledOnce' /\ UpgradesChargeTheDifference'
  BY <1>1, <1>3 DEF BillingInv, PeriodsBilledOnce, PeriodInvoices,
     UpgradesChargeTheDifference
<1> QED
  BY <1>1, <1>2, <1>4, <1>5, CommitFacts DEF IInv, SeatsWithinPlan

LEMMA CoversMore ==
    ASSUME NEW s, NEW n \in 0 .. MaxInvoices, n < MaxInvoices, Covers(s, n)
    PROVE  Covers(s, n + 1)
<1> DEFINE k == (n + 1) * Period
           l == ((n + 1) + 1) * Period
<1>1. k \in Nat /\ l = k + Period /\ Period \in Nat /\ MaxTime \in Nat
  <2>1. (n + 1) + 1 = n + 2
    OBVIOUS
  <2> QED
    BY <2>1, TimesEnough, WorkspaceAssumption
<1>2. s \in Subscription /\ s.end = s.start + Period /\ s.end <= MaxTime + k
  BY DEF Covers
<1>3. s.end \in Nat
  BY <1>2, TimesAreNatural DEF Subscription
<1> HIDE DEF k, l
<1>4. s.end <= MaxTime + l
  BY <1>1, <1>2, <1>3
<1> QED
  BY <1>2, <1>4 DEF Covers, l

\* One more row: what is in it, and what stays.
LEMMA OneMore ==
    ASSUME NEW rows \in Seq(Invoice), NEW row \in Invoice
    PROVE  LET N == Len(rows) IN
           /\ Append(rows, row) \in Seq(Invoice) /\ N \in Nat
           /\ Len(Append(rows, row)) = N + 1
           /\ DOMAIN Append(rows, row) = 1 .. N + 1 /\ DOMAIN rows = 1 .. N
           /\ Append(rows, row)[N + 1] = row
           /\ \A i \in 1 .. N : Append(rows, row)[i] = rows[i]
  OBVIOUS

\* A change of plan keeps the period and its invoices; what it invoices itself
\* is charged on top, and an upgrade has prepared no more than the difference.
LEMMA CommitPlan ==
    ASSUME IInv, NEW w \in Workers, Commit(w), requests[w].op = "plan"
    PROVE  IInv'
<1> DEFINE r == requests[w]
           N == Len(invoices)
<1>1. /\ r \in Request /\ PlanReady(r) /\ ~r.dooms
  BY CommitFacts DEF Prepared
<1>2. /\ users' = users /\ roles' = roles /\ tenant' = r.sub.plan /\ sub' = r.sub
      /\ invoices' = IF r.invoice = NoInvoice THEN invoices
                     ELSE Append(invoices, r.invoice)
      /\ lowered' = (lowered \/ Monthly(r.sub) < Monthly(Ensured))
  <2>1. users' = users /\ tenant' = r.sub.plan /\ sub' = r.sub
    BY <1>1 DEF Commit
  <2>2. roles' = roles
    BY <1>1 DEF Commit, RolesAfter
  <2>3. invoices' = IF r.invoice = NoInvoice THEN invoices
                    ELSE Append(invoices, r.invoice)
    BY <1>1 DEF Commit
  <2>4. lowered' = (lowered \/ Monthly(r.sub) < Monthly(Ensured))
    BY DEF Commit
  <2> QED
    BY <2>1, <2>2, <2>3, <2>4
<1>3. /\ invoices \in Seq(Invoice) /\ N \in Nat /\ N < MaxInvoices
      /\ Covers(r.sub, N) /\ r.sub \in Subscription /\ r.sub # NoSubscription
      /\ sub # NoSubscription => r.sub.start = sub.start /\ r.sub.end = sub.end
      /\ r.invoice # NoInvoice =>
            /\ r.invoice \in Invoice
            /\ r.invoice.kind = "proration" /\ r.invoice.until = r.sub.end
            /\ (Monthly(Ensured) <= Monthly(r.sub) /\ r.invoice.from >= r.sub.start)
                  => r.invoice.amount <= Monthly(r.sub) - Monthly(Ensured)
  BY <1>1, WorkspaceAssumption
  DEF PlanReady, Covers, Subscription, NoSubscription, IInv, TypeOK, Request
<1>4. /\ sub = NoSubscription => invoices = <<>>
      /\ sub # NoSubscription => Covers(sub, N) /\ Ensured = sub
      /\ sub # NoSubscription => \A i \in 1 .. N : invoices[i].until <= sub.end
      /\ \A i \in 1 .. N : sub # NoSubscription
  BY <1>3 DEF IInv, BillingInv, Ensured
<1>5. Monthly(Ensured) \in Nat /\ Monthly(r.sub) \in Nat
  <2>1. r.sub.plan \in Plans /\ r.sub.seats \in Nat
    BY <1>3 DEF Subscription
  <2>2. Price[r.sub.plan] \in Nat
    BY <2>1, WorkspaceAssumption
  <2>3. Price[r.sub.plan] * r.sub.seats \in Nat
    BY <2>1, <2>2
  <2> QED
    BY <2>3, EnsuredFacts DEF Monthly
<1>6. SeatsWithinPlan' /\ Members' = Members
  <2>1. /\ Members' = Members /\ IsFiniteSet(Members)
        /\ r.sub.plan \in Plans /\ r.sub.seats \in Nat
        /\ Cardinality(Members) <= r.sub.seats /\ r.sub.seats <= MaxSeats[r.sub.plan]
    BY <1>1, <1>2, <1>3 DEF Members, IInv, PlanReady, Subscription
  <2>2. Cardinality(Members) \in Nat /\ MaxSeats[r.sub.plan] \in Nat
    BY <2>1, FS_CardinalityType, WorkspaceAssumption
  <2>3. Cardinality(Members) <= MaxSeats[r.sub.plan]
    <3> HIDE DEF r
    <3> QED BY <2>1, <2>2
  <2> QED
    BY <1>2, <2>1, <2>3 DEF SeatsWithinPlan
<1>7. r.sub.plan \in Plans /\ lowered' \in BOOLEAN
  BY <1>2, <1>3 DEF Subscription, IInv, TypeOK
<1> HIDE DEF r
\* No invoice: the upgrade was small, or it was a downgrade.
<1>8. CASE r.invoice = NoInvoice
  <2>1. invoices' = invoices
    BY <1>2, <1>8
  <2>2. TypeOK'
    BY <1>2, <1>3, <1>6, <1>7, <2>1, CommitFacts DEF IInv, TypeOK
  <2>3. BillingInv'
    BY <1>2, <1>3, <1>4, <2>1 DEF BillingInv
  <2>4. PeriodsBilledOnce'
    BY <1>2, <1>3, <1>4, <2>1 DEF IInv, PeriodsBilledOnce, PeriodInvoices
  <2>5. UpgradesChargeTheDifference'
    <3> SUFFICES ASSUME ~lowered', ProratedInPeriod'
                 PROVE  Charges(invoices, r.sub.end) <= Monthly(r.sub)
      BY <1>2, <2>1 DEF UpgradesChargeTheDifference, Charged, Monthly
    <3>1. ~lowered /\ Monthly(Ensured) <= Monthly(r.sub)
      <4>1. ~lowered /\ ~(Monthly(r.sub) < Monthly(Ensured))
        BY <1>2, Zenon
      <4> QED
        BY <1>5, <4>1
    <3>2. CASE sub = NoSubscription
      <4>1. \A i \in DOMAIN invoices : FALSE
        BY <1>4, <3>2
      <4>2. Charges(invoices, r.sub.end) = 0
        BY <1>3, <4>1, ChargesNothing
      <4> QED
        BY <1>5, <4>2
    <3>3. CASE sub # NoSubscription
      <4>1. ProratedInPeriod
        BY <1>2, <1>3, <2>1, <3>3 DEF ProratedInPeriod
      <4>2. Charges(invoices, sub.end) <= Monthly(Ensured)
        BY <1>4, <3>1, <3>3, <4>1 DEF IInv, UpgradesChargeTheDifference, Charged
      <4>3. Charges(invoices, sub.end) \in Nat
        BY <1>3, ChargesType
      <4> QED
        BY <1>3, <1>5, <3>1, <3>3, <4>2, <4>3
    <3> QED
      BY <3>2, <3>3
  <2> QED
    BY <1>6, <2>2, <2>3, <2>4, <2>5, CommitFacts DEF IInv
<1>9. CASE r.invoice # NoInvoice
  <2> DEFINE row == r.invoice
             more == Append(invoices, row)
  <2>1. /\ invoices' = more /\ row \in Invoice /\ row.kind = "proration"
        /\ row.until = r.sub.end
        /\ (Monthly(Ensured) <= Monthly(r.sub) /\ row.from >= r.sub.start)
              => row.amount <= Monthly(r.sub) - Monthly(Ensured)
    BY <1>2, <1>3, <1>9
  <2> HIDE DEF row
  <2>2. /\ more \in Seq(Invoice) /\ Len(more) = N + 1
        /\ DOMAIN more = 1 .. N + 1 /\ DOMAIN invoices = 1 .. N
        /\ more[N + 1] = row /\ \A i \in 1 .. N : more[i] = invoices[i]
    BY <1>3, <2>1, OneMore
  <2>3. /\ Charges(invoices, r.sub.end) \in Nat
        /\ Charges(more, r.sub.end) = Charges(invoices, r.sub.end) + row.amount
    BY <1>3, <2>1, ChargesAppend DEF Prorates
  <2> HIDE DEF more
  <2>4. TypeOK'
    <3>1. N + 1 <= MaxInvoices
      BY <1>3, WorkspaceAssumption
    <3> QED
      BY <1>2, <1>3, <1>6, <1>7, <2>1, <2>2, <3>1, CommitFacts DEF IInv, TypeOK
  <2>5. BillingInv'
    <3>1. Covers(r.sub, N + 1)
      BY <1>3, CoversMore, WorkspaceAssumption
    <3>2. ASSUME NEW i \in 1 .. N + 1 PROVE more[i].until <= r.sub.end
      <4>1. r.sub.end \in Nat
        BY <1>3, TimesAreNatural DEF Subscription
      <4> QED
        BY <1>3, <1>4, <2>1, <2>2, <4>1
    <3> QED
      BY <1>2, <1>3, <2>1, <2>2, <3>1, <3>2 DEF BillingInv
  <2>6. PeriodsBilledOnce'
    <3>1. PeriodInvoices' = PeriodInvoices /\ PeriodInvoices \subseteq 1 .. N
      BY <1>3, <2>1, <2>2 DEF PeriodInvoices
    <3>2. \A i \in PeriodInvoices : invoices'[i] = invoices[i] /\ sub # NoSubscription
      BY <1>4, <2>1, <2>2, <3>1
    <3> QED
      BY <1>2, <1>3, <3>1, <3>2 DEF IInv, PeriodsBilledOnce
  <2>7. UpgradesChargeTheDifference'
    <3> SUFFICES ASSUME ~lowered', ProratedInPeriod'
                 PROVE  Charges(more, r.sub.end) <= Monthly(r.sub)
      BY <1>2, <2>1 DEF UpgradesChargeTheDifference, Charged, Monthly
    <3>1. ~lowered /\ Monthly(Ensured) <= Monthly(r.sub)
      <4>1. ~lowered /\ ~(Monthly(r.sub) < Monthly(Ensured))
        BY <1>2, Zenon
      <4> QED
        BY <1>5, <4>1
    <3>2. \A i \in 1 .. N + 1 : Prorates(more[i], r.sub.end) => more[i].from >= r.sub.start
      BY <1>2, <2>1, <2>2 DEF ProratedInPeriod
    <3>3. row.amount <= Monthly(r.sub) - Monthly(Ensured)
      <4>1. N + 1 \in 1 .. N + 1
        BY <1>3
      <4> QED
        BY <2>1, <2>2, <3>1, <3>2, <4>1 DEF Prorates
    <3>4. Charges(invoices, r.sub.end) <= Monthly(Ensured)
      <4>1. CASE sub = NoSubscription
        <5>1. \A i \in DOMAIN invoices : FALSE
          BY <1>4, <4>1
        <5>2. Charges(invoices, r.sub.end) = 0
          BY <1>3, <5>1, ChargesNothing
        <5> QED
          BY <1>5, <5>2
      <4>2. CASE sub # NoSubscription
        <5>1. ProratedInPeriod
          BY <1>3, <2>2, <3>2, <4>2 DEF ProratedInPeriod
        <5> QED
          BY <1>3, <1>4, <3>1, <4>2, <5>1 DEF IInv, UpgradesChargeTheDifference, Charged
      <4> QED
        BY <4>1, <4>2
    <3>5. row.amount \in Nat
      BY <2>1 DEF Invoice
    <3> QED
      BY <1>5, <2>3, <3>3, <3>4, <3>5
  <2> QED
    BY <1>6, <2>4, <2>5, <2>6, <2>7, CommitFacts DEF IInv
<1> QED
  BY <1>8, <1>9

\* The billing of a period invoices it up to where the next one begins, in
\* which nothing has been prorated yet.
LEMMA CommitBill ==
    ASSUME IInv, NEW w \in Workers, Commit(w), requests[w].op = "bill"
    PROVE  IInv'
<1> DEFINE r == requests[w]
           N == Len(invoices)
           row == r.invoice
           more == Append(invoices, row)
<1>1. /\ r \in Request /\ BillReady(r) /\ ~r.dooms
  BY CommitFacts DEF Prepared
<1>2. /\ row \in Invoice /\ row # NoInvoice /\ row.kind = "period"
      /\ row.until = r.sub.start /\ row.until = row.from + Period
      /\ N < MaxInvoices /\ Covers(r.sub, N + 1)
      /\ sub # NoSubscription => r.sub.start = sub.end
  BY <1>1, WorkspaceAssumption DEF BillReady, Invoice, NoInvoice
<1>3. /\ users' = users /\ roles' = roles /\ tenant' = tenant /\ sub' = r.sub
      /\ invoices' = more /\ lowered' = FALSE
  <2>1. users' = users /\ tenant' = tenant /\ sub' = r.sub
    BY <1>1 DEF Commit
  <2>2. roles' = roles
    BY <1>1 DEF Commit, RolesAfter
  <2>3. invoices' = more /\ lowered' = FALSE
    BY <1>1, <1>2 DEF Commit
  <2> QED
    BY <2>1, <2>2, <2>3
<1>4. /\ invoices \in Seq(Invoice) /\ N \in Nat /\ N + 1 <= MaxInvoices
      /\ r.sub \in Subscription /\ r.sub # NoSubscription
  BY <1>2, WorkspaceAssumption
  DEF Covers, Subscription, NoSubscription, IInv, TypeOK
<1>5. /\ r.sub.start \in Nat /\ r.sub.end \in Nat /\ r.sub.end = r.sub.start + Period
      /\ row.from \in Nat /\ Period \in Nat \ {0}
  BY <1>2, <1>4, TimesAreNatural, WorkspaceAssumption DEF Subscription, Covers, Invoice
<1>6. /\ \A i \in 1 .. N : sub # NoSubscription /\ invoices[i].until <= sub.end
      /\ sub # NoSubscription => sub.start \in Nat /\ sub.end = sub.start + Period
  <2>1. /\ sub = NoSubscription => invoices = <<>>
        /\ sub # NoSubscription =>
              /\ sub \in Subscription /\ sub.end = sub.start + Period
              /\ \A i \in DOMAIN invoices : invoices[i].until <= sub.end
    BY DEF IInv, BillingInv, Covers
  <2>2. DOMAIN invoices = 1 .. N
    BY <1>4
  <2>3. sub # NoSubscription => sub.start \in Nat
    BY <2>1, TimesAreNatural DEF Subscription
  <2>4. \A i \in 1 .. N : sub # NoSubscription
    BY <2>1
  <2> QED
    BY <2>1, <2>2, <2>3, <2>4
<1> HIDE DEF row
<1>7. /\ more \in Seq(Invoice) /\ Len(more) = N + 1
      /\ DOMAIN more = 1 .. N + 1 /\ DOMAIN invoices = 1 .. N
      /\ more[N + 1] = row /\ \A i \in 1 .. N : more[i] = invoices[i]
  BY <1>2, <1>4, OneMore
<1> HIDE DEF more, r
<1>8. \A i \in 1 .. N : invoices[i].until \in Nat
  <2>1. \A i \in 1 .. N : invoices[i] \in Invoice
    BY <1>4
  <2> QED
    BY <2>1, TimesAreNatural DEF Invoice
<1>9. \A i \in 1 .. N + 1 : more[i].until <= r.sub.start
  BY <1>2, <1>4, <1>5, <1>6, <1>7, <1>8, SMTT(30)
<1>10. TypeOK' /\ Members' = Members /\ SeatsWithinPlan'
  <2>1. Members' = Members
    BY <1>3 DEF Members
  <2> QED
    BY <1>3, <1>4, <1>7, <2>1, CommitFacts DEF IInv, TypeOK, SeatsWithinPlan
<1>11. BillingInv'
  <2>1. \A i \in 1 .. N + 1 : more[i].until <= r.sub.end /\ more[i].until \in Nat
    <3>1. \A i \in 1 .. N + 1 : more[i].until \in Nat
      BY <1>2, <1>4, <1>5, <1>7, <1>8
    <3> QED
      BY <1>5, <1>9, <3>1, SMTT(30)
  <2> QED
    BY <1>2, <1>3, <1>4, <1>7, <2>1 DEF BillingInv
<1>12. PeriodsBilledOnce'
  <2>1. /\ PeriodInvoices' = PeriodInvoices \cup {N + 1}
        /\ PeriodInvoices \subseteq 1 .. N
    BY <1>2, <1>3, <1>4, <1>7 DEF PeriodInvoices
  <2> HIDE DEF N
  <2>2. ASSUME NEW i \in PeriodInvoices' PROVE more[i].until = more[i].from + Period
    BY <1>2, <1>7, <2>1, <2>2 DEF IInv, PeriodsBilledOnce
  <2>3. ASSUME NEW i \in PeriodInvoices', NEW j \in PeriodInvoices', i < j,
               \A k \in i + 1 .. j - 1 : k \notin PeriodInvoices'
        PROVE  more[i].until = more[j].from
    <3>0. i # N + 1
      BY <1>4, <2>1, <2>3
    <3>1. i \in PeriodInvoices /\ i \in 1 .. N /\ more[i] = invoices[i]
      BY <1>7, <2>1, <3>0
    <3>2. CASE j = N + 1
      <4>1. \A k \in PeriodInvoices : k <= i
        <5> SUFFICES ASSUME NEW k \in PeriodInvoices, ~(k <= i) PROVE FALSE
          OBVIOUS
        <5>1. k \in 1 .. N /\ k \in i + 1 .. j - 1
          BY <1>4, <2>1, <3>1, <3>2
        <5> QED
          BY <2>1, <2>3, <5>1
      <4>2. invoices[i].until = sub.start
        BY <3>1, <4>1 DEF IInv, PeriodsBilledOnce
      <4>3. row.from = sub.start
        <5>1. sub # NoSubscription
          BY <1>6, <3>1
        <5> QED
          BY <1>2, <1>5, <1>6, <5>1
      <4> QED
        BY <1>7, <3>1, <3>2, <4>2, <4>3
    <3>3. CASE j \in PeriodInvoices
      <4>1. j \in 1 .. N /\ more[j] = invoices[j]
        BY <1>7, <2>1, <3>3
      <4>2. \A k \in i + 1 .. j - 1 : k \notin PeriodInvoices
        BY <2>1, <2>3
      <4> QED
        BY <2>3, <3>1, <3>3, <4>1, <4>2 DEF IInv, PeriodsBilledOnce
    <3> QED
      BY <2>1, <3>2, <3>3
  <2>4. ASSUME NEW i \in PeriodInvoices', \A j \in PeriodInvoices' : j <= i
        PROVE  more[i].until = r.sub.start
    <3>1. i = N + 1
      BY <1>4, <2>1, <2>4
    <3> QED
      BY <1>2, <1>7, <3>1
  <2> QED
    BY <1>3, <2>2, <2>3, <2>4 DEF PeriodsBilledOnce
<1>13. UpgradesChargeTheDifference'
  <2>1. \A i \in DOMAIN more : ~Prorates(more[i], r.sub.end)
    <3> SUFFICES ASSUME NEW i \in 1 .. N + 1 PROVE more[i].until # r.sub.end
      BY <1>7 DEF Prorates
    <3>1. more[i].until <= r.sub.start /\ more[i].until \in Nat
      BY <1>2, <1>4, <1>5, <1>7, <1>8, <1>9
    <3> QED
      BY <1>5, <3>1
  <2>2. Charges(more, r.sub.end) = 0
    BY <1>7, <2>1, ChargesNothing
  <2>3. Monthly(r.sub) \in Nat
    <3>1. r.sub.plan \in Plans /\ r.sub.seats \in Nat
      BY <1>4 DEF Subscription
    <3>2. Price[r.sub.plan] \in Nat
      BY <3>1, WorkspaceAssumption
    <3>3. Price[r.sub.plan] * r.sub.seats \in Nat
      BY <3>1, <3>2
    <3> QED
      BY <3>3 DEF Monthly
  <2> QED
    BY <1>3, <2>2, <2>3 DEF UpgradesChargeTheDifference, Charged, Monthly
<1> QED
  BY <1>10, <1>11, <1>12, <1>13, CommitFacts DEF IInv

LEMMA CommitStep ==
    ASSUME IInv, NEW w \in Workers, Commit(w)
    PROVE  IInv'
<1> DEFINE r == requests[w]
<1>1. CASE r.dooms
  BY <1>1, CommitErasure
<1>2. CASE ~r.dooms
  <2>1. \/ r.op \in {"invite", "role", "remove", "eraseUser"}
        \/ r.op = "plan" \/ r.op = "bill"
    BY <1>2, CommitFacts DEF Prepared
  <2> QED
    BY <1>2, <2>1, CommitMembers, CommitPlan, CommitBill
<1> QED
  BY <1>1, <1>2

-----------------------------------------------------------------------------
(* The theorems.                                                           *)

LEMMA InitIInv == Init => IInv
<1> SUFFICES ASSUME Init PROVE IInv
  OBVIOUS
<1>1. Members = {Owner}
  BY WorkspaceAssumption DEF Init, Members, Roles
<1>2. IsFiniteSet({Owner}) /\ Cardinality({Owner}) = 1
  BY FS_Singleton
<1>3. MaxSeats[tenant] \in Nat \ {0} /\ tenant \in Plans
  BY WorkspaceAssumption DEF Init
<1>4. 0 \in 0 .. MaxTime /\ <<>> \in Seq(Invoice) /\ Len(<<>>) = 0 /\ DOMAIN <<>> = {}
      /\ MaxInvoices \in Nat
  BY WorkspaceAssumption
<1>5. roles \in [Users -> Roles \cup {None}]
  BY DEF Init, Roles
<1>6. TypeOK
  <2>1. requests \in [Workers -> Request]
    BY IdleIsRequest DEF Init
  <2>2. Members \subseteq users /\ users = Users
    BY <1>1, WorkspaceAssumption DEF Init
  <2>3. /\ sub = NoSubscription /\ invoices = <<>> /\ now = 0 /\ lock = None
        /\ lowered = FALSE /\ workload \in Workloads
    BY DEF Init
  <2>4. now \in 0 .. MaxTime /\ invoices \in Seq(Invoice) /\ Len(invoices) <= MaxInvoices
    BY <1>4, <2>3
  <2>5. users \subseteq Users /\ tenant \in Plans \cup {None} /\ lowered \in BOOLEAN
    BY <1>3, <2>2, <2>3
  <2> QED
    BY <1>5, <2>1, <2>2, <2>3, <2>4, <2>5 DEF TypeOK
<1>7. RequestsCarry
  BY IdleIsRequest DEF Init, RequestsCarry, HoldsLock, Idle
<1>8. SeatsWithinPlan
  BY <1>1, <1>2, <1>3 DEF SeatsWithinPlan
<1>9. BillingInv /\ PeriodsBilledOnce /\ UpgradesChargeTheDifference
  BY <1>4 DEF Init, BillingInv, PeriodsBilledOnce, PeriodInvoices,
     UpgradesChargeTheDifference
<1> QED
  BY <1>1, <1>2, <1>6, <1>7, <1>8, <1>9 DEF IInv

LEMMA NextIInv == IInv /\ [Next]_vars => IInv'
<1> SUFFICES ASSUME IInv, [Next]_vars PROVE IInv'
  OBVIOUS
<1>1. CASE UNCHANGED vars
  <2>1. /\ Members' = Members /\ Manageable' = Manageable /\ SeatIsFree' = SeatIsFree
        /\ Ensured' = Ensured
    BY <1>1 DEF vars, Members, Manageable, SeatIsFree, Ensured
  <2>2. RequestsCarry'
    <3> SUFFICES ASSUME NEW v \in Workers PROVE HoldsLock(v)' /\ Carries(requests[v])'
      BY DEF RequestsCarry
    <3>1. requests'[v] = requests[v] /\ HoldsLock(v)' /\ Carries(requests[v])
      BY <1>1, RequestFacts DEF vars, HoldsLock
    <3> QED
      BY <1>1, <3>1, CarriesKept DEF vars
  <2>3. TypeOK' /\ SeatsWithinPlan'
    BY <1>1, <2>1 DEF vars, IInv, TypeOK, SeatsWithinPlan
  <2>4. BillingInv' /\ PeriodsBilledOnce' /\ UpgradesChargeTheDifference'
    BY <1>1 DEF vars, IInv, BillingInv, PeriodsBilledOnce, PeriodInvoices,
       UpgradesChargeTheDifference, Charged, ProratedInPeriod
  <2> QED
    BY <2>1, <2>2, <2>3, <2>4 DEF IInv
<1>2. ASSUME NEW w \in Workers,
             \/ Enter(w) \/ Meter(w)
             \/ WorkspacesRouter(w) \/ BillingRouter(w) \/ AdminRouter(w)
             \/ Commit(w) \/ Abort(w)
      PROVE  IInv'
  BY <1>2, EnterStep, MeterStep, InviteMemberStep, ChangeRoleStep, RemoveMemberStep,
     ChangePlanStep, BillPeriodStep, EraseOrganizationStep, CollectUserStep,
     DeleteUserStep, CommitStep, AbortStep
  DEF WorkspacesRouter, BillingRouter, AdminRouter
<1> QED
  BY <1>1, <1>2, TickStep DEF Next

LEMMA Invariance == Spec => []IInv
  BY InitIInv, NextIInv, PTL DEF Spec

\* No sequence of invitations and changes of plan, overlapping or not, seats
\* more members than the plan of the tenant allows.
THEOREM MembersFitThePlan == Spec => []TenantIsConsistent
<1>1. IInv => TenantIsConsistent
  BY DEF IInv, TenantIsConsistent
<1> QED
  BY <1>1, Invariance, PTL

\* What require_role and require_billing_admin have checked holds until the
\* commit, and so does what a demotion or removal has checked of its target.
THEOREM ChecksHoldUntilCommit == Spec => []AuthorityHeldUntilCommit
<1>1. IInv => AuthorityHeldUntilCommit
  <2> SUFFICES ASSUME IInv, NEW w \in Workers, requests[w].stage = "written",
                      requests[w].op # "eraseUser"
               PROVE  /\ Manages(requests[w].user)
                      /\ requests[w].op = "eraseOrg" => roles[requests[w].user] = "owner"
                      /\ requests[w].target # None => roles[requests[w].target] # "owner"
    BY DEF AuthorityHeldUntilCommit
  <2>1. Prepared(requests[w]) /\ Manages(requests[w].user)
    BY RequestFacts DEF Carries
  <2>2. requests[w].target # None => roles[requests[w].target] # "owner"
    BY <2>1, WorkspaceAssumption DEF Prepared, Manageable, Members, IInv, TypeOK, Roles
  <2> QED
    BY <2>1, <2>2 DEF Prepared
<1> QED
  BY <1>1, Invariance, PTL

\* run_period_billing bills consecutive periods, each once, whatever overlaps.
THEOREM EveryPeriodIsBilledOnce == Spec => []PeriodsBilledOnce
<1>1. IInv => PeriodsBilledOnce
  BY DEF IInv
<1> QED
  BY <1>1, Invariance, PTL

\* Upgrades within a period cost no more than a period of what the tenant ends
\* up with, for all prices, seats and moments: rounding gains the tenant or the
\* server nothing, however long the chain of upgrades is.
THEOREM UpgradesAreFair == Spec => []UpgradesChargeTheDifference
<1>1. IInv => UpgradesChargeTheDifference
  BY DEF IInv
<1> QED
  BY <1>1, Invariance, PTL

\* Only its owner ends a tenant, or the erasure of the user who is its last member.
THEOREM TenantsEndWithTheirMembers == Spec => TenantsWithMembersStay
<1> DEFINE A == (tenant # None /\ tenant' = None) =>
                    \/ Members \subseteq users \ users'
                    \/ \E w \in Workers : requests[w].op = "eraseOrg" /\
                                          roles[requests[w].user] = "owner"
<1>1. IInv /\ [Next]_vars => [A]_vars
  <2> SUFFICES ASSUME IInv, [Next]_vars, tenant # None, tenant' = None
               PROVE  \/ Members \subseteq users \ users'
                      \/ \E w \in Workers : requests[w].op = "eraseOrg" /\
                                            roles[requests[w].user] = "owner"
    OBVIOUS
  <2>1. PICK w \in Workers : Commit(w)
    BY ZenonT(40) DEF Next, vars, Enter, Meter, WorkspacesRouter, BillingRouter, AdminRouter,
           InviteMember, ChangeRole, RemoveMember, ChangePlan, BillPeriod,
           EraseOrganization, CollectUser, DeleteUser, Prepare, Abort, Tick
  <2>2. Prepared(requests[w]) /\ requests[w].user \in Users
    BY <2>1, CommitFacts
  <2>3. requests[w].dooms
    BY <2>1, <2>2, WorkspaceAssumption
    DEF Commit, Prepared, PlanReady, Covers, Subscription
  <2>4. requests[w].op \in {"eraseOrg", "eraseUser"}
    BY <2>1, <2>3, CommitFacts
  <2>5. CASE requests[w].op = "eraseOrg"
    BY <2>2, <2>5 DEF Prepared
  <2>6. CASE requests[w].op = "eraseUser"
    <3>1. Members \subseteq {requests[w].user}
      BY <2>2, <2>3, <2>6 DEF Prepared
    <3>2. users' = users \ {requests[w].user}
      BY <2>1, <2>6 DEF Commit
    <3>3. Members \subseteq users
      BY DEF IInv, TypeOK
    <3> QED
      BY <3>1, <3>2, <3>3
  <2> QED
    BY <2>4, <2>5, <2>6
<1> QED
  BY <1>1, Invariance, PTL DEF Spec, TenantsWithMembersStay

=============================================================================
