---------------------------- MODULE OpusWorkspace ---------------------------
(***************************************************************************)
(* One tenant of the Opus server: who its members are and in which roles   *)
(* (services/workspace_service.py), what it pays for (services/            *)
(* billing_service.py) and how it ends (services/compliance_service.py).   *)
(*                                                                         *)
(* A request under /organizations/{id} checks membership without a lock,   *)
(* then counts its use of the API, and so holds the database's one write   *)
(* lock while its service reads and writes, until it commits.  The erasure *)
(* of an account is not such a request: it reads which tenants the user    *)
(* belongs to before its first write.                                      *)
(***************************************************************************)
EXTENDS AccessLevels, FiniteSets, SequencesExt

CONSTANTS
    Users,
    Owner,        \* the user who registered the tenant
    Workers,      \* requests that can be in flight together
    None,
    Plans,        \* PLAN_LIMITS, with "free" among them
    Price,        \* cents per seat and period
    MaxSeats,
    Period,       \* BILLING_PERIOD_DAYS, in the units of now
    MaxTime,      \* bound of the model on now
    MaxInvoices,  \* bound of the model on the invoices of the tenant
    Workloads     \* sets of operations that clients may issue

Ops == {"invite", "role", "remove", "plan", "bill", "eraseOrg", "eraseUser"}

ASSUME WorkspaceAssumption ==
    /\ Owner \in Users
    /\ None \notin Users \cup Workers \cup Roles \cup Plans
    /\ "free" \in Plans
    /\ Price \in [Plans -> Nat] /\ MaxSeats \in [Plans -> Nat \ {0}]
    /\ Period \in Nat \ {0} /\ MaxTime \in Nat /\ MaxInvoices \in Nat
    /\ Workloads \subseteq SUBSET Ops

VARIABLES
    users,     \* accounts
    tenant,    \* the row of the organization: its plan, or None once erased
    roles,     \* memberships: the role of each user, or None
    sub,       \* the row of subscriptions
    invoices,  \* the rows of invoices, oldest first
    now,       \* the time
    lock,      \* holder of the database's write lock
    requests,  \* what each in-flight request has done and read
    lowered,   \* ghost: a plan change has cut the price in this period
    workload   \* ghost: the operations clients issue in this behaviour

vars == <<users, tenant, roles, sub, invoices, now, lock, requests, lowered, workload>>

Times == 0 .. MaxTime + (MaxInvoices + 1) * Period

Subscription == [plan : Plans, seats : Nat, start : Times, end : Times]

\* No row yet: the first use of billing creates one.
NoSubscription == [plan |-> None, seats |-> 0, start |-> 0, end |-> 0]

Invoice == [kind : {"period", "proration"}, amount : Nat, from : Times, until : Times]

NoInvoice == [kind |-> None, amount |-> 0, from |-> 0, until |-> 0]

Request == [stage   : {"idle", "entered", "locked", "collected", "written"},
            op      : Ops \cup {None},
            user    : Users \cup {None},
            target  : Users \cup {None},      \* the membership to be written:
            role    : Roles \cup {None},      \* a new role, or none
            sub     : Subscription \cup {NoSubscription},
            invoice : Invoice \cup {NoInvoice},
            listed  : BOOLEAN,                \* the user erased was a member
            dooms   : BOOLEAN]                \* the tenant goes with the user

Idle == [stage |-> "idle", op |-> None, user |-> None, target |-> None,
         role |-> None, sub |-> NoSubscription, invoice |-> NoInvoice,
         listed |-> FALSE, dooms |-> FALSE]

Members == {u \in Users : roles[u] # None}

TypeOK ==
    /\ users \subseteq Users
    /\ tenant \in Plans \cup {None}
    /\ roles \in [Users -> Roles \cup {None}] /\ Members \subseteq users
    /\ sub \in Subscription \cup {NoSubscription}
    /\ invoices \in Seq(Invoice) /\ Len(invoices) <= MaxInvoices
    /\ now \in 0 .. MaxTime
    /\ lock \in Workers \cup {None}
    /\ requests \in [Workers -> Request]
    /\ lowered \in BOOLEAN
    /\ workload \in Workloads

\* After Owner has registered.
Init ==
    /\ users = Users
    /\ tenant = "free"
    /\ roles = [u \in Users |-> IF u = Owner THEN "owner" ELSE None]
    /\ sub = NoSubscription /\ invoices = <<>>
    /\ now = 0
    /\ lock = None
    /\ requests = [w \in Workers |-> Idle]
    /\ lowered = FALSE
    /\ workload \in Workloads

-----------------------------------------------------------------------------
(* The frame of a tenant request.                                          *)

Enter(w) ==
    /\ requests[w].stage = "idle"
    /\ workload # {"eraseUser"} /\ tenant # None
    /\ \E u \in Members :
           requests' = [requests EXCEPT ![w] =
                           [Idle EXCEPT !.stage = "entered", !.user = u]]
    /\ UNCHANGED <<users, tenant, roles, sub, invoices, now, lock, lowered, workload>>

BadLockIsFree == TRUE

LockIsFree == lock = None

\* get_tenant_context counts the call, the first write of the session.
Meter(w) ==
    /\ requests[w].stage = "entered"
    /\ LockIsFree
    /\ lock' = w
    /\ requests' = [requests EXCEPT ![w].stage = "locked"]
    /\ UNCHANGED <<users, tenant, roles, sub, invoices, now, lowered, workload>>

\* _require_role and _require_billing_admin.
Manages(u) == roles[u] # None /\ AtLeast(roles[u], "admin")

\* The service leaves a request ready to commit what is in new.
Prepare(w, op, new) ==
    /\ requests[w].stage = "locked"
    /\ op \in workload
    /\ requests' = [requests EXCEPT ![w] = [new EXCEPT !.stage = "written",
                                                       !.op = op]]
    /\ UNCHANGED <<users, tenant, roles, sub, invoices, now, lock, lowered, workload>>

-----------------------------------------------------------------------------
(* Members.                                                                *)

BadSeatIsFree == Cardinality(Members) <= MaxSeats[tenant]

SeatIsFree == Cardinality(Members) < MaxSeats[tenant]

InviteMember(w) ==
    LET r == requests[w] IN
    /\ r.stage = "locked" /\ Manages(r.user)
    /\ tenant # None /\ SeatIsFree
    /\ \E u \in users \ Members, role \in Roles \ {"owner"} :
           Prepare(w, "invite", [r EXCEPT !.target = u, !.role = role])

\* Members that can be demoted and removed.
Manageable == {u \in Members : roles[u] # "owner"}

ChangeRole(w) ==
    LET r == requests[w] IN
    /\ r.stage = "locked" /\ Manages(r.user)
    /\ \E u \in Manageable, role \in Roles \ {"owner"} :
           Prepare(w, "role", [r EXCEPT !.target = u, !.role = role])

RemoveMember(w) ==
    LET r == requests[w] IN
    /\ r.stage = "locked" /\ Manages(r.user)
    /\ \E u \in Manageable : Prepare(w, "remove", [r EXCEPT !.target = u])

-----------------------------------------------------------------------------
(* Billing.                                                                *)

\* ensure_subscription.
Ensured ==
    IF sub # NoSubscription THEN sub
    ELSE [plan |-> "free", seats |-> 1, start |-> now, end |-> now + Period]

Monthly(s) == Price[s.plan] * s.seats

\* Python's round of amount * num / den: halves go to the even neighbour.
Rounded(amount, num, den) ==
    LET quotient == (amount * num) \div den
        double   == 2 * ((amount * num) % den)
    IN  IF double > den \/ (double = den /\ quotient % 2 = 1)
        THEN quotient + 1 ELSE quotient

Sooner(a, b) == IF a < b THEN a ELSE b

BadProration(old, new) ==
    Rounded(Monthly(new), old.end - Sooner(now, old.end), old.end - old.start)

\* The new price of what is left of the period, less the old one, or nothing.
Proration(old, new) ==
    LET left   == old.end - Sooner(now, old.end)
        length == old.end - old.start
        charge == Rounded(Monthly(new), left, length)
        credit == Rounded(Monthly(old), left, length)
    IN  IF charge > credit THEN charge - credit ELSE 0

ChangePlan(w) ==
    LET r == requests[w] IN
    /\ r.stage = "locked" /\ Manages(r.user)
    /\ tenant # None /\ Len(invoices) < MaxInvoices
    /\ \E plan \in Plans : \E seats \in 1 .. MaxSeats[plan] :
           LET new == [Ensured EXCEPT !.plan = plan, !.seats = seats]
               due == Proration(Ensured, new)
           IN  /\ seats >= Cardinality(Members)
               /\ Prepare(w, "plan",
                      [r EXCEPT !.sub = new,
                                !.invoice = IF due = 0 THEN NoInvoice
                                            ELSE [kind |-> "proration", amount |-> due,
                                                  from |-> now, until |-> new.end]])

BadRenewed(s) == [s EXCEPT !.end = @ + Period]

Renewed(s) == [s EXCEPT !.start = s.end, !.end = @ + Period]

\* run_period_billing, whether or not the period has ended.
BillPeriod(w) ==
    LET r == requests[w] IN
    /\ r.stage = "locked" /\ Manages(r.user)
    /\ tenant # None /\ Len(invoices) < MaxInvoices
    /\ Prepare(w, "bill",
               [r EXCEPT !.sub = Renewed(Ensured),
                         !.invoice = [kind |-> "period", amount |-> Monthly(Ensured),
                                      from |-> Ensured.start, until |-> Ensured.end]])

-----------------------------------------------------------------------------
(* Erasure.                                                                *)

EraseOrganization(w) ==
    LET r == requests[w] IN
    /\ r.stage = "locked" /\ roles[r.user] = "owner"
    /\ Prepare(w, "eraseOrg", [r EXCEPT !.dooms = TRUE])

\* erase_user lists the tenants of the user ...
CollectUser(w) ==
    /\ requests[w].stage = "idle" /\ "eraseUser" \in workload
    /\ \E u \in users :
           requests' = [requests EXCEPT ![w] =
                           [Idle EXCEPT !.stage = "collected", !.op = "eraseUser",
                                        !.user = u, !.listed = roles[u] # None]]
    /\ UNCHANGED <<users, tenant, roles, sub, invoices, now, lock, lowered, workload>>

BadOrphaned(r) == r.listed /\ Cardinality(Members) <= 2

\* Whether the tenant is one of those listed and nobody else is left in it.
Orphaned(r) == r.listed /\ Members \subseteq {r.user}

\* ... deletes the user, and then the listed tenants it leaves empty.
DeleteUser(w) ==
    LET r == requests[w] IN
    /\ r.stage = "collected"
    /\ LockIsFree
    /\ lock' = w
    /\ requests' = [requests EXCEPT ![w] = [r EXCEPT !.stage = "written",
                                                     !.dooms = Orphaned(r)]]
    /\ UNCHANGED <<users, tenant, roles, sub, invoices, now, lowered, workload>>

-----------------------------------------------------------------------------
(* The end of a request.                                                   *)

Released(w) == IF lock = w THEN None ELSE lock

\* The rows that reference the tenant, or the user, go with it.
RolesAfter(r) ==
    IF r.dooms THEN [u \in Users |-> None]
    ELSE CASE r.op = "eraseUser" -> [roles EXCEPT ![r.user] = None]
           [] r.op \in {"invite", "role", "remove"} ->
                  [roles EXCEPT ![r.target] = r.role]
           [] OTHER -> roles

Commit(w) ==
    LET r == requests[w] IN
    /\ r.stage = "written"
    /\ users' = IF r.op = "eraseUser" THEN users \ {r.user} ELSE users
    /\ roles' = RolesAfter(r)
    /\ tenant' = IF r.dooms THEN None ELSE IF r.op = "plan" THEN r.sub.plan ELSE tenant
    /\ sub' = CASE r.dooms                 -> NoSubscription
                [] r.op \in {"plan", "bill"} -> r.sub
                [] OTHER                   -> sub
    /\ invoices' = CASE r.dooms               -> <<>>
                     [] r.invoice # NoInvoice -> Append(invoices, r.invoice)
                     [] OTHER                 -> invoices
    /\ lowered' = CASE r.op = "bill" -> FALSE
                    [] r.op = "plan" -> lowered \/ Monthly(r.sub) < Monthly(Ensured)
                    [] OTHER         -> lowered
    /\ lock' = Released(w)
    /\ requests' = [requests EXCEPT ![w] = Idle]
    /\ UNCHANGED <<now, workload>>

\* A refusal, an error, a crash, or the end of a request that only read:
\* nothing is committed, nor is the call counted.
Abort(w) ==
    /\ requests[w].stage # "idle"
    /\ requests' = [requests EXCEPT ![w] = Idle]
    /\ lock' = Released(w)
    /\ UNCHANGED <<users, tenant, roles, sub, invoices, now, lowered, workload>>

Tick ==
    /\ now < MaxTime /\ "bill" \in workload
    /\ now' = now + 1
    /\ UNCHANGED <<users, tenant, roles, sub, invoices, lock, requests, lowered, workload>>

\* The routers of api/v1: what a request can be.
WorkspacesRouter(w) == InviteMember(w) \/ ChangeRole(w) \/ RemoveMember(w)

BillingRouter(w) == ChangePlan(w) \/ BillPeriod(w)

AdminRouter(w) == EraseOrganization(w) \/ CollectUser(w) \/ DeleteUser(w)

Next ==
    \/ \E w \in Workers :
          \/ Enter(w) \/ Meter(w)
          \/ WorkspacesRouter(w) \/ BillingRouter(w) \/ AdminRouter(w)
          \/ Commit(w) \/ Abort(w)
    \/ Tick

Spec == Init /\ [][Next]_vars

-----------------------------------------------------------------------------
(* Properties.                                                             *)

\* No sequence of invitations and changes of plan, overlapping or not, seats
\* more members than the plan allows: the invitation counts members against
\* the plan (workspace_service.py:64), the change of plan counts seats
\* against the new one and members against the seats (billing_service.py:93).
SeatsWithinPlan == tenant # None => Cardinality(Members) <= MaxSeats[tenant]

TenantIsConsistent == TypeOK /\ SeatsWithinPlan

\* Whoever is about to commit a change of members or billing still manages
\* the tenant, and whoever is about to be demoted or removed is not its
\* owner: checks and writes cannot be parted (workspace_service.py:34, 91).
AuthorityHeldUntilCommit ==
    \A w \in Workers :
        LET r == requests[w] IN
        (r.stage = "written" /\ r.op # "eraseUser") =>
            /\ Manages(r.user)
            /\ r.op = "eraseOrg" => roles[r.user] = "owner"
            /\ r.target # None => roles[r.target] # "owner"

PeriodInvoices == {i \in DOMAIN invoices : invoices[i].kind = "period"}

\* Every period is billed once: the full invoices cover consecutive periods
\* without gap or overlap, up to the start of the current one
\* (billing_service.py:166).
PeriodsBilledOnce ==
    /\ \A i \in PeriodInvoices : invoices[i].until = invoices[i].from + Period
    /\ \A i, j \in PeriodInvoices :
           (i < j /\ \A k \in i + 1 .. j - 1 : k \notin PeriodInvoices)
               => invoices[i].until = invoices[j].from
    /\ \A i \in PeriodInvoices :
           (\A j \in PeriodInvoices : j <= i) => invoices[i].until = sub.start

\* The prorations invoiced in the period that ends at end.
Prorates(row, end) == row.kind = "proration" /\ row.until = end

Charges(rows, end) ==
    FoldLeft(LAMBDA sum, row : IF Prorates(row, end) THEN sum + row.amount ELSE sum,
             0, rows)

Charged == Charges(invoices, sub.end)

\* None of them was invoiced before the period had begun.
ProratedInPeriod ==
    \A i \in DOMAIN invoices :
        Prorates(invoices[i], sub.end) => invoices[i].from >= sub.start

\* A chain of upgrades in one period charges the difference: with the
\* roundings, never more than a whole period of what the tenant ends up with
\* (billing_service.py:100).  The period must have begun: one billed early
\* leaves more than a period to prorate.
UpgradesChargeTheDifference ==
    (sub # NoSubscription /\ ~lowered /\ ProratedInPeriod) => Charged <= Monthly(sub)

\* A tenant is erased by its owner or together with its last member, never under
\* a member who stays (compliance_service.py:198).
TenantsWithMembersStay ==
    [][(tenant # None /\ tenant' = None) =>
           \/ Members \subseteq users \ users'
           \/ \E w \in Workers : requests[w].op = "eraseOrg" /\
                                 roles[requests[w].user] = "owner"]_vars

-----------------------------------------------------------------------------
(* What the documentation says and the code does not keep.                 *)

\* compliance_service.py:173: "then erase any org left with no members".
\* Read as: no tenant is left behind without members.
EmptyTenantsAreErased == tenant # None => Members # {}

\* billing_service.py:100: "Credit unused time on the old plan, charge
\* prorated new plan for the remainder of the current period".  Read as: the
\* changes of plan of one period do not charge more than a period of the
\* dearest subscription there is.
Dearest == CHOOSE p \in {Price[plan] * MaxSeats[plan] : plan \in Plans} :
               \A plan \in Plans : Price[plan] * MaxSeats[plan] <= p

NothingPaidTwice ==
    (sub # NoSubscription /\ ProratedInPeriod) => Charged <= Dearest
=============================================================================
