---------------------------- MODULE Subscriptions ----------------------------
(***************************************************************************)
(* A school's paid access to SchoolOS: the Subscription row, its           *)
(* BillingRecord rows (charges), the Tenant status that gates access, the  *)
(* platform-console handlers that change them and the daily sweep.         *)
(*                                                                         *)
(* No handler here runs in a database transaction across its statements    *)
(* (only onboarding creates tenant and subscription in one), so a step of  *)
(* the model is one awaited statement.  A handler keeps what it has read   *)
(* in its own record `req[r]`; the sweep keeps its rows in `sweep`.  Any   *)
(* of them may be cut short after any statement (an error, a redeploy).    *)
(*                                                                         *)
(* Time is counted in days of the PKT calendar; one period is Month days.  *)
(***************************************************************************)
EXTENDS Integers, FiniteSets

CONSTANTS
  Tenants,     \* schools
  Requests,    \* platform-console requests that may be in flight
  Charges,     \* supply of BillingRecord ids
  Prices,      \* negotiated monthly amounts
  GraceChoices,\* values PlatformSettings.subscriptionGracePeriodDays may take
  Month,       \* days in a period
  MaxTime,     \* bound: the last day the model looks at
  MaxCrashes,  \* bound: how many handlers or sweeps are cut short
  Ops,         \* the console operations that are used
  Overlap,     \* TRUE: handlers and the sweep interleave; FALSE: one at a time
  None         \* SQL NULL

AllOps == {"onboard", "create", "confirm", "price", "cancel", "status", "settings"}

ASSUME SubscriptionsAssumption ==
  /\ IsFiniteSet(Charges)
  /\ Prices # {}
  /\ GraceChoices \subseteq Nat /\ GraceChoices # {}
  /\ Month \in Nat \ {0}
  /\ MaxTime \in Nat
  /\ MaxCrashes \in Nat
  /\ Ops \subseteq AllOps
  /\ Overlap \in BOOLEAN
  /\ None \notin Tenants /\ None \notin Charges /\ None \notin Prices /\ None \notin Int

VARIABLES
  now,       \* the clock
  grace,     \* PlatformSettings.subscriptionGracePeriodDays
  tenant,    \* Tenant.status; "ABSENT" before the school is onboarded
  sub,       \* the tenant's Subscription row, status "NONE" while there is none
  charge,    \* BillingRecord rows, status "FREE" for an id not used yet
  req,       \* requests in flight
  sweep,     \* SubscriptionSweepService.runSweep
  crashes

vars == <<now, grace, tenant, sub, charge, req, sweep, crashes>>

IdleReq == [pc |-> "idle", t |-> None, end |-> 0, suspended |-> FALSE,
            charge |-> None, amount |-> None, then |-> "idle"]

IdleSweep == [pc |-> "idle", grace |-> 0, queue |-> {}, cur |-> None]

Init ==
  /\ now = 0
  /\ grace \in GraceChoices
  \* a tenant may exist before the console knows it (prisma/seed.ts)
  /\ tenant \in [Tenants -> {"ABSENT", "ACTIVE"}]
  /\ sub = [t \in Tenants |-> [status |-> "NONE", createdAt |-> 0, periodEnd |-> 0,
                               graceEndsAt |-> None, monthlyAmount |-> None]]
  /\ charge = [c \in Charges |-> [status |-> "FREE", t |-> None, issuedAt |-> 0,
                                  amount |-> None]]
  /\ req = [r \in Requests |-> IdleReq]
  /\ sweep = IdleSweep
  /\ crashes = 0

Quiet == /\ \A r \in Requests : req[r].pc = "idle"
         /\ sweep.pc = "idle"

\* A new request or sweep may be picked up.
MayStart == Overlap \/ Quiet

HasSub(t) == sub[t].status # "NONE"

\* Bound: a handler that will insert a charge starts only while an id is left.
ChargeLeft == \E c \in Charges : charge[c].status = "FREE"

-----------------------------------------------------------------------------
(* Charges: BillingService                                                 *)

Pending(t) == {c \in Charges : charge[c].status = "PENDING" /\ charge[c].t = t}

Paid(t) == {c \in Charges : charge[c].status = "PAID" /\ charge[c].t = t}

\* findFirst({ where: PENDING, orderBy: { issuedAt: 'desc' } })
LatestPending(t) ==
  {c \in Pending(t) : \A d \in Pending(t) : charge[d].issuedAt <= charge[c].issuedAt}

\* The statement of createPendingRecord: the period being charged starts at
\* req[r].end.  `then` is what the calling handler does next.
IssueCharge(r) ==
  /\ req[r].pc = "issue"
  /\ \E c \in Charges :
       /\ charge[c].status = "FREE"
       /\ charge' = [charge EXCEPT ![c] =
            [status |-> "PENDING", t |-> req[r].t, issuedAt |-> req[r].end,
             amount |-> req[r].amount]]
  /\ req' = [req EXCEPT ![r] =
       IF @.then = "reinstate" THEN [@ EXCEPT !.pc = "reinstate"] ELSE IdleReq]
  /\ UNCHANGED <<now, grace, tenant, sub, sweep, crashes>>

-----------------------------------------------------------------------------
(* Provisioning: SchoolsService.create, SubscriptionsService.create        *)

NewSubscription(price) ==
  [status |-> "ACTIVE", createdAt |-> now, periodEnd |-> now + Month,
   graceEndsAt |-> None, monthlyAmount |-> price]

\* Both provisioning paths insert the subscription and only afterwards, in a
\* statement of its own, the charge for its first period.
Provision(r, t, price) ==
  /\ req[r].pc = "idle" /\ MayStart /\ ChargeLeft
  /\ ~HasSub(t)     \* subscriptions.tenantId is unique: P2002 otherwise
  /\ sub' = [sub EXCEPT ![t] = NewSubscription(price)]
  /\ req' = [req EXCEPT ![r] = [IdleReq EXCEPT !.pc = "issue", !.t = t,
                                !.end = now, !.amount = price]]
  /\ UNCHANGED <<now, grace, charge, sweep, crashes>>

Onboard(r, t) ==
  /\ "onboard" \in Ops
  /\ tenant[t] = "ABSENT"
  /\ tenant' = [tenant EXCEPT ![t] = "ACTIVE"]
  /\ \E price \in Prices : Provision(r, t, price)

Create(r, t) ==
  /\ "create" \in Ops
  /\ tenant[t] # "ABSENT"
  /\ UNCHANGED tenant
  /\ \E price \in Prices : Provision(r, t, price)

-----------------------------------------------------------------------------
(* SubscriptionsService.confirmPayment, one action per awaited statement   *)

\* findOrThrow: the row and its tenant, as they stand now.
ConfirmRead(r, t) ==
  /\ "confirm" \in Ops
  /\ req[r].pc = "idle" /\ MayStart /\ ChargeLeft
  /\ HasSub(t)
  /\ req' = [req EXCEPT ![r] = [IdleReq EXCEPT !.pc = "find", !.t = t,
               !.end = sub[t].periodEnd, !.suspended = (tenant[t] = "SUSPENDED")]]
  /\ UNCHANGED <<now, grace, tenant, sub, charge, sweep, crashes>>

\* confirmPendingRecord's findFirst, and its exception when nothing is pending.
ConfirmFind(r) ==
  /\ req[r].pc = "find"
  /\ IF Pending(req[r].t) = {}
       THEN req' = [req EXCEPT ![r] = IdleReq]
       ELSE \E c \in LatestPending(req[r].t) :
              req' = [req EXCEPT ![r].pc = "mark", ![r].charge = c]
  /\ UNCHANGED <<now, grace, tenant, sub, charge, sweep, crashes>>

\* confirmPendingRecord's update: by id, whatever the row's status is by now.
ConfirmMark(r) ==
  /\ req[r].pc = "mark"
  /\ charge' = [charge EXCEPT ![req[r].charge].status = "PAID"]
  /\ req' = [req EXCEPT ![r].pc = "renew"]
  /\ UNCHANGED <<now, grace, tenant, sub, sweep, crashes>>

\* Mutant: renews from the period end as it stands at the update.
ConfirmRenewFromCurrent(r) ==
  LET t == req[r].t IN
  /\ req[r].pc = "renew"
  /\ sub' = [sub EXCEPT ![t].status = "ACTIVE", ![t].graceEndsAt = None,
                        ![t].periodEnd = @ + Month]
  /\ req' = [req EXCEPT ![r].pc = "issue", ![r].amount = sub[t].monthlyAmount,
               ![r].then = IF req[r].suspended THEN "reinstate" ELSE "idle"]
  /\ UNCHANGED <<now, grace, tenant, charge, sweep, crashes>>

\* Mutant: the new period starts on the day the payment is confirmed.
ConfirmRenewFromToday(r) ==
  LET t == req[r].t IN
  /\ req[r].pc = "renew"
  /\ sub' = [sub EXCEPT ![t].status = "ACTIVE", ![t].graceEndsAt = None,
                        ![t].periodEnd = now + Month]
  /\ req' = [req EXCEPT ![r].pc = "issue", ![r].amount = sub[t].monthlyAmount,
               ![r].then = IF req[r].suspended THEN "reinstate" ELSE "idle"]
  /\ UNCHANGED <<now, grace, tenant, charge, sweep, crashes>>

\* Mutant: a suspended school skips the charge for its new period.
ConfirmRenewNoCharge(r) ==
  LET t == req[r].t IN
  /\ req[r].pc = "renew"
  /\ sub' = [sub EXCEPT ![t].status = "ACTIVE", ![t].graceEndsAt = None,
                        ![t].periodEnd = req[r].end + Month]
  /\ req' = [req EXCEPT ![r].pc = IF req[r].suspended THEN "reinstate" ELSE "issue",
               ![r].amount = sub[t].monthlyAmount]
  /\ UNCHANGED <<now, grace, tenant, charge, sweep, crashes>>

\* Mutant: reinstates only a subscription that is still in its grace window.
ConfirmRenewGraceOnly(r) ==
  LET t == req[r].t IN
  /\ req[r].pc = "renew"
  /\ sub' = [sub EXCEPT ![t].status = "ACTIVE", ![t].graceEndsAt = None,
                        ![t].periodEnd = req[r].end + Month]
  /\ req' = [req EXCEPT ![r].pc = "issue", ![r].amount = sub[t].monthlyAmount,
               ![r].then = IF sub[t].status = "GRACE" THEN "reinstate" ELSE "idle"]
  /\ UNCHANGED <<now, grace, tenant, charge, sweep, crashes>>

\* Renews from the period end read at the start of the request.
ConfirmRenew(r) ==
  LET t == req[r].t IN
  /\ req[r].pc = "renew"
  /\ sub' = [sub EXCEPT ![t].status = "ACTIVE", ![t].graceEndsAt = None,
                        ![t].periodEnd = req[r].end + Month]
  /\ req' = [req EXCEPT ![r].pc = "issue", ![r].amount = sub[t].monthlyAmount,
               ![r].then = IF req[r].suspended THEN "reinstate" ELSE "idle"]
  /\ UNCHANGED <<now, grace, tenant, charge, sweep, crashes>>

\* Reached when the tenant was SUSPENDED as read at the start of the request.
ConfirmReinstate(r) ==
  /\ req[r].pc = "reinstate"
  /\ tenant' = [tenant EXCEPT ![req[r].t] = "ACTIVE"]
  /\ req' = [req EXCEPT ![r] = IdleReq]
  /\ UNCHANGED <<now, grace, sub, charge, sweep, crashes>>

-----------------------------------------------------------------------------
(* Handlers whose one write uses nothing they have read                    *)

ChangePrice(t) ==
  /\ "price" \in Ops /\ MayStart /\ HasSub(t)
  /\ \E price \in Prices : sub' = [sub EXCEPT ![t].monthlyAmount = price]
  /\ UNCHANGED <<now, grace, tenant, charge, req, sweep, crashes>>

\* Mutant: a canceled subscription keeps its grace deadline.
CancelKeepsDeadline(t) ==
  /\ "cancel" \in Ops /\ MayStart /\ HasSub(t)
  /\ sub' = [sub EXCEPT ![t].status = "CANCELED"]
  /\ UNCHANGED <<now, grace, tenant, charge, req, sweep, crashes>>

Cancel(t) ==
  /\ "cancel" \in Ops /\ MayStart /\ HasSub(t)
  /\ sub' = [sub EXCEPT ![t].status = "CANCELED", ![t].graceEndsAt = None]
  /\ UNCHANGED <<now, grace, tenant, charge, req, sweep, crashes>>

UpdateStatus(t) ==
  /\ "status" \in Ops /\ MayStart /\ tenant[t] # "ABSENT"
  /\ \E s \in {"ACTIVE", "SUSPENDED", "TRIAL"} : tenant' = [tenant EXCEPT ![t] = s]
  /\ UNCHANGED <<now, grace, sub, charge, req, sweep, crashes>>

UpdateSettings ==
  /\ "settings" \in Ops /\ MayStart
  /\ grace' \in GraceChoices
  /\ UNCHANGED <<now, tenant, sub, charge, req, sweep, crashes>>

-----------------------------------------------------------------------------
(* SubscriptionSweepService: expireLapsedPeriods, suspendLapsedGraceWindows *)

Rows(S) == {[t |-> t, end |-> sub[t].periodEnd] : t \in S}

Lapsed == {t \in Tenants : sub[t].status = "ACTIVE" /\ sub[t].periodEnd <= now}

\* Mutant: skips a school whose access is not simply ACTIVE.
OverdueActiveOnly == {t \in Tenants : /\ sub[t].status = "GRACE" /\ sub[t].graceEndsAt <= now
                                      /\ tenant[t] = "ACTIVE"}

Overdue == {t \in Tenants : sub[t].status = "GRACE" /\ sub[t].graceEndsAt <= now}

SweepStart ==
  /\ sweep.pc = "idle" /\ MayStart
  /\ sweep' = [IdleSweep EXCEPT !.pc = "read", !.grace = grace]
  /\ UNCHANGED <<now, grace, tenant, sub, charge, req, crashes>>

SweepReadLapsed ==
  /\ sweep.pc = "read"
  /\ sweep' = [sweep EXCEPT !.pc = "expire", !.queue = Rows(Lapsed)]
  /\ UNCHANGED <<now, grace, tenant, sub, charge, req, crashes>>

\* subscription.update({ where: { id } }): no condition on the row's status.
SweepExpire ==
  /\ sweep.pc = "expire"
  /\ \E row \in sweep.queue :
       /\ sub' = [sub EXCEPT ![row.t].status = "GRACE",
                             ![row.t].graceEndsAt = row.end + sweep.grace]
       /\ sweep' = [sweep EXCEPT !.queue = @ \ {row}]
  /\ UNCHANGED <<now, grace, tenant, charge, req, crashes>>

SweepReadOverdue ==
  /\ sweep.pc = "expire" /\ sweep.queue = {}
  /\ sweep' = [IdleSweep EXCEPT !.pc = "suspend", !.queue = Rows(Overdue)]
  /\ UNCHANGED <<now, grace, tenant, sub, charge, req, crashes>>

SweepSuspendSub ==
  /\ sweep.pc = "suspend"
  /\ \E row \in sweep.queue :
       /\ sub' = [sub EXCEPT ![row.t].status = "SUSPENDED"]
       /\ sweep' = [sweep EXCEPT !.pc = "suspendTenant", !.cur = row.t,
                                 !.queue = @ \ {row}]
  /\ UNCHANGED <<now, grace, tenant, charge, req, crashes>>

\* Mutant: copies the status enum of the wrong table.
SweepCopyStatus ==
  /\ sweep.pc = "suspendTenant"
  /\ tenant' = [tenant EXCEPT ![sweep.cur] = sub[sweep.cur].status]
  /\ sweep' = [sweep EXCEPT !.pc = "suspend", !.cur = None]
  /\ UNCHANGED <<now, grace, sub, charge, req, crashes>>

SweepSuspendTenant ==
  /\ sweep.pc = "suspendTenant"
  /\ tenant' = [tenant EXCEPT ![sweep.cur] = "SUSPENDED"]
  /\ sweep' = [sweep EXCEPT !.pc = "suspend", !.cur = None]
  /\ UNCHANGED <<now, grace, sub, charge, req, crashes>>

SweepEnd ==
  /\ sweep.pc = "suspend" /\ sweep.queue = {}
  /\ sweep' = IdleSweep
  /\ UNCHANGED <<now, grace, tenant, sub, charge, req, crashes>>

SweepStep == \/ SweepStart \/ SweepReadLapsed \/ SweepExpire
             \/ SweepReadOverdue \/ SweepSuspendSub \/ SweepSuspendTenant \/ SweepEnd

-----------------------------------------------------------------------------
(* Environment                                                             *)

Tick == /\ now < MaxTime
        /\ now' = now + 1
        /\ UNCHANGED <<grace, tenant, sub, charge, req, sweep, crashes>>

CrashRequest(r) ==
  /\ crashes < MaxCrashes /\ req[r].pc # "idle"
  /\ req' = [req EXCEPT ![r] = IdleReq]
  /\ crashes' = crashes + 1
  /\ UNCHANGED <<now, grace, tenant, sub, charge, sweep>>

CrashSweep ==
  /\ crashes < MaxCrashes /\ sweep.pc # "idle"
  /\ sweep' = IdleSweep
  /\ crashes' = crashes + 1
  /\ UNCHANGED <<now, grace, tenant, sub, charge, req>>

RequestStep(r) ==
  \/ \E t \in Tenants : Onboard(r, t) \/ Create(r, t) \/ ConfirmRead(r, t)
  \/ ConfirmFind(r) \/ ConfirmMark(r) \/ ConfirmRenew(r)
  \/ IssueCharge(r) \/ ConfirmReinstate(r)
  \/ CrashRequest(r)

AdminStep == \/ \E t \in Tenants : ChangePrice(t) \/ Cancel(t) \/ UpdateStatus(t)
             \/ UpdateSettings

Next == \/ \E r \in Requests : RequestStep(r)
        \/ AdminStep
        \/ SweepStep
        \/ CrashSweep
        \/ Tick

Spec == Init /\ [][Next]_vars

\* The cron fires every day and the process runs what it has started; nothing
\* obliges an administrator to send a request.
Fairness == WF_vars(SweepStep) /\ WF_vars(Tick)

FairSpec == Spec /\ Fairness

-----------------------------------------------------------------------------
(* Properties                                                              *)

SubStatus == {"NONE", "ACTIVE", "GRACE", "SUSPENDED", "CANCELED"}

SubscriptionRow ==
  [status : SubStatus, createdAt : Nat, periodEnd : Nat,
   graceEndsAt : Nat \cup {None}, monthlyAmount : Prices \cup {None}]

ChargeRow ==
  [status : {"FREE", "PENDING", "PAID"}, t : Tenants \cup {None}, issuedAt : Nat,
   amount : Prices \cup {None}]

RequestState ==
  [pc : {"idle", "find", "mark", "renew", "issue", "reinstate"},
   t : Tenants \cup {None}, end : Nat, suspended : BOOLEAN,
   charge : Charges \cup {None}, amount : Prices \cup {None},
   then : {"idle", "reinstate"}]

SweepState ==
  [pc : {"idle", "read", "expire", "suspend", "suspendTenant"}, grace : Nat,
   queue : SUBSET [t : Tenants, end : Nat], cur : Tenants \cup {None}]

TenantStatus == {"ABSENT", "ACTIVE", "SUSPENDED", "TRIAL"}

\* Every variable holds a value of its column or of its handler's locals.
TypeOK ==
  /\ now \in Nat
  /\ grace \in GraceChoices
  /\ tenant \in [Tenants -> TenantStatus]
  /\ sub \in [Tenants -> SubscriptionRow]
  /\ charge \in [Charges -> ChargeRow]
  /\ req \in [Requests -> RequestState]
  /\ sweep \in SweepState
  /\ crashes \in Nat

\* No month is given away: however console requests interleave with each other
\* and with the sweep, and wherever they are cut short, a school has been
\* granted at most its first month plus one month per charge marked PAID.
NoFreeMonth ==
  \A t \in Tenants : HasSub(t) =>
    sub[t].periodEnd <= sub[t].createdAt + Month * (Cardinality(Paid(t)) + 1)

\* A grace deadline is on the row exactly as long as it is in force: a row in
\* GRACE always carries one (the sweep's second query could not find it
\* otherwise), an ACTIVE or CANCELED row never keeps one from an earlier lapse.
GraceDeadline ==
  \A t \in Tenants :
    /\ sub[t].status = "GRACE" => sub[t].graceEndsAt # None
    /\ sub[t].status \in {"NONE", "ACTIVE", "CANCELED"} => sub[t].graceEndsAt = None

\* One row per billing period: no two charges of a school are for the same one,
\* between requests at most one is pending, and as long as nothing was cut short
\* every subscription has one that confirmPayment can confirm.
ChargePerPeriod ==
  /\ \A t \in Tenants : \A c, d \in Pending(t) \cup Paid(t) :
       c # d => charge[c].issuedAt # charge[d].issuedAt
  /\ Quiet => \A t \in Tenants :
       /\ Cardinality(Pending(t)) <= 1
       /\ crashes = 0 /\ HasSub(t) => Pending(t) # {}

\* With nobody setting tenant statuses by hand and no request cut short, a
\* confirmed payment restores access: no school with a running subscription
\* stays locked out.
PaidMeansAccess ==
  crashes = 0 /\ Quiet => \A t \in Tenants : sub[t].status = "ACTIVE" => tenant[t] # "SUSPENDED"

\* The row's life is the lifecycle the schema describes.
Lifecycle == INSTANCE SubscriptionLifecycle WITH
  life <- [t \in Tenants |-> [status |-> sub[t].status, periodEnd |-> sub[t].periodEnd,
                              graceEndsAt |-> sub[t].graceEndsAt]]

ImplementsLifecycle == Lifecycle!Spec

\* An unpaid school does not stay in an expired grace window, in spite of missed
\* and interrupted sweeps: a later sweep finds the row again.
GraceEnds ==
  \A t \in Tenants :
    (sub[t].status = "GRACE" /\ sub[t].graceEndsAt <= now) ~> (sub[t].status # "GRACE")

\* A sweep cut short is made up for by the next one: a subscription that was
\* suspended for non-payment does end up with its school suspended.
SuspensionCompletes ==
  \A t \in Tenants :
    (sub[t].status = "SUSPENDED") ~> (tenant[t] = "SUSPENDED" \/ sub[t].status # "SUSPENDED")
==============================================================================
