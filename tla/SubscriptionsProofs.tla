-------------------------- MODULE SubscriptionsProofs --------------------------
(***************************************************************************)
(* Theorems about Subscriptions, for any number of schools, requests and   *)
(* charges, any grace period and any interleaving, crashes included.       *)
(*                                                                         *)
(* NoFreeMonth is not inductive by itself: a request that has read a       *)
(* period end will extend the subscription from it several steps later.    *)
(* The invariant below says, for every request in flight, how much of what *)
(* it will grant is already covered by charges marked PAID.                *)
(***************************************************************************)
EXTENDS Subscriptions, FiniteSetTheorems, TLAPS

\* A handler that is under way works on a school.
RequestsTyped == \A r \in Requests : req[r].pc # "idle" => req[r].t \in Tenants

TypeInv == TypeOK /\ RequestsTyped

\* The day up to which a school that paid the charges in S may have access.
Granted(t, S) == sub[t].createdAt + Month * (Cardinality(S) + 1)

\* What the handlers and the sweep have in hand refers to subscriptions that exist.
InHandExists ==
  /\ \A r \in Requests : req[r].pc # "idle" => HasSub(req[r].t)
  /\ \A row \in sweep.queue : HasSub(row.t)

FindCovered(r) ==
  req[r].pc = "find" => req[r].end <= Granted(req[r].t, Paid(req[r].t))

\* The charge being confirmed may have been marked by another request already:
\* the period end read must be covered without it.
MarkCovered(r) ==
  req[r].pc = "mark" =>
    /\ req[r].charge \in Charges
    /\ charge[req[r].charge].status # "FREE"
    /\ charge[req[r].charge].t = req[r].t
    /\ req[r].end <= Granted(req[r].t, Paid(req[r].t) \ {req[r].charge})

RenewCovered(r) ==
  req[r].pc = "renew" => req[r].end + Month <= Granted(req[r].t, Paid(req[r].t))

Covered == \A r \in Requests : FindCovered(r) /\ MarkCovered(r) /\ RenewCovered(r)

IInv == TypeInv /\ InHandExists /\ NoFreeMonth /\ Covered

-----------------------------------------------------------------------------
(* Type correctness                                                          *)

LEMMA IdleTyped == IdleReq \in RequestState /\ IdleSweep \in SweepState
BY DEF IdleReq, RequestState, IdleSweep, SweepState

LEMMA TypeInit == Init => TypeInv
<1> SUFFICES ASSUME Init PROVE TypeInv
  OBVIOUS
<1>1. sub \in [Tenants -> SubscriptionRow]
  BY DEF Init, SubscriptionRow, SubStatus
<1>2. charge \in [Charges -> ChargeRow]
  BY DEF Init, ChargeRow
<1>3. TypeOK
  BY <1>1, <1>2, IdleTyped, SubscriptionsAssumption DEF Init, TypeOK, TenantStatus
<1>4. RequestsTyped
  BY DEF Init, RequestsTyped, IdleReq
<1> QED BY <1>3, <1>4 DEF TypeInv

LEMMA RowsTyped ==
  ASSUME TypeOK, NEW S \in SUBSET Tenants
  PROVE  Rows(S) \in SUBSET [t : Tenants, end : Nat]
BY DEF TypeOK, Rows, SubscriptionRow

\* A request that only moves on: its own state changes, to a typed one.
LEMMA RequestMoves ==
  ASSUME TypeInv, NEW r \in Requests, NEW q \in RequestState,
         q.pc # "idle" => q.t \in Tenants,
         req' = [req EXCEPT ![r] = q]
  PROVE  req' \in [Requests -> RequestState] /\ RequestsTyped'
BY DEF TypeInv, TypeOK, RequestsTyped

LEMMA ProvisionTyped ==
  ASSUME TypeInv, NEW r \in Requests, NEW t \in Tenants, NEW price \in Prices,
         Provision(r, t, price), tenant' \in [Tenants -> TenantStatus]
  PROVE  TypeInv'
<1> DEFINE q == [IdleReq EXCEPT !.pc = "issue", !.t = t, !.end = now, !.amount = price]
<1>1. NewSubscription(price) \in SubscriptionRow
  BY SubscriptionsAssumption DEF NewSubscription, SubscriptionRow, SubStatus, TypeInv, TypeOK
<1>2. q \in RequestState /\ q.t \in Tenants
  BY DEF IdleReq, RequestState, TypeInv, TypeOK
<1>3. req' = [req EXCEPT ![r] = q]
  BY DEF Provision
<1> HIDE DEF q
<1>4. req' \in [Requests -> RequestState] /\ RequestsTyped'
  BY <1>2, <1>3, RequestMoves
<1> QED BY <1>1, <1>4 DEF Provision, TypeInv, TypeOK

LEMMA RequestTyped ==
  ASSUME TypeInv, NEW r \in Requests, RequestStep(r)
  PROVE  TypeInv'
<1> USE DEF TypeInv
<1>0. req[r] \in RequestState /\ IdleReq.pc = "idle"
  BY DEF TypeOK, IdleReq
<1>1. ASSUME NEW t \in Tenants, Onboard(r, t) PROVE TypeInv'
  <2>1. tenant' \in [Tenants -> TenantStatus]
    BY <1>1 DEF Onboard, TypeOK, TenantStatus
  <2>2. PICK price \in Prices : Provision(r, t, price)
    BY <1>1 DEF Onboard
  <2> QED BY <2>1, <2>2, ProvisionTyped
<1>2. ASSUME NEW t \in Tenants, Create(r, t) PROVE TypeInv'
  <2>1. tenant' \in [Tenants -> TenantStatus]
    BY <1>2 DEF Create, TypeOK
  <2>2. PICK price \in Prices : Provision(r, t, price)
    BY <1>2 DEF Create
  <2> QED BY <2>1, <2>2, ProvisionTyped
<1>3. ASSUME NEW t \in Tenants, ConfirmRead(r, t) PROVE TypeInv'
  <2> DEFINE q == [IdleReq EXCEPT !.pc = "find", !.t = t,
               !.end = sub[t].periodEnd, !.suspended = (tenant[t] = "SUSPENDED")]
  <2>1. q \in RequestState /\ q.t \in Tenants
    BY DEF IdleReq, RequestState, TypeOK, SubscriptionRow
  <2>2. req' = [req EXCEPT ![r] = q]
    BY <1>3 DEF ConfirmRead
  <2> HIDE DEF q
  <2> QED BY <1>3, <2>1, <2>2, RequestMoves DEF ConfirmRead, TypeOK
<1>4. CASE ConfirmFind(r)
  <2>1. CASE Pending(req[r].t) = {}
    <3>1. req' = [req EXCEPT ![r] = IdleReq]
      BY <1>4, <2>1 DEF ConfirmFind
    <3> QED BY <1>0, <1>4, <3>1, IdleTyped, RequestMoves DEF ConfirmFind, TypeOK
  <2>2. CASE Pending(req[r].t) # {}
    <3>1. PICK c \in Charges : req' = [req EXCEPT ![r].pc = "mark", ![r].charge = c]
      BY <1>4, <2>2 DEF ConfirmFind, LatestPending, Pending
    <3> DEFINE q == [req[r] EXCEPT !.pc = "mark", !.charge = c]
    <3>2. q \in RequestState /\ q.t \in Tenants
      BY <1>0, <1>4 DEF RequestState, ConfirmFind, RequestsTyped
    <3>3. req' = [req EXCEPT ![r] = q]
      BY <1>0, <3>1 DEF RequestState, TypeOK
    <3> HIDE DEF q
    <3> QED BY <1>4, <3>2, <3>3, RequestMoves DEF ConfirmFind, TypeOK
  <2> QED BY <2>1, <2>2
<1>5. CASE ConfirmMark(r)
  <2>1. charge' \in [Charges -> ChargeRow]
    BY <1>5 DEF ConfirmMark, TypeOK, ChargeRow
  <2> DEFINE q == [req[r] EXCEPT !.pc = "renew"]
  <2>2. q \in RequestState /\ q.t \in Tenants
    BY <1>0, <1>5 DEF RequestState, ConfirmMark, RequestsTyped
  <2>3. req' = [req EXCEPT ![r] = q]
    BY <1>5 DEF ConfirmMark
  <2> HIDE DEF q
  <2> QED BY <1>5, <2>1, <2>2, <2>3, RequestMoves DEF ConfirmMark, TypeOK
<1>6. CASE ConfirmRenew(r)
  <2>1. req[r].t \in Tenants
    BY <1>6 DEF ConfirmRenew, RequestsTyped
  <2>2. sub' \in [Tenants -> SubscriptionRow]
    <3>1. req[r].end + Month \in Nat
      BY <1>0, SubscriptionsAssumption DEF RequestState
    <3> QED BY <1>6, <2>1, <3>1 DEF ConfirmRenew, TypeOK, SubscriptionRow, SubStatus
  <2> DEFINE q == [req[r] EXCEPT !.pc = "issue", !.amount = sub[req[r].t].monthlyAmount,
                     !.then = IF req[r].suspended THEN "reinstate" ELSE "idle"]
  <2>3. q \in RequestState /\ q.t \in Tenants
    BY <1>0, <2>1 DEF RequestState, TypeOK, SubscriptionRow
  <2>4. req' = [req EXCEPT ![r] = q]
    BY <1>6 DEF ConfirmRenew
  <2> HIDE DEF q
  <2> QED BY <1>6, <2>2, <2>3, <2>4, RequestMoves DEF ConfirmRenew, TypeOK
<1>7. CASE IssueCharge(r)
  <2>1. PICK c \in Charges : charge' = [charge EXCEPT ![c] =
            [status |-> "PENDING", t |-> req[r].t, issuedAt |-> req[r].end,
             amount |-> req[r].amount]]
    BY <1>7 DEF IssueCharge
  <2>2. charge' \in [Charges -> ChargeRow]
    BY <1>0, <2>1 DEF TypeOK, ChargeRow, RequestState
  <2> DEFINE q == IF req[r].then = "reinstate" THEN [req[r] EXCEPT !.pc = "reinstate"]
                                               ELSE IdleReq
  <2>3. q \in RequestState /\ (q.pc # "idle" => q.t \in Tenants)
    BY <1>0, <1>7, IdleTyped DEF RequestState, IssueCharge, RequestsTyped
  <2>4. req' = [req EXCEPT ![r] = q]
    BY <1>7 DEF IssueCharge
  <2> HIDE DEF q
  <2> QED BY <1>7, <2>2, <2>3, <2>4, RequestMoves DEF IssueCharge, TypeOK
<1>8. CASE ConfirmReinstate(r)
  <2>1. tenant' \in [Tenants -> TenantStatus]
    BY <1>8 DEF ConfirmReinstate, TypeOK, TenantStatus
  <2>2. req' = [req EXCEPT ![r] = IdleReq]
    BY <1>8 DEF ConfirmReinstate
  <2> QED BY <1>0, <1>8, <2>1, <2>2, IdleTyped, RequestMoves DEF ConfirmReinstate, TypeOK
<1>9. CASE CrashRequest(r)
  <2>1. req' = [req EXCEPT ![r] = IdleReq] /\ crashes' \in Nat
    BY <1>9 DEF CrashRequest, TypeOK
  <2> QED BY <1>0, <1>9, <2>1, IdleTyped, RequestMoves DEF CrashRequest, TypeOK
<1> QED BY <1>1, <1>2, <1>3, <1>4, <1>5, <1>6, <1>7, <1>8, <1>9 DEF RequestStep

LEMMA AdminTyped ==
  ASSUME TypeInv, AdminStep
  PROVE  TypeInv'
<1> USE DEF TypeInv, TypeOK, RequestsTyped
<1>1. ASSUME NEW t \in Tenants, ChangePrice(t) PROVE TypeInv'
  <2>1. PICK price \in Prices : sub' = [sub EXCEPT ![t].monthlyAmount = price]
    BY <1>1 DEF ChangePrice
  <2>2. sub' \in [Tenants -> SubscriptionRow]
    BY <2>1 DEF SubscriptionRow
  <2> QED BY <1>1, <2>2 DEF ChangePrice
<1>2. ASSUME NEW t \in Tenants, Cancel(t) PROVE TypeInv'
  <2>1. sub' \in [Tenants -> SubscriptionRow]
    BY <1>2 DEF Cancel, SubscriptionRow, SubStatus
  <2> QED BY <1>2, <2>1 DEF Cancel
<1>3. ASSUME NEW t \in Tenants, UpdateStatus(t) PROVE TypeInv'
  BY <1>3 DEF UpdateStatus, TenantStatus
<1>4. CASE UpdateSettings
  BY <1>4 DEF UpdateSettings
<1> QED BY <1>1, <1>2, <1>3, <1>4 DEF AdminStep

LEMMA SweepTyped ==
  ASSUME TypeInv, SweepStep \/ CrashSweep
  PROVE  TypeInv'
<1> USE SubscriptionsAssumption DEF TypeInv, TypeOK, RequestsTyped
<1>1. CASE SweepStart
  BY <1>1 DEF SweepStart, IdleSweep, SweepState
<1>2. CASE SweepReadLapsed
  <2>1. Rows(Lapsed) \in SUBSET [t : Tenants, end : Nat]
    BY RowsTyped DEF Lapsed
  <2> QED BY <1>2, <2>1 DEF SweepReadLapsed, SweepState
<1>3. CASE SweepExpire
  <2>1. PICK row \in sweep.queue :
          /\ sub' = [sub EXCEPT ![row.t].status = "GRACE",
                                ![row.t].graceEndsAt = row.end + sweep.grace]
          /\ sweep' = [sweep EXCEPT !.queue = @ \ {row}]
    BY <1>3 DEF SweepExpire
  <2>2. row.t \in Tenants /\ row.end + sweep.grace \in Nat
    BY DEF SweepState
  <2>3. sub' \in [Tenants -> SubscriptionRow]
    BY <2>1, <2>2 DEF SubscriptionRow, SubStatus
  <2>4. sweep' \in SweepState
    BY <2>1 DEF SweepState
  <2> QED BY <1>3, <2>3, <2>4 DEF SweepExpire
<1>4. CASE SweepReadOverdue
  <2>1. Rows(Overdue) \in SUBSET [t : Tenants, end : Nat]
    BY RowsTyped DEF Overdue
  <2> QED BY <1>4, <2>1 DEF SweepReadOverdue, IdleSweep, SweepState
<1>5. CASE SweepSuspendSub
  <2>1. PICK row \in sweep.queue :
          /\ sub' = [sub EXCEPT ![row.t].status = "SUSPENDED"]
          /\ sweep' = [sweep EXCEPT !.pc = "suspendTenant", !.cur = row.t,
                                    !.queue = @ \ {row}]
    BY <1>5 DEF SweepSuspendSub
  <2>2. sub' \in [Tenants -> SubscriptionRow]
    BY <2>1 DEF SubscriptionRow, SubStatus
  <2>3. sweep' \in SweepState
    BY <2>1 DEF SweepState
  <2> QED BY <1>5, <2>2, <2>3 DEF SweepSuspendSub
<1>6. CASE SweepSuspendTenant
  BY <1>6 DEF SweepSuspendTenant, SweepState, TenantStatus
<1>7. CASE SweepEnd
  BY <1>7, IdleTyped DEF SweepEnd
<1>8. CASE CrashSweep
  BY <1>8, IdleTyped DEF CrashSweep
<1> QED BY <1>1, <1>2, <1>3, <1>4, <1>5, <1>6, <1>7, <1>8 DEF SweepStep

LEMMA TypeStep == TypeInv /\ [Next]_vars => TypeInv'
<1> SUFFICES ASSUME TypeInv, [Next]_vars PROVE TypeInv'
  OBVIOUS
<1>1. CASE \E r \in Requests : RequestStep(r)
  BY <1>1, RequestTyped
<1>2. CASE AdminStep
  BY <1>2, AdminTyped
<1>3. CASE SweepStep \/ CrashSweep
  BY <1>3, SweepTyped
<1>4. CASE Tick
  BY <1>4 DEF Tick, TypeInv, TypeOK, RequestsTyped
<1>5. CASE UNCHANGED vars
  BY <1>5 DEF vars, TypeInv, TypeOK, RequestsTyped
<1> QED BY <1>1, <1>2, <1>3, <1>4, <1>5 DEF Next

\* Every variable keeps to its column's or its handler's type, in every
\* behaviour of the handlers, the sweep and their crashes.
THEOREM TypeCorrect == Spec => []TypeOK
<1>1. TypeInv => TypeOK
  BY DEF TypeInv
<1> QED BY TypeInit, TypeStep, <1>1, PTL DEF Spec

-----------------------------------------------------------------------------
(* No month is given away                                                    *)

\* More charges paid cover at least as much, and one more covers a month more.
LEMMA GrantArith ==
  ASSUME NEW a \in Nat, NEW m \in Nat, NEW n \in Nat
  PROVE  /\ m <= n => a + Month * (m + 1) <= a + Month * (n + 1)
         /\ a + Month * (m + 1) + Month = a + Month * ((m + 1) + 1)
<1>1. Month \in Nat
  BY SubscriptionsAssumption
<1>2. ASSUME m <= n PROVE Month * (m + 1) <= Month * (n + 1)
  <2>1. PICK d \in Nat : n = m + d
    <3>1. n - m \in Nat /\ n = m + (n - m)
      BY <1>2
    <3> QED BY <3>1
  <2>2. Month * (n + 1) = Month * (m + 1) + Month * d /\ Month * d \in Nat
    BY <1>1, <2>1
  <2> QED BY <1>1, <2>2
<1> QED BY <1>1, <1>2

LEMMA PaidFinite ==
  ASSUME NEW t
  PROVE  IsFiniteSet(Paid(t)) /\ Cardinality(Paid(t)) \in Nat
BY SubscriptionsAssumption, FS_Subset, FS_CardinalityType DEF Paid

\* What no step undoes: a subscription stays and keeps the day it began on, an
\* id in use stays the charge of its school, and a paid charge stays paid.
Kept ==
  /\ \A t \in Tenants : HasSub(t) => HasSub(t)' /\ sub'[t].createdAt = sub[t].createdAt
  /\ \A c \in Charges : charge[c].status # "FREE" =>
       /\ charge'[c].status # "FREE" /\ charge'[c].t = charge[c].t
       /\ charge[c].status = "PAID" => charge'[c].status = "PAID"

LEMMA NothingLost ==
  ASSUME TypeInv, InHandExists, [Next]_vars
  PROVE  Kept
<1> USE DEF TypeInv, Kept, HasSub
<1>1. ASSUME NEW r \in Requests, RequestStep(r) PROVE Kept
  <2>1. ASSUME NEW t \in Tenants, Onboard(r, t) \/ Create(r, t) PROVE Kept
    <3>1. PICK price \in Prices : Provision(r, t, price)
      BY <2>1 DEF Onboard, Create
    <3> QED BY <3>1 DEF Provision, TypeOK
  <2>2. ASSUME NEW t \in Tenants, ConfirmRead(r, t) PROVE Kept
    BY <2>2 DEF ConfirmRead
  <2>3. CASE ConfirmFind(r) \/ ConfirmReinstate(r) \/ CrashRequest(r)
    BY <2>3 DEF ConfirmFind, ConfirmReinstate, CrashRequest
  <2>4. CASE ConfirmMark(r)
    BY <2>4 DEF ConfirmMark, TypeOK, ChargeRow
  <2>5. CASE ConfirmRenew(r)
    BY <2>5 DEF ConfirmRenew, TypeOK, SubscriptionRow
  <2>6. CASE IssueCharge(r)
    BY <2>6 DEF IssueCharge, TypeOK
  <2> QED BY <1>1, <2>1, <2>2, <2>3, <2>4, <2>5, <2>6 DEF RequestStep
<1>2. CASE AdminStep
  <2>1. ASSUME NEW t \in Tenants, ChangePrice(t) PROVE Kept
    <3>1. PICK price \in Prices : sub' = [sub EXCEPT ![t].monthlyAmount = price]
      BY <2>1 DEF ChangePrice
    <3> QED BY <2>1, <3>1 DEF ChangePrice, TypeOK, SubscriptionRow
  <2>2. ASSUME NEW t \in Tenants, Cancel(t) PROVE Kept
    BY <2>2 DEF Cancel, TypeOK, SubscriptionRow
  <2>3. ASSUME NEW t \in Tenants, UpdateStatus(t) PROVE Kept
    BY <2>3 DEF UpdateStatus
  <2>4. CASE UpdateSettings
    BY <2>4 DEF UpdateSettings
  <2> QED BY <1>2, <2>1, <2>2, <2>3, <2>4 DEF AdminStep
<1>3. CASE SweepStep \/ CrashSweep
  <2>1. CASE SweepExpire
    <3>1. PICK row \in sweep.queue :
            sub' = [sub EXCEPT ![row.t].status = "GRACE",
                               ![row.t].graceEndsAt = row.end + sweep.grace]
      BY <2>1 DEF SweepExpire
    <3> QED BY <2>1, <3>1 DEF SweepExpire, TypeOK, SubscriptionRow
  <2>2. CASE SweepSuspendSub
    <3>1. PICK row \in sweep.queue : sub' = [sub EXCEPT ![row.t].status = "SUSPENDED"]
      BY <2>2 DEF SweepSuspendSub
    <3> QED BY <2>2, <3>1 DEF SweepSuspendSub, TypeOK, SubscriptionRow
  <2>3. CASE \/ SweepStart \/ SweepReadLapsed \/ SweepReadOverdue
             \/ SweepSuspendTenant \/ SweepEnd \/ CrashSweep
    BY <2>3 DEF SweepStart, SweepReadLapsed, SweepReadOverdue, SweepSuspendTenant,
                SweepEnd, CrashSweep
  <2> QED BY <1>3, <2>1, <2>2, <2>3 DEF SweepStep
<1>4. CASE Tick \/ UNCHANGED vars
  BY <1>4 DEF Tick, vars
<1> QED BY <1>1, <1>2, <1>3, <1>4 DEF Next

\* So what a set of paid charges covers never shrinks.
LEMMA GrantedGrows ==
  ASSUME TypeInv, TypeInv', Kept, NEW t \in Tenants, HasSub(t), NEW X
  PROVE  Granted(t, Paid(t) \ X) <= Granted(t, Paid(t) \ X)'
<1> DEFINE P == Paid(t)
           Q == Paid(t)'
<1>1. P \subseteq Q
  BY DEF Kept, Paid
<1>2. IsFiniteSet(P) /\ IsFiniteSet(Q)
  BY SubscriptionsAssumption, FS_Subset DEF Paid
<1> HIDE DEF P, Q
<1>3. IsFiniteSet(Q \ X) /\ IsFiniteSet(P \ X) /\ P \ X \subseteq Q \ X
  BY <1>1, <1>2, FS_Subset
<1>4. /\ Cardinality(P \ X) \in Nat /\ Cardinality(Q \ X) \in Nat
      /\ Cardinality(P \ X) <= Cardinality(Q \ X)
  BY <1>3, FS_Subset, FS_CardinalityType
<1>5. sub[t].createdAt \in Nat /\ sub'[t].createdAt = sub[t].createdAt
  BY DEF Kept, TypeInv, TypeOK, SubscriptionRow
<1>6. sub[t].createdAt + Month * (Cardinality(P \ X) + 1)
        <= sub[t].createdAt + Month * (Cardinality(Q \ X) + 1)
  BY <1>4, <1>5, GrantArith
<1> QED BY <1>5, <1>6 DEF Granted, P, Q

LEMMA InvInit == Init => IInv
<1> SUFFICES ASSUME Init PROVE IInv
  OBVIOUS
<1>1. InHandExists /\ Covered /\ NoFreeMonth
  BY DEF Init, IdleReq, IdleSweep, InHandExists, Covered, FindCovered, MarkCovered,
         RenewCovered, NoFreeMonth, HasSub
<1> QED BY <1>1, TypeInit DEF IInv

LEMMA GrantTyped ==
  ASSUME NEW a \in Nat, NEW S \in SUBSET Charges
  PROVE  a + Month * (Cardinality(S) + 1) \in Nat
<1>1. Cardinality(S) \in Nat
  BY SubscriptionsAssumption, FS_Subset, FS_CardinalityType
<1>2. ASSUME NEW m \in Nat, NEW n \in Nat PROVE a + m * (n + 1) \in Nat
  <2>1. m * (n + 1) \in Nat
    OBVIOUS
  <2> QED BY <2>1
<1> QED BY <1>1, <1>2, SubscriptionsAssumption

LEMMA GrantedTyped ==
  ASSUME NEW t \in Tenants, NEW X
  PROVE  /\ TypeOK => Granted(t, Paid(t) \ X) \in Nat /\ Granted(t, Paid(t)) \in Nat
         /\ TypeOK' => Granted(t, Paid(t) \ X)' \in Nat /\ Granted(t, Paid(t))' \in Nat
<1>1. /\ Paid(t) \subseteq Charges /\ Paid(t) \ X \subseteq Charges
      /\ Paid(t)' \subseteq Charges /\ Paid(t)' \ X \subseteq Charges
  BY DEF Paid
<1>2. /\ TypeOK => sub[t].createdAt \in Nat
      /\ TypeOK' => sub'[t].createdAt \in Nat
  BY DEF TypeOK, SubscriptionRow
<1> QED BY <1>1, <1>2, GrantTyped DEF Granted

\* A request that does not move keeps what covers it.
LEMMA CoveredKept ==
  ASSUME TypeInv, TypeInv', InHandExists, Kept, NEW q \in Requests,
         FindCovered(q), MarkCovered(q), RenewCovered(q), req'[q] = req[q]
  PROVE  FindCovered(q)' /\ MarkCovered(q)' /\ RenewCovered(q)'
<1>1. PICK t, c : t = req[q].t /\ c = req[q].charge
  OBVIOUS
<1>2. req[q].end \in Nat /\ Month \in Nat
  BY SubscriptionsAssumption DEF TypeInv, TypeOK, RequestState
<1>3. CASE req[q].pc \notin {"find", "mark", "renew"}
  BY <1>3 DEF FindCovered, MarkCovered, RenewCovered
<1>4. CASE req[q].pc \in {"find", "mark", "renew"}
  <2>1. t \in Tenants /\ HasSub(t)
    BY <1>1, <1>4 DEF TypeInv, RequestsTyped, InHandExists
  <2> DEFINE P == Granted(t, Paid(t))
             Q == Granted(t, Paid(t) \ {c})
  <2>2. P \in Nat /\ Q \in Nat
    BY <2>1, GrantedTyped DEF TypeInv
  <2>3. P' \in Nat /\ Q' \in Nat
    BY <2>1, GrantedTyped DEF TypeInv
  <2>4. P <= P'
    <3>1. Granted(t, Paid(t) \ {}) <= Granted(t, Paid(t) \ {})'
      BY <2>1, GrantedGrows
    <3>2. Paid(t) \ {} = Paid(t) /\ Paid(t)' \ {} = Paid(t)'
      OBVIOUS
    <3> QED BY <3>1, <3>2 DEF Granted
  <2>5. Q <= Q'
    BY <2>1, GrantedGrows
  <2>6. /\ P = Granted(req[q].t, Paid(req[q].t))
        /\ Q = Granted(req[q].t, Paid(req[q].t) \ {req[q].charge})
        /\ P' = Granted(req[q].t, Paid(req[q].t))'
        /\ Q' = Granted(req[q].t, Paid(req[q].t) \ {req[q].charge})'
    BY <1>1 DEF Granted, Paid
  <2> HIDE DEF P, Q
  <2>7. FindCovered(q)'
    BY <1>2, <2>2, <2>3, <2>4, <2>6 DEF FindCovered
  <2>8. RenewCovered(q)'
    BY <1>2, <2>2, <2>3, <2>4, <2>6 DEF RenewCovered
  <2>9. MarkCovered(q)'
    BY <1>2, <2>2, <2>3, <2>5, <2>6 DEF MarkCovered, Kept
  <2> QED BY <2>7, <2>8, <2>9
<1> QED BY <1>3, <1>4

\* A request's step is its own.
LEMMA OthersWait ==
  ASSUME TypeInv, NEW r \in Requests, RequestStep(r), NEW q \in Requests, q # r
  PROVE  req'[q] = req[q]
<1> USE DEF TypeInv, TypeOK
<1>1. ASSUME NEW t \in Tenants, Onboard(r, t) \/ Create(r, t) PROVE req'[q] = req[q]
  <2>1. PICK price \in Prices : Provision(r, t, price)
    BY <1>1 DEF Onboard, Create
  <2> QED BY <2>1 DEF Provision
<1>2. ASSUME NEW t \in Tenants, ConfirmRead(r, t) PROVE req'[q] = req[q]
  BY <1>2 DEF ConfirmRead
<1>3. CASE \/ ConfirmMark(r) \/ ConfirmRenew(r) \/ IssueCharge(r)
           \/ ConfirmReinstate(r) \/ CrashRequest(r)
  BY <1>3 DEF ConfirmMark, ConfirmRenew, IssueCharge, ConfirmReinstate, CrashRequest
<1>4. CASE ConfirmFind(r)
  BY <1>4 DEF ConfirmFind
<1> QED BY <1>1, <1>2, <1>3, <1>4 DEF RequestStep

\* The sweep's rows and the schools of the requests are subscriptions.
LEMMA InHandStep ==
  ASSUME TypeInv, TypeInv', InHandExists, Kept, [Next]_vars
  PROVE  InHandExists'
<1> USE DEF TypeInv, InHandExists
<1>1. ASSUME NEW r \in Requests, RequestStep(r) PROVE InHandExists'
  <2>1. sweep' = sweep
    BY <1>1 DEF RequestStep, Onboard, Create, Provision, ConfirmRead, ConfirmFind, ConfirmMark,
                ConfirmRenew, IssueCharge, ConfirmReinstate, CrashRequest
  <2>2. \A row \in sweep'.queue : HasSub(row.t)'
    BY <2>1 DEF Kept, TypeOK, SweepState
  <2> DEFINE Mine == (req[r].pc # "idle" => HasSub(req[r].t))'
  <2>3. Mine
    <3>1. ASSUME NEW t \in Tenants, Onboard(r, t) \/ Create(r, t) PROVE Mine
      <4>1. PICK price \in Prices : Provision(r, t, price)
        BY <3>1 DEF Onboard, Create
      <4>2. HasSub(t)'
        BY <4>1 DEF Provision, NewSubscription, HasSub, TypeOK
      <4>3. req'[r].t = t
        BY <4>1 DEF Provision, IdleReq, TypeOK
      <4> QED BY <4>2, <4>3 DEF HasSub
    <3>2. ASSUME NEW t \in Tenants, ConfirmRead(r, t) PROVE Mine
      <4>1. req'[r].t = t
        BY <3>2 DEF ConfirmRead, IdleReq, TypeOK
      <4> QED BY <3>2, <4>1 DEF ConfirmRead, HasSub
    <3>3. CASE req'[r].pc = "idle"
      BY <3>3
    <3>4. CASE req[r].pc # "idle" /\ req'[r].t = req[r].t
      BY <3>4 DEF Kept, RequestsTyped, HasSub
    <3>5. ConfirmFind(r) => req'[r].pc = "idle" \/ (req[r].pc # "idle" /\ req'[r].t = req[r].t)
      BY DEF ConfirmFind, IdleReq, TypeOK, RequestState
    <3>6. ConfirmMark(r) \/ ConfirmRenew(r) => req[r].pc # "idle" /\ req'[r].t = req[r].t
      BY DEF ConfirmMark, ConfirmRenew, TypeOK, RequestState
    <3>7. IssueCharge(r) => req'[r].pc = "idle" \/ (req[r].pc # "idle" /\ req'[r].t = req[r].t)
      BY DEF IssueCharge, IdleReq, TypeOK, RequestState
    <3>8. ConfirmReinstate(r) \/ CrashRequest(r) => req'[r].pc = "idle"
      BY DEF ConfirmReinstate, CrashRequest, IdleReq, TypeOK
    <3> HIDE DEF Mine
    <3> QED BY <1>1, <3>1, <3>2, <3>3, <3>4, <3>5, <3>6, <3>7, <3>8 DEF RequestStep
  <2>4. ASSUME NEW q \in Requests, q # r, req'[q].pc # "idle" PROVE HasSub(req[q].t)'
    <3>1. req'[q] = req[q]
      BY <1>1, <2>4, OthersWait
    <3> QED BY <2>4, <3>1 DEF Kept, RequestsTyped, HasSub
  <2> QED BY <2>2, <2>3, <2>4 DEF HasSub
<1>2. CASE AdminStep \/ Tick \/ UNCHANGED vars
  BY <1>2 DEF AdminStep, ChangePrice, Cancel, UpdateStatus, UpdateSettings, Tick, vars, Kept,
              TypeOK, SweepState, RequestsTyped
<1>3. CASE SweepStep \/ CrashSweep
  <2>1. req' = req
    BY <1>3 DEF SweepStep, SweepStart, SweepReadLapsed, SweepExpire, SweepReadOverdue,
                SweepSuspendSub, SweepSuspendTenant, SweepEnd, CrashSweep
  <2>2. \A row \in sweep'.queue : HasSub(row.t)
    <3>1. CASE SweepReadLapsed
      <4>1. sweep'.queue = Rows(Lapsed)
        BY <3>1 DEF SweepReadLapsed, TypeOK, SweepState
      <4> QED BY <4>1 DEF Rows, Lapsed, HasSub
    <3>2. CASE SweepReadOverdue
      BY <3>2 DEF SweepReadOverdue, Rows, Overdue, HasSub, IdleSweep
    <3>3. CASE SweepExpire \/ SweepSuspendSub \/ SweepSuspendTenant
      <4>1. CASE SweepExpire
        <5>1. PICK row \in sweep.queue : sweep' = [sweep EXCEPT !.queue = @ \ {row}]
          BY <4>1 DEF SweepExpire
        <5> QED BY <5>1 DEF TypeOK, SweepState
      <4>2. CASE SweepSuspendSub
        <5>1. PICK row \in sweep.queue : sweep' = [sweep EXCEPT !.pc = "suspendTenant",
                                                     !.cur = row.t, !.queue = @ \ {row}]
          BY <4>2 DEF SweepSuspendSub
        <5> QED BY <5>1 DEF TypeOK, SweepState
      <4>3. CASE SweepSuspendTenant
        BY <4>3 DEF SweepSuspendTenant, TypeOK, SweepState
      <4> QED BY <3>3, <4>1, <4>2, <4>3
    <3>4. CASE SweepStart \/ SweepEnd \/ CrashSweep
      <4>1. sweep'.queue = {}
        <5>1. CASE SweepStart
          BY <5>1 DEF SweepStart, IdleSweep
        <5>2. CASE SweepEnd \/ CrashSweep
          BY <5>2 DEF SweepEnd, CrashSweep, IdleSweep
        <5> QED BY <3>4, <5>1, <5>2
      <4> QED BY ONLY <4>1
    <3> QED BY <1>3, <3>1, <3>2, <3>3, <3>4 DEF SweepStep
  <2>3. \A row \in sweep'.queue : row.t \in Tenants
    BY DEF TypeOK, SweepState
  <2> QED BY <2>1, <2>2, <2>3 DEF Kept, RequestsTyped, HasSub
<1> QED BY <1>1, <1>2, <1>3 DEF Next

\* What covers a request after its own step.
LEMMA CoveredOwn ==
  ASSUME IInv, TypeInv', InHandExists', Kept, NEW r \in Requests, RequestStep(r)
  PROVE  FindCovered(r)' /\ MarkCovered(r)' /\ RenewCovered(r)'
<1> DEFINE Own == FindCovered(r)' /\ MarkCovered(r)' /\ RenewCovered(r)'
<1> USE DEF IInv, TypeInv
<1>1. CASE req'[r].pc \notin {"find", "mark", "renew"}
  BY <1>1 DEF FindCovered, MarkCovered, RenewCovered
<1>2. ASSUME NEW t \in Tenants, ConfirmRead(r, t) PROVE Own
  <2>1. req'[r].pc = "find" /\ req'[r].t = t /\ req'[r].end = sub[t].periodEnd
    BY <1>2 DEF ConfirmRead, IdleReq, TypeOK
  <2>2. sub[t].periodEnd <= Granted(t, Paid(t))
    BY <1>2 DEF ConfirmRead, NoFreeMonth, Granted
  <2>3. Granted(t, Paid(t))' = Granted(t, Paid(t))
    BY <1>2 DEF ConfirmRead, Granted, Paid
  <2> QED BY <2>1, <2>2, <2>3 DEF FindCovered, MarkCovered, RenewCovered, Granted, Paid
<1>3. CASE ConfirmFind(r)
  <2>1. CASE Pending(req[r].t) = {}
    BY <1>1, <1>3, <2>1 DEF ConfirmFind, IdleReq, TypeOK
  <2>2. CASE Pending(req[r].t) # {}
    <3>1. PICK c \in Charges : /\ charge[c].status = "PENDING" /\ charge[c].t = req[r].t
                               /\ req' = [req EXCEPT ![r].pc = "mark", ![r].charge = c]
      BY <1>3, <2>2 DEF ConfirmFind, LatestPending, Pending
    <3>2. /\ req'[r].pc = "mark" /\ req'[r].charge = c
          /\ req'[r].t = req[r].t /\ req'[r].end = req[r].end
      BY <3>1 DEF TypeOK, RequestState
    <3>3. Paid(req[r].t) \ {c} = Paid(req[r].t)
      BY <3>1 DEF Paid
    <3>4. req[r].end <= Granted(req[r].t, Paid(req[r].t) \ {c})
      BY <1>3, <3>3 DEF ConfirmFind, Covered, FindCovered
    <3>5. charge' = charge /\ sub' = sub
      BY <1>3 DEF ConfirmFind
    <3> QED BY <3>1, <3>2, <3>4, <3>5 DEF FindCovered, MarkCovered, RenewCovered, Granted, Paid
  <2> QED BY <2>1, <2>2
<1>4. CASE ConfirmMark(r)
  <2>1. PICK t \in Tenants, c \in Charges : t = req[r].t /\ c = req[r].charge
    BY <1>4 DEF ConfirmMark, Covered, MarkCovered, RequestsTyped
  <2>2. /\ charge[c].t = t
        /\ req[r].end <= Granted(t, Paid(t) \ {c})
    BY <1>4, <2>1 DEF ConfirmMark, Covered, MarkCovered
  <2>3. /\ req'[r].pc = "renew" /\ req'[r].t = t /\ req'[r].end = req[r].end
        /\ sub' = sub
    BY <1>4, <2>1 DEF ConfirmMark, TypeOK, RequestState
  <2>4. Paid(t)' = (Paid(t) \ {c}) \cup {c}
    BY <1>4, <2>1, <2>2 DEF ConfirmMark, Paid, TypeOK, ChargeRow
  <2>5. Granted(t, Paid(t) \ {c}) + Month = Granted(t, Paid(t))'
    <3>1. PICK n \in Nat : n = Cardinality(Paid(t) \ {c})
      BY PaidFinite, FS_Subset, FS_CardinalityType
    <3>2. Cardinality(Paid(t)') = n + 1
      <4> DEFINE S == Paid(t) \ {c}
      <4>1. IsFiniteSet(S) /\ c \notin S
        BY PaidFinite, FS_Subset
      <4> HIDE DEF S
      <4>2. Cardinality(S \cup {c}) = Cardinality(S) + 1
        BY <4>1, FS_AddElement
      <4> QED BY <2>4, <3>1, <4>2 DEF S
    <3>3. sub[t].createdAt \in Nat
      BY DEF TypeOK, SubscriptionRow
    <3>4. sub[t].createdAt + Month * (n + 1) + Month = sub[t].createdAt + Month * ((n + 1) + 1)
      BY <3>3, GrantArith
    <3> QED BY <2>3, <3>1, <3>2, <3>4 DEF Granted
  <2>6. req[r].end \in Nat /\ Granted(t, Paid(t) \ {c}) \in Nat
    BY GrantedTyped DEF TypeOK, RequestState
  <2>7. req[r].end + Month <= Granted(t, Paid(t))'
    BY <2>2, <2>5, <2>6, SubscriptionsAssumption
  <2> QED BY <2>3, <2>7 DEF FindCovered, MarkCovered, RenewCovered, Granted, Paid
<1>5. ASSUME NEW t \in Tenants, Onboard(r, t) \/ Create(r, t) PROVE Own
  <2>1. PICK price \in Prices : Provision(r, t, price)
    BY <1>5 DEF Onboard, Create
  <2>2. req'[r].pc = "issue"
    BY <2>1 DEF Provision, IdleReq, TypeOK
  <2> QED BY <1>1, <2>2
<1>6. CASE ConfirmRenew(r) \/ ConfirmReinstate(r) \/ CrashRequest(r)
  BY <1>1, <1>6 DEF ConfirmRenew, ConfirmReinstate, CrashRequest, IdleReq, TypeOK, RequestState
<1>7. CASE IssueCharge(r)
  BY <1>1, <1>7 DEF IssueCharge, IdleReq, TypeOK, RequestState
<1> QED BY <1>2, <1>3, <1>4, <1>5, <1>6, <1>7 DEF RequestStep

LEMMA CoveredStep ==
  ASSUME IInv, TypeInv', InHandExists', Kept, [Next]_vars
  PROVE  Covered'
<1> USE DEF IInv, Covered
<1>1. ASSUME NEW r \in Requests, RequestStep(r) PROVE Covered'
  <2>1. FindCovered(r)' /\ MarkCovered(r)' /\ RenewCovered(r)'
    BY <1>1, CoveredOwn
  <2>2. ASSUME NEW q \in Requests, q # r
        PROVE  FindCovered(q)' /\ MarkCovered(q)' /\ RenewCovered(q)'
    BY <1>1, <2>2, OthersWait, CoveredKept
  <2> QED BY <2>1, <2>2
<1>2. CASE AdminStep \/ Tick \/ UNCHANGED vars \/ SweepStep \/ CrashSweep
  <2>1. req' = req
    BY <1>2 DEF AdminStep, ChangePrice, Cancel, UpdateStatus, UpdateSettings, Tick, vars,
                SweepStep, SweepStart, SweepReadLapsed, SweepExpire, SweepReadOverdue,
                SweepSuspendSub, SweepSuspendTenant, SweepEnd, CrashSweep
  <2> QED BY <2>1, CoveredKept
<1> QED BY <1>1, <1>2 DEF Next

LEMMA NoFreeMonthStep ==
  ASSUME IInv, TypeInv', Kept, [Next]_vars
  PROVE  NoFreeMonth'
<1> USE DEF IInv, TypeInv
<1> SUFFICES ASSUME NEW t \in Tenants, HasSub(t)'
             PROVE  sub'[t].periodEnd <= Granted(t, Paid(t))'
  BY DEF NoFreeMonth, Granted
\* A step that leaves the period alone: what covers it can only grow.
<1>1. ASSUME HasSub(t), sub'[t].periodEnd = sub[t].periodEnd
      PROVE  sub'[t].periodEnd <= Granted(t, Paid(t))'
  <2>1. sub[t].periodEnd <= Granted(t, Paid(t))
    BY <1>1 DEF NoFreeMonth, Granted
  <2>2. Granted(t, Paid(t) \ {}) <= Granted(t, Paid(t) \ {})'
    BY <1>1, GrantedGrows
  <2>3. Paid(t) \ {} = Paid(t) /\ Paid(t)' \ {} = Paid(t)'
    OBVIOUS
  <2>4. sub[t].periodEnd \in Nat /\ Granted(t, Paid(t)) \in Nat /\ Granted(t, Paid(t))' \in Nat
    BY GrantedTyped DEF TypeOK, SubscriptionRow
  <2> QED BY <1>1, <2>1, <2>2, <2>3, <2>4 DEF Granted
\* The first period is the free one.
<1>2. ASSUME NEW r \in Requests, NEW u \in Tenants, Onboard(r, u) \/ Create(r, u), u = t
      PROVE  sub'[t].periodEnd <= Granted(t, Paid(t))'
  <2>1. PICK price \in Prices : Provision(r, t, price)
    BY <1>2 DEF Onboard, Create
  <2>2. sub'[t].periodEnd = now + Month /\ sub'[t].createdAt = now
    BY <2>1 DEF Provision, NewSubscription, TypeOK
  <2>3. Granted(t, Paid(t))' = now + Month * (Cardinality(Paid(t)') + 1)
    BY <2>2 DEF Granted
  <2>4. Cardinality(Paid(t)') \in Nat /\ now \in Nat
    <3>1. Paid(t)' \subseteq Charges
      BY DEF Paid
    <3> QED BY <3>1, SubscriptionsAssumption, FS_Subset, FS_CardinalityType DEF TypeOK
  <2>5. now + Month * (0 + 1) <= now + Month * (Cardinality(Paid(t)') + 1)
    <3>1. 0 \in Nat /\ 0 <= Cardinality(Paid(t)')
      BY <2>4
    <3> HIDE DEF TypeInv, IInv
    <3> QED BY ONLY <2>4, <3>1, GrantArith
  <2>6. Month * (0 + 1) = Month
    BY SubscriptionsAssumption
  <2> QED BY <2>2, <2>3, <2>5, <2>6
\* A renewal grants what a charge marked earlier in the same request covers.
<1>3. ASSUME NEW r \in Requests, ConfirmRenew(r), req[r].t = t
      PROVE  sub'[t].periodEnd <= Granted(t, Paid(t))'
  <2>1. req[r].end + Month <= Granted(t, Paid(t))
    BY <1>3 DEF ConfirmRenew, Covered, RenewCovered
  <2>2. sub'[t].periodEnd = req[r].end + Month /\ sub'[t].createdAt = sub[t].createdAt
    BY <1>3 DEF ConfirmRenew, TypeOK, SubscriptionRow
  <2>3. charge' = charge
    BY <1>3 DEF ConfirmRenew
  <2> QED BY <2>1, <2>2, <2>3 DEF Granted, Paid
<1>4. ASSUME NEW r \in Requests, RequestStep(r)
      PROVE  \/ HasSub(t) /\ sub'[t].periodEnd = sub[t].periodEnd
             \/ \E u \in Tenants : (Onboard(r, u) \/ Create(r, u)) /\ u = t
             \/ ConfirmRenew(r) /\ req[r].t = t
  <2>1. ASSUME NEW u \in Tenants, Onboard(r, u) \/ Create(r, u), u # t
        PROVE  HasSub(t) /\ sub'[t].periodEnd = sub[t].periodEnd
    <3>1. PICK price \in Prices : Provision(r, u, price)
      BY <2>1 DEF Onboard, Create
    <3> QED BY <2>1, <3>1 DEF Provision, HasSub, TypeOK
  <2>2. ASSUME ConfirmRenew(r), req[r].t # t
        PROVE  HasSub(t) /\ sub'[t].periodEnd = sub[t].periodEnd
    BY <2>2 DEF ConfirmRenew, HasSub, TypeOK
  <2>3. CASE sub' = sub
    BY <2>3 DEF HasSub
  <2>4. \/ \E u \in Tenants : Onboard(r, u) \/ Create(r, u)
        \/ ConfirmRenew(r)
        \/ sub' = sub
    BY <1>4 DEF RequestStep, ConfirmRead, ConfirmFind, ConfirmMark, IssueCharge,
                ConfirmReinstate, CrashRequest
  <2> QED BY <2>1, <2>2, <2>3, <2>4
<1>5. CASE AdminStep \/ SweepStep \/ CrashSweep \/ Tick \/ UNCHANGED vars
  <2>1. CASE AdminStep
    <3>1. ASSUME NEW u \in Tenants, ChangePrice(u)
          PROVE  HasSub(t) /\ sub'[t].periodEnd = sub[t].periodEnd
      <4>1. PICK price \in Prices : sub' = [sub EXCEPT ![u].monthlyAmount = price]
        BY <3>1 DEF ChangePrice
      <4> QED BY <4>1 DEF HasSub, TypeOK, SubscriptionRow
    <3>2. ASSUME NEW u \in Tenants, Cancel(u)
          PROVE  HasSub(t) /\ sub'[t].periodEnd = sub[t].periodEnd
      BY <3>2 DEF Cancel, HasSub, TypeOK, SubscriptionRow
    <3>3. CASE sub' = sub
      BY <1>1, <3>3 DEF HasSub
    <3> QED BY <1>1, <2>1, <3>1, <3>2, <3>3 DEF AdminStep, UpdateStatus, UpdateSettings
  <2>2. CASE SweepExpire
    <3>1. PICK row \in sweep.queue :
            sub' = [sub EXCEPT ![row.t].status = "GRACE",
                               ![row.t].graceEndsAt = row.end + sweep.grace]
      BY <2>2 DEF SweepExpire
    <3>2. HasSub(row.t)
      BY DEF InHandExists
    <3> QED BY <1>1, <3>1, <3>2 DEF HasSub, TypeOK, SubscriptionRow
  <2>3. CASE SweepSuspendSub
    <3>1. PICK row \in sweep.queue : sub' = [sub EXCEPT ![row.t].status = "SUSPENDED"]
      BY <2>3 DEF SweepSuspendSub
    <3>2. HasSub(row.t)
      BY DEF InHandExists
    <3> QED BY <1>1, <3>1, <3>2 DEF HasSub, TypeOK, SubscriptionRow
  <2>4. CASE sub' = sub
    BY <1>1, <2>4 DEF HasSub
  <2> QED BY <1>5, <2>1, <2>2, <2>3, <2>4
          DEF SweepStep, SweepStart, SweepReadLapsed, SweepReadOverdue,
              SweepSuspendTenant, SweepEnd, CrashSweep, Tick, vars
<1> QED BY <1>1, <1>2, <1>3, <1>4, <1>5 DEF Next

LEMMA InvStep == IInv /\ [Next]_vars => IInv'
<1> SUFFICES ASSUME IInv, [Next]_vars PROVE IInv'
  OBVIOUS
<1>1. TypeInv'
  BY TypeStep DEF IInv
<1>2. Kept
  BY NothingLost DEF IInv
<1>3. InHandExists'
  BY <1>1, <1>2, InHandStep DEF IInv
<1> QED BY <1>1, <1>2, <1>3, CoveredStep, NoFreeMonthStep DEF IInv

\* However confirmations, cancellations, price changes, sweeps and crashes
\* interleave, a school never has access granted beyond its first month and the
\* months whose charges were marked PAID.
THEOREM NeverAFreeMonth == Spec => []NoFreeMonth
<1>1. IInv => NoFreeMonth
  BY DEF IInv
<1> QED BY InvInit, InvStep, <1>1, PTL DEF Spec

-----------------------------------------------------------------------------
\* The sweep finds every row in GRACE by its deadline: setting the status and
\* the deadline never come apart, in any interleaving.
THEOREM DeadlineKept == Spec => []GraceDeadline
<1>1. Init => GraceDeadline
  BY DEF Init, GraceDeadline
<1>2. TypeInv /\ GraceDeadline /\ [Next]_vars => GraceDeadline'
  <2> SUFFICES ASSUME TypeInv, GraceDeadline, [Next]_vars PROVE GraceDeadline'
    OBVIOUS
  <2> USE SubscriptionsAssumption DEF TypeInv, TypeOK, GraceDeadline
  <2>1. CASE sub' = sub
    BY <2>1
  <2>2. ASSUME NEW r \in Requests, NEW t \in Tenants, Onboard(r, t) \/ Create(r, t)
        PROVE  GraceDeadline'
    <3>1. PICK price \in Prices : Provision(r, t, price)
      BY <2>2 DEF Onboard, Create
    <3> QED BY <3>1 DEF Provision, NewSubscription
  <2>3. ASSUME NEW r \in Requests, ConfirmRenew(r) PROVE GraceDeadline'
    BY <2>3 DEF ConfirmRenew, SubscriptionRow
  <2>4. ASSUME NEW t \in Tenants, ChangePrice(t) PROVE GraceDeadline'
    <3>1. PICK price \in Prices : sub' = [sub EXCEPT ![t].monthlyAmount = price]
      BY <2>4 DEF ChangePrice
    <3> QED BY <3>1 DEF SubscriptionRow
  <2>5. ASSUME NEW t \in Tenants, Cancel(t) PROVE GraceDeadline'
    BY <2>5 DEF Cancel, SubscriptionRow
  <2>6. CASE SweepExpire
    <3>1. PICK row \in sweep.queue :
            sub' = [sub EXCEPT ![row.t].status = "GRACE",
                               ![row.t].graceEndsAt = row.end + sweep.grace]
      BY <2>6 DEF SweepExpire
    <3>2. row.end + sweep.grace # None
      BY DEF SweepState
    <3> QED BY <3>1, <3>2 DEF SubscriptionRow
  <2>7. CASE SweepSuspendSub
    <3>1. PICK row \in sweep.queue : sub' = [sub EXCEPT ![row.t].status = "SUSPENDED"]
      BY <2>7 DEF SweepSuspendSub
    <3> QED BY <3>1 DEF SubscriptionRow
  <2>8. \/ sub' = sub
        \/ \E r \in Requests : ConfirmRenew(r) \/ \E t \in Tenants : Onboard(r, t) \/ Create(r, t)
        \/ \E t \in Tenants : ChangePrice(t) \/ Cancel(t)
        \/ SweepExpire \/ SweepSuspendSub
    BY DEF Next, vars, RequestStep, ConfirmRead, ConfirmFind, ConfirmMark, IssueCharge,
           ConfirmReinstate, CrashRequest, AdminStep, UpdateStatus, UpdateSettings, SweepStep,
           SweepStart, SweepReadLapsed, SweepReadOverdue, SweepSuspendTenant, SweepEnd,
           CrashSweep, Tick
  <2> QED BY <2>1, <2>2, <2>3, <2>4, <2>5, <2>6, <2>7, <2>8
<1> QED BY TypeInit, TypeStep, <1>1, <1>2, PTL DEF Spec

-----------------------------------------------------------------------------
(* One handler at a time.  With Overlap FALSE, what a handler or the sweep    *)
(* has read is still true when it writes.                                     *)

Turn ==
  \A r \in Requests : req[r].pc # "idle" =>
    sweep.pc = "idle" /\ \A s \in Requests : s # r => req[s].pc = "idle"

\* What a request has read, and what it has yet to charge.
Stands(r) ==
  /\ req[r].pc \in {"find", "mark", "renew"} =>
       /\ req[r].end = sub[req[r].t].periodEnd
       /\ req[r].suspended = (tenant[req[r].t] = "SUSPENDED")
  /\ req[r].pc = "mark" => /\ req[r].charge \in Charges
                           /\ charge[req[r].charge].status = "PENDING"
                           /\ charge[req[r].charge].t = req[r].t
  /\ req[r].pc \in {"renew", "issue"} =>
       \A c \in Charges : charge[c].t = req[r].t => charge[c].status # "PENDING"
  /\ req[r].pc = "issue" =>
       /\ req[r].end < sub[req[r].t].periodEnd
       /\ \A c \in Charges : charge[c].status # "FREE" /\ charge[c].t = req[r].t =>
            charge[c].issuedAt < req[r].end

\* The rows in the sweep's queue are as the sweep read them.
SweepStands ==
  /\ sweep.pc \in {"read", "expire"} => sweep.grace \in GraceChoices
  /\ sweep.pc = "expire" => \A row \in sweep.queue :
       /\ sub[row.t].status = "ACTIVE"
       /\ sub[row.t].periodEnd = row.end /\ row.end <= now
  /\ sweep.pc \in {"suspend", "suspendTenant"} => \A row \in sweep.queue :
       /\ sub[row.t].status = "GRACE" /\ sub[row.t].graceEndsAt <= now
       /\ sub[row.t].periodEnd = row.end
  /\ sweep.pc = "suspendTenant" => /\ sweep.cur \in Tenants
                                   /\ sub[sweep.cur].status = "SUSPENDED"

\* A school's charges are for periods that have begun, one each.
BooksStand ==
  /\ \A c \in Charges : charge[c].status # "FREE" =>
       /\ charge[c].t \in Tenants /\ HasSub(charge[c].t)
       /\ charge[c].issuedAt < sub[charge[c].t].periodEnd
  /\ \A c, d \in Charges :
       charge[c].status # "FREE" /\ charge[d].status # "FREE" /\ charge[c].t = charge[d].t =>
         /\ charge[c].issuedAt = charge[d].issuedAt => c = d
         /\ charge[c].status = "PENDING" /\ charge[d].status = "PENDING" => c = d

\* The next charge is pending or about to be issued.
Charged ==
  crashes = 0 => \A t \in Tenants : HasSub(t) =>
    \/ \E c \in Charges : charge[c].status = "PENDING" /\ charge[c].t = t
    \/ \E r \in Requests : req[r].pc \in {"renew", "issue"} /\ req[r].t = t

InTurn ==
  Turn /\ (\A r \in Requests : Stands(r)) /\ SweepStands /\ BooksStand /\ Charged

\* Without statuses set by hand, a suspended school whose subscription runs is
\* about to be reinstated.
AccessDue ==
  /\ \A t \in Tenants : tenant[t] = "SUSPENDED" => HasSub(t)
  /\ crashes = 0 => \A t \in Tenants :
       sub[t].status = "ACTIVE" /\ tenant[t] = "SUSPENDED" =>
         \E r \in Requests : /\ req[r].t = t
                             /\ \/ req[r].pc = "reinstate"
                                \/ req[r].pc = "issue" /\ req[r].then = "reinstate"

\* A request steps alone: the sweep rests and every other request is idle.
LEMMA StepsAlone ==
  ASSUME ~Overlap, TypeInv, Turn, NEW r \in Requests, RequestStep(r)
  PROVE  /\ sweep.pc = "idle" /\ sweep' = sweep
         /\ \A s \in Requests : s # r => req[s].pc = "idle" /\ req'[s] = req[s]
<1>1. sweep' = sweep /\ \A s \in Requests : s # r => req'[s] = req[s]
  <2>1. \/ \E q : req' = [req EXCEPT ![r] = q]
        \/ ConfirmFind(r) \/ ConfirmMark(r) \/ ConfirmRenew(r)
    BY DEF RequestStep, Onboard, Create, Provision, ConfirmRead, IssueCharge,
           ConfirmReinstate, CrashRequest
  <2>2. \A s \in Requests : s # r => req'[s] = req[s]
    BY <2>1 DEF ConfirmFind, ConfirmMark, ConfirmRenew, TypeInv, TypeOK
  <2>3. sweep' = sweep
    BY DEF RequestStep, Onboard, Create, Provision, ConfirmRead, ConfirmFind, ConfirmMark,
           ConfirmRenew, IssueCharge, ConfirmReinstate, CrashRequest
  <2> QED BY <2>2, <2>3
<1>2. CASE req[r].pc # "idle"
  BY <1>1, <1>2 DEF Turn
<1>3. CASE MayStart
  BY <1>1, <1>3 DEF MayStart, Quiet
<1>4. req[r].pc # "idle" \/ MayStart
  BY DEF RequestStep, Onboard, Create, Provision, ConfirmRead, ConfirmFind, ConfirmMark,
         ConfirmRenew, IssueCharge, ConfirmReinstate, CrashRequest
<1> QED BY <1>2, <1>3, <1>4

\* So only its own record and the books have to be looked at.
LEMMA OwnInTurn ==
  ASSUME ~Overlap, TypeInv, InTurn, NEW r \in Requests, RequestStep(r),
         Stands(r)', BooksStand', Charged'
  PROVE  InTurn'
<1>1. /\ sweep.pc = "idle" /\ sweep' = sweep
      /\ \A s \in Requests : s # r => req'[s].pc = "idle"
  BY StepsAlone DEF InTurn
<1>2. Turn'
  BY <1>1 DEF Turn
<1>3. SweepStands'
  BY <1>1 DEF SweepStands
<1>4. ASSUME NEW s \in Requests, s # r PROVE Stands(s)'
  BY <1>1, <1>4 DEF Stands
<1> QED BY <1>2, <1>3, <1>4 DEF InTurn

LEMMA ProvisionInTurn ==
  ASSUME ~Overlap, TypeInv, InTurn, NEW r \in Requests, NEW t \in Tenants, NEW price \in Prices,
         RequestStep(r), Provision(r, t, price)
  PROVE  InTurn'
<1> USE DEF TypeInv, TypeOK
<1>1. /\ req'[r].pc = "issue" /\ req'[r].t = t /\ req'[r].end = now
      /\ UNCHANGED <<charge, now, crashes>>
  BY DEF Provision, IdleReq
<1>2. /\ sub'[t].status = "ACTIVE" /\ sub'[t].periodEnd = now + Month
      /\ \A u \in Tenants : u # t => sub'[u] = sub[u]
      /\ sub[t].status = "NONE"
  BY DEF Provision, NewSubscription, HasSub
<1>3. \A c \in Charges : charge[c].status # "FREE" => charge[c].t # t
  BY <1>2 DEF InTurn, BooksStand, HasSub
<1>4. now < now + Month
  BY SubscriptionsAssumption
<1>5. Stands(r)'
  BY <1>1, <1>2, <1>3, <1>4 DEF Stands
<1>6. BooksStand'
  BY <1>1, <1>2, <1>3 DEF InTurn, BooksStand, HasSub
<1>7. Charged'
  <2> SUFFICES ASSUME crashes = 0, NEW u \in Tenants, HasSub(u)'
               PROVE  \/ \E c \in Charges : charge'[c].status = "PENDING" /\ charge'[c].t = u
                      \/ \E s \in Requests : req'[s].pc \in {"renew", "issue"} /\ req'[s].t = u
    BY <1>1 DEF Charged
  <2>1. CASE u = t
    BY <1>1, <2>1
  <2>2. CASE u # t
    <3>1. HasSub(u)
      BY <1>2, <2>2 DEF HasSub
    <3>2. \A s \in Requests : req[s].pc = "idle"
      BY StepsAlone DEF Provision, InTurn
    <3> QED BY <1>1, <3>1, <3>2 DEF InTurn, Charged
  <2> QED BY <2>1, <2>2
<1> QED BY <1>5, <1>6, <1>7, OwnInTurn

\* A request that leaves rows and charges: the next charge is as near as before.
LEMMA ChargedKept ==
  ASSUME Charged, UNCHANGED charge, crashes' = crashes,
         \A t \in Tenants : HasSub(t)' => HasSub(t),
         \A s \in Requests : req[s].pc \in {"renew", "issue"} =>
           req'[s].pc \in {"renew", "issue"} /\ req'[s].t = req[s].t
  PROVE  Charged'
BY DEF Charged

LEMMA ConfirmReadInTurn ==
  ASSUME ~Overlap, TypeInv, InTurn, NEW r \in Requests, NEW t \in Tenants,
         RequestStep(r), ConfirmRead(r, t)
  PROVE  InTurn'
<1> USE DEF TypeInv, TypeOK
<1>1. /\ req'[r].pc = "find" /\ req'[r].t = t /\ req'[r].end = sub[t].periodEnd
      /\ req'[r].suspended = (tenant[t] = "SUSPENDED") /\ req[r].pc = "idle"
      /\ UNCHANGED <<charge, sub, tenant, crashes>>
  BY DEF ConfirmRead, IdleReq
<1>2. Stands(r)'
  BY <1>1 DEF Stands
<1>3. BooksStand'
  BY <1>1 DEF InTurn, BooksStand, HasSub
<1>4. Charged'
  <2>1. \A s \in Requests : s # r => req'[s] = req[s]
    BY StepsAlone DEF InTurn
  <2> QED BY <1>1, <2>1, ChargedKept DEF InTurn, HasSub
<1> QED BY <1>2, <1>3, <1>4, OwnInTurn

LEMMA ConfirmFindInTurn ==
  ASSUME ~Overlap, TypeInv, InTurn, NEW r \in Requests, RequestStep(r), ConfirmFind(r)
  PROVE  InTurn'
<1> USE DEF TypeInv, TypeOK
<1>1. req[r].pc = "find" /\ UNCHANGED <<charge, sub, tenant, crashes>>
  BY DEF ConfirmFind
<1>2. BooksStand'
  BY <1>1 DEF InTurn, BooksStand, HasSub
<1>3. Charged'
  <2>1. \A s \in Requests : s # r => req'[s] = req[s]
    BY StepsAlone DEF InTurn
  <2> QED BY <1>1, <2>1, ChargedKept DEF InTurn, HasSub
<1>4. CASE Pending(req[r].t) = {}
  <2>1. req'[r].pc = "idle"
    BY <1>4 DEF ConfirmFind, IdleReq
  <2>2. Stands(r)'
    BY <2>1 DEF Stands
  <2> QED BY <1>2, <1>3, <2>2, OwnInTurn
<1>5. CASE Pending(req[r].t) # {}
  <2>1. PICK c \in Charges : /\ charge[c].status = "PENDING" /\ charge[c].t = req[r].t
                             /\ req' = [req EXCEPT ![r].pc = "mark", ![r].charge = c]
    BY <1>5 DEF ConfirmFind, LatestPending, Pending
  <2>2. /\ req'[r].pc = "mark" /\ req'[r].charge = c /\ req'[r].t = req[r].t
        /\ req'[r].end = req[r].end /\ req'[r].suspended = req[r].suspended
    BY <2>1 DEF RequestState
  <2>3. Stands(r)'
    BY <1>1, <2>1, <2>2 DEF InTurn, Stands
  <2> QED BY <1>2, <1>3, <2>3, OwnInTurn
<1> QED BY <1>4, <1>5

LEMMA ConfirmMarkInTurn ==
  ASSUME ~Overlap, TypeInv, InTurn, NEW r \in Requests, RequestStep(r), ConfirmMark(r)
  PROVE  InTurn'
<1> USE DEF TypeInv, TypeOK
<1>1. PICK k, t : k = req[r].charge /\ t = req[r].t
  OBVIOUS
<1>2. k \in Charges /\ charge[k].status = "PENDING" /\ charge[k].t = t /\ req[r].pc = "mark"
  BY <1>1 DEF ConfirmMark, InTurn, Stands
<1>3. /\ charge'[k].status = "PAID" /\ charge'[k].t = charge[k].t
      /\ charge'[k].issuedAt = charge[k].issuedAt
      /\ \A c \in Charges : c # k => charge'[c] = charge[c]
      /\ UNCHANGED <<sub, tenant, crashes>>
  BY <1>1, <1>2 DEF ConfirmMark, ChargeRow
<1>4. /\ req'[r].pc = "renew" /\ req'[r].t = t /\ req'[r].end = req[r].end
      /\ req'[r].suspended = req[r].suspended
  BY <1>1 DEF ConfirmMark, RequestState
<1>5. \A c \in Charges : charge'[c].t = t => charge'[c].status # "PENDING"
  BY <1>2, <1>3 DEF InTurn, BooksStand
<1>6. Stands(r)'
  BY <1>1, <1>2, <1>3, <1>4, <1>5 DEF InTurn, Stands
<1>7. BooksStand'
  BY <1>2, <1>3 DEF InTurn, BooksStand, HasSub
<1>8. Charged'
  <2> SUFFICES ASSUME crashes = 0, NEW u \in Tenants, HasSub(u)
               PROVE  \/ \E c \in Charges : charge'[c].status = "PENDING" /\ charge'[c].t = u
                      \/ \E s \in Requests : req'[s].pc \in {"renew", "issue"} /\ req'[s].t = u
    BY <1>3 DEF Charged, HasSub
  <2>1. CASE u = t
    BY <1>4, <2>1
  <2>2. CASE u # t
    <3>1. PICK c \in Charges : charge[c].status = "PENDING" /\ charge[c].t = u
      BY <1>2, StepsAlone DEF InTurn, Charged
    <3> QED BY <1>2, <1>3, <2>2, <3>1
  <2> QED BY <2>1, <2>2
<1> QED BY <1>6, <1>7, <1>8, OwnInTurn

LEMMA ConfirmRenewInTurn ==
  ASSUME ~Overlap, TypeInv, InTurn, InHandExists, NEW r \in Requests, RequestStep(r),
         ConfirmRenew(r)
  PROVE  InTurn'
<1> USE DEF TypeInv, TypeOK
<1>1. PICK t : t = req[r].t
  OBVIOUS
<1>2. /\ t \in Tenants /\ req[r].pc = "renew" /\ req[r].end = sub[t].periodEnd
      /\ sub[t].status # "NONE"
      /\ \A c \in Charges : charge[c].t = t => charge[c].status # "PENDING"
  BY <1>1 DEF ConfirmRenew, RequestsTyped, InTurn, Stands, InHandExists, HasSub
<1>3. /\ sub'[t].status = "ACTIVE" /\ sub'[t].periodEnd = sub[t].periodEnd + Month
      /\ \A u \in Tenants : u # t => sub'[u] = sub[u]
      /\ UNCHANGED <<charge, tenant, crashes>>
  BY <1>1, <1>2 DEF ConfirmRenew, SubscriptionRow
<1>4. req'[r].pc = "issue" /\ req'[r].t = t /\ req'[r].end = sub[t].periodEnd
  BY <1>1, <1>2 DEF ConfirmRenew, RequestState
<1>5. sub[t].periodEnd \in Nat /\ Month \in Nat \ {0}
  BY <1>2, SubscriptionsAssumption DEF SubscriptionRow
<1>6. Stands(r)'
  BY <1>2, <1>3, <1>4, <1>5 DEF Stands, InTurn, BooksStand
<1>7. BooksStand'
  <2>1. ASSUME NEW c \in Charges, charge[c].status # "FREE"
        PROVE  /\ charge[c].t \in Tenants /\ HasSub(charge[c].t)'
               /\ charge[c].issuedAt < sub'[charge[c].t].periodEnd
    <3>1. charge[c].t \in Tenants /\ HasSub(charge[c].t)
          /\ charge[c].issuedAt < sub[charge[c].t].periodEnd /\ charge[c].issuedAt \in Nat
      BY <2>1 DEF InTurn, BooksStand, ChargeRow
    <3> QED BY <1>3, <1>5, <3>1 DEF HasSub
  <2> QED BY <1>3, <2>1 DEF InTurn, BooksStand
<1>8. Charged'
  <2>1. \A s \in Requests : req[s].pc \in {"renew", "issue"} =>
          req'[s].pc \in {"renew", "issue"} /\ req'[s].t = req[s].t
    BY <1>1, <1>4, StepsAlone DEF InTurn
  <2>2. \A u \in Tenants : HasSub(u)' => HasSub(u)
    BY <1>2, <1>3 DEF HasSub
  <2> QED BY <1>3, <2>1, <2>2, ChargedKept DEF InTurn
<1> QED BY <1>6, <1>7, <1>8, OwnInTurn

LEMMA IssueChargeInTurn ==
  ASSUME ~Overlap, TypeInv, InTurn, InHandExists, NEW r \in Requests, RequestStep(r),
         IssueCharge(r)
  PROVE  InTurn'
<1> USE DEF TypeInv, TypeOK
<1>1. PICK t, e : t = req[r].t /\ e = req[r].end
  OBVIOUS
<1>2. /\ t \in Tenants /\ req[r].pc = "issue" /\ sub[t].status # "NONE"
      /\ e < sub[t].periodEnd /\ e \in Nat
      /\ \A c \in Charges : charge[c].t = t => charge[c].status # "PENDING"
      /\ \A c \in Charges : charge[c].status # "FREE" /\ charge[c].t = t => charge[c].issuedAt < e
  BY <1>1 DEF IssueCharge, RequestsTyped, InTurn, Stands, InHandExists, HasSub, RequestState
<1>3. PICK n \in Charges :
        /\ charge[n].status = "FREE"
        /\ charge' = [charge EXCEPT ![n] =
             [status |-> "PENDING", t |-> t, issuedAt |-> e, amount |-> req[r].amount]]
  BY <1>1 DEF IssueCharge
<1>4. /\ charge'[n].status = "PENDING" /\ charge'[n].t = t /\ charge'[n].issuedAt = e
      /\ \A c \in Charges : c # n => charge'[c] = charge[c]
      /\ UNCHANGED <<sub, tenant, crashes>>
  BY <1>3 DEF IssueCharge
<1>5. req'[r].pc \in {"idle", "reinstate"}
  BY DEF IssueCharge, IdleReq, RequestState
<1>6. Stands(r)'
  BY <1>5 DEF Stands
<1>7. BooksStand'
  <2>1. ASSUME NEW c \in Charges, charge'[c].status # "FREE"
        PROVE  /\ charge'[c].t \in Tenants /\ sub'[charge'[c].t].status # "NONE"
               /\ charge'[c].issuedAt < sub'[charge'[c].t].periodEnd
    <3>1. CASE c = n
      BY <1>2, <1>4, <3>1
    <3>2. CASE c # n
      BY <1>4, <2>1, <3>2 DEF InTurn, BooksStand, HasSub
    <3> QED BY <3>1, <3>2
  <2>2. ASSUME NEW c \in Charges, charge'[c].status # "FREE", charge'[c].t = t, c # n
        PROVE  charge'[c].status # "PENDING" /\ charge'[c].issuedAt # e
    <3>1. charge[c].issuedAt \in Nat /\ charge[c].issuedAt < e
      BY <1>2, <1>4, <2>2 DEF ChargeRow
    <3> QED BY <1>2, <1>4, <2>2, <3>1
  <2>3. ASSUME NEW c \in Charges, NEW d \in Charges, charge'[c].status # "FREE",
               charge'[d].status # "FREE", charge'[c].t = charge'[d].t
        PROVE  /\ charge'[c].issuedAt = charge'[d].issuedAt => c = d
               /\ charge'[c].status = "PENDING" /\ charge'[d].status = "PENDING" => c = d
    <3>1. CASE c = n \/ d = n
      BY <1>4, <2>2, <2>3, <3>1
    <3>2. CASE c # n /\ d # n
      BY <1>4, <2>3, <3>2 DEF InTurn, BooksStand
    <3> QED BY <3>1, <3>2
  <2> QED BY <2>1, <2>3 DEF BooksStand, HasSub
<1>8. Charged'
  <2> SUFFICES ASSUME crashes = 0, NEW u \in Tenants, HasSub(u)
               PROVE  \E c \in Charges : charge'[c].status = "PENDING" /\ charge'[c].t = u
    BY <1>4 DEF Charged, HasSub
  <2>1. CASE u = t
    BY <1>4, <2>1
  <2>2. CASE u # t
    <3>1. PICK c \in Charges : charge[c].status = "PENDING" /\ charge[c].t = u
      BY <1>1, <2>2, StepsAlone DEF InTurn, Charged
    <3> QED BY <1>3, <1>4, <3>1
  <2> QED BY <2>1, <2>2
<1> QED BY <1>6, <1>7, <1>8, OwnInTurn

LEMMA EndInTurn ==
  ASSUME ~Overlap, TypeInv, InTurn, NEW r \in Requests, RequestStep(r),
         ConfirmReinstate(r) \/ CrashRequest(r)
  PROVE  InTurn'
<1> USE DEF TypeInv, TypeOK
<1>1. req'[r].pc = "idle" /\ UNCHANGED <<charge, sub>>
  BY DEF ConfirmReinstate, CrashRequest, IdleReq
<1>2. Stands(r)'
  BY <1>1 DEF Stands
<1>3. BooksStand'
  BY <1>1 DEF InTurn, BooksStand, HasSub
<1>4. CASE ConfirmReinstate(r)
  <2>1. \A s \in Requests : req[s].pc \in {"renew", "issue"} =>
          req'[s].pc \in {"renew", "issue"} /\ req'[s].t = req[s].t
    BY <1>4, StepsAlone DEF InTurn, ConfirmReinstate
  <2>2. crashes' = crashes
    BY <1>4 DEF ConfirmReinstate
  <2>3. Charged'
    BY <1>1, <2>1, <2>2, ChargedKept DEF InTurn, HasSub
  <2> QED BY <1>2, <1>3, <2>3, OwnInTurn
<1>5. CASE CrashRequest(r)
  <2>1. crashes' # 0
    BY <1>5 DEF CrashRequest
  <2>2. Charged'
    BY <2>1 DEF Charged
  <2> QED BY <1>2, <1>3, <2>2, OwnInTurn
<1> QED BY <1>4, <1>5

LEMMA RequestInTurn ==
  ASSUME ~Overlap, TypeInv, InTurn, InHandExists, NEW r \in Requests, RequestStep(r)
  PROVE  InTurn'
<1>1. ASSUME NEW t \in Tenants, Onboard(r, t) \/ Create(r, t) PROVE InTurn'
  <2>1. PICK price \in Prices : Provision(r, t, price)
    BY <1>1 DEF Onboard, Create
  <2> QED BY <2>1, ProvisionInTurn
<1> QED BY <1>1, ConfirmReadInTurn, ConfirmFindInTurn, ConfirmMarkInTurn, ConfirmRenewInTurn,
           IssueChargeInTurn, EndInTurn DEF RequestStep


\* The console's other writes and the clock: no request and no row's period is
\* touched, and nothing is in flight unless the sweep is.
LEMMA AdminInTurn ==
  ASSUME ~Overlap, TypeInv, InTurn, AdminStep PROVE InTurn'
<1> USE DEF TypeInv, TypeOK
<1>1. /\ Quiet /\ UNCHANGED <<now, charge, req, sweep, crashes>>
      /\ \A t \in Tenants : /\ sub'[t].periodEnd = sub[t].periodEnd
                            /\ HasSub(t)' <=> HasSub(t)
  <2>1. Quiet /\ UNCHANGED <<now, charge, req, sweep, crashes>>
    BY DEF AdminStep, ChangePrice, Cancel, UpdateStatus, UpdateSettings, MayStart
  <2>2. ASSUME NEW u \in Tenants, ChangePrice(u) \/ Cancel(u)
        PROVE  \A t \in Tenants : /\ sub'[t].periodEnd = sub[t].periodEnd
                                  /\ HasSub(t)' <=> HasSub(t)
    BY <2>2 DEF ChangePrice, Cancel, HasSub, SubscriptionRow
  <2>3. CASE UNCHANGED sub
    BY <2>1, <2>3 DEF HasSub
  <2> QED BY <2>1, <2>2, <2>3 DEF AdminStep, UpdateStatus, UpdateSettings
<1>2. \A r \in Requests : req'[r].pc = "idle"
  BY <1>1 DEF Quiet
<1>3. \A r \in Requests : Stands(r)'
  BY <1>2 DEF Stands
<1>4. SweepStands'
  BY <1>1 DEF Quiet, SweepStands
<1>5. BooksStand'
  BY <1>1 DEF InTurn, BooksStand
<1>6. Charged'
  BY <1>1 DEF InTurn, Charged
<1> QED BY <1>1, <1>2, <1>3, <1>4, <1>5, <1>6 DEF InTurn, Turn

LEMMA TickInTurn ==
  ASSUME TypeInv, GraceDeadline, InTurn, Tick PROVE InTurn'
<1> USE DEF TypeInv, TypeOK
<1>1. UNCHANGED <<grace, tenant, sub, charge, req, sweep, crashes>> /\ now' = now + 1
      /\ now \in Nat
  BY DEF Tick
<1>2. Turn'
  BY <1>1 DEF InTurn, Turn
<1>3. \A r \in Requests : Stands(r)' = Stands(r)
  BY <1>1 DEF Stands
<1>4. SweepStands'
  <2>1. \A row \in sweep.queue : row.t \in Tenants /\ row.end \in Nat
    BY DEF SweepState
  <2>2. SweepStands
    BY DEF InTurn
  <2>3. CASE sweep.pc \in {"suspend", "suspendTenant"}
    <3>1. \A row \in sweep.queue : sub[row.t].graceEndsAt \in Nat
      <4>1. \A t \in Tenants : sub[t].status = "GRACE" => sub[t].graceEndsAt \in Nat
        BY DEF GraceDeadline, SubscriptionRow
      <4> QED BY <2>1, <2>2, <2>3, <4>1 DEF SweepStands
    <3> QED BY <1>1, <2>1, <2>2, <2>3, <3>1 DEF SweepStands
  <2>4. CASE sweep.pc \notin {"suspend", "suspendTenant"}
    BY <1>1, <2>1, <2>2, <2>4 DEF SweepStands
  <2> QED BY <2>3, <2>4
<1>5. BooksStand' /\ Charged'
  BY <1>1 DEF InTurn, BooksStand, Charged, HasSub
<1> QED BY <1>2, <1>3, <1>4, <1>5 DEF InTurn

\* A sweep runs alone, and moves no period.
LEMMA SweepAlone ==
  ASSUME ~Overlap, TypeInv, InTurn, InHandExists, SweepStep \/ CrashSweep
  PROVE  /\ \A r \in Requests : req[r].pc = "idle"
         /\ UNCHANGED <<now, grace, charge, req>>
         /\ \A t \in Tenants : /\ sub'[t].periodEnd = sub[t].periodEnd
                               /\ HasSub(t)' <=> HasSub(t)
         /\ SweepStep => crashes' = crashes
         /\ CrashSweep => crashes' # 0
<1> USE DEF TypeInv, TypeOK
<1>1. \A r \in Requests : req[r].pc = "idle"
  <2>1. CASE sweep.pc # "idle"
    BY <2>1 DEF InTurn, Turn
  <2>2. CASE SweepStart
    BY <2>2 DEF SweepStart, MayStart, Quiet
  <2> QED BY <2>1, <2>2 DEF SweepStep, SweepReadLapsed, SweepExpire, SweepReadOverdue,
             SweepSuspendSub, SweepSuspendTenant, SweepEnd, CrashSweep
<1>2. /\ UNCHANGED <<now, grace, charge, req>>
      /\ SweepStep => crashes' = crashes
      /\ CrashSweep => crashes' # 0
  <2>1. SweepStep => UNCHANGED <<now, grace, charge, req, crashes>>
    BY DEF SweepStep, SweepStart, SweepReadLapsed, SweepExpire, SweepReadOverdue,
           SweepSuspendSub, SweepSuspendTenant, SweepEnd
  <2>2. CrashSweep => UNCHANGED <<now, grace, charge, req>> /\ crashes' = crashes + 1
    BY DEF CrashSweep
  <2>3. crashes + 1 # 0
    OBVIOUS
  <2> QED BY <2>1, <2>2, <2>3
<1>3. \A row \in sweep.queue : row.t \in Tenants /\ HasSub(row.t)
  BY DEF InHandExists, SweepState
<1>4. CASE SweepExpire
  <2>1. PICK row \in sweep.queue :
          sub' = [sub EXCEPT ![row.t].status = "GRACE",
                             ![row.t].graceEndsAt = row.end + sweep.grace]
    BY <1>4 DEF SweepExpire
  <2> QED BY <1>1, <1>2, <1>3, <2>1 DEF HasSub, SubscriptionRow
<1>5. CASE SweepSuspendSub
  <2>1. PICK row \in sweep.queue : sub' = [sub EXCEPT ![row.t].status = "SUSPENDED"]
    BY <1>5 DEF SweepSuspendSub
  <2> QED BY <1>1, <1>2, <1>3, <2>1 DEF HasSub, SubscriptionRow
<1>6. CASE UNCHANGED sub
  BY <1>1, <1>2, <1>6 DEF HasSub
<1> QED BY <1>4, <1>5, <1>6 DEF SweepStep, SweepStart, SweepReadLapsed, SweepReadOverdue,
           SweepSuspendTenant, SweepEnd, CrashSweep

\* The rows a query answers are read as they are.
LEMMA RowsFresh ==
  ASSUME TypeOK, NEW S \in SUBSET Tenants, NEW row \in Rows(S)
  PROVE  row.t \in S /\ row.end = sub[row.t].periodEnd
BY DEF Rows

\* Two rows of the queue are of two schools.
LEMMA RowsApart ==
  ASSUME TypeOK, NEW row \in sweep.queue, NEW other \in sweep.queue, other # row,
         sub[row.t].periodEnd = row.end, sub[other.t].periodEnd = other.end
  PROVE  other.t # row.t
<1>1. row \in [t : Tenants, end : Nat] /\ other \in [t : Tenants, end : Nat]
  BY DEF TypeOK, SweepState
<1>2. row.end # other.end \/ row.t # other.t
  BY <1>1
<1> QED BY <1>2

LEMMA SweepRowsStand ==
  ASSUME ~Overlap, TypeInv, InTurn, SweepStep \/ CrashSweep
  PROVE  SweepStands'
<1> USE DEF TypeInv
<1>0. SweepStands /\ sweep \in SweepState
  BY DEF InTurn, TypeOK
<1>1. CASE SweepStart
  <2>1. sweep'.pc = "read" /\ sweep'.grace = grace /\ grace \in GraceChoices
    BY <1>1 DEF SweepStart, IdleSweep, TypeOK
  <2> QED BY <2>1 DEF SweepStands
<1>2. CASE SweepReadLapsed
  <2>1. /\ sweep'.pc = "expire" /\ sweep'.grace = sweep.grace /\ sweep'.queue = Rows(Lapsed)
        /\ UNCHANGED <<sub, now>> /\ sweep.pc = "read"
    BY <1>0, <1>2 DEF SweepReadLapsed, SweepState
  <2>2. Lapsed \in SUBSET Tenants
    BY DEF Lapsed
  <2>3. \A row \in Rows(Lapsed) : /\ sub[row.t].status = "ACTIVE"
                                  /\ sub[row.t].periodEnd = row.end /\ row.end <= now
    BY <2>2, RowsFresh DEF Lapsed
  <2> QED BY <1>0, <2>1, <2>3 DEF SweepStands
<1>3. CASE SweepExpire
  <2>1. PICK row \in sweep.queue :
          /\ sub' = [sub EXCEPT ![row.t].status = "GRACE",
                                ![row.t].graceEndsAt = row.end + sweep.grace]
          /\ sweep' = [sweep EXCEPT !.queue = @ \ {row}]
    BY <1>3 DEF SweepExpire
  <2>2. /\ sweep.pc = "expire" /\ sweep'.pc = "expire" /\ sweep'.grace = sweep.grace
        /\ sweep'.queue = sweep.queue \ {row} /\ now' = now
    BY <1>0, <1>3, <2>1 DEF SweepExpire, SweepState
  <2>3. ASSUME NEW other \in sweep.queue, other # row
        PROVE  sub'[other.t] = sub[other.t]
    <3>1. other.t # row.t
      BY <1>0, <2>2, <2>3, RowsApart DEF SweepStands
    <3>2. other.t \in Tenants
      BY <1>0 DEF SweepState
    <3> QED BY <2>1, <3>1, <3>2 DEF TypeOK
  <2> QED BY <1>0, <2>2, <2>3 DEF SweepStands
<1>4. CASE SweepReadOverdue
  <2>1. /\ sweep'.pc = "suspend" /\ sweep'.queue = Rows(Overdue) /\ UNCHANGED <<sub, now>>
    BY <1>4 DEF SweepReadOverdue, IdleSweep
  <2>2. Overdue \in SUBSET Tenants
    BY DEF Overdue
  <2>3. \A row \in Rows(Overdue) :
          /\ sub[row.t].status = "GRACE" /\ sub[row.t].graceEndsAt <= now
          /\ sub[row.t].periodEnd = row.end
    BY <2>2, RowsFresh DEF Overdue
  <2> QED BY <2>1, <2>3 DEF SweepStands
<1>5. CASE SweepSuspendSub
  <2>1. PICK row \in sweep.queue :
          /\ sub' = [sub EXCEPT ![row.t].status = "SUSPENDED"]
          /\ sweep' = [sweep EXCEPT !.pc = "suspendTenant", !.cur = row.t,
                                    !.queue = @ \ {row}]
    BY <1>5 DEF SweepSuspendSub
  <2>2. /\ sweep.pc = "suspend" /\ sweep'.pc = "suspendTenant" /\ sweep'.cur = row.t
        /\ sweep'.queue = sweep.queue \ {row} /\ now' = now /\ row.t \in Tenants
    BY <1>0, <1>5, <2>1 DEF SweepSuspendSub, SweepState
  <2>3. ASSUME NEW other \in sweep.queue, other # row
        PROVE  sub'[other.t] = sub[other.t]
    <3>1. other.t # row.t
      BY <1>0, <2>2, <2>3, RowsApart DEF SweepStands
    <3>2. other.t \in Tenants
      BY <1>0 DEF SweepState
    <3> QED BY <2>1, <3>1, <3>2 DEF TypeOK
  <2>4. sub'[row.t].status = "SUSPENDED"
    BY <2>1, <2>2 DEF TypeOK, SubscriptionRow
  <2> QED BY <1>0, <2>2, <2>3, <2>4 DEF SweepStands
<1>6. CASE SweepSuspendTenant
  <2>1. /\ sweep.pc = "suspendTenant" /\ sweep'.pc = "suspend" /\ sweep'.queue = sweep.queue
        /\ UNCHANGED <<sub, now>>
    BY <1>0, <1>6 DEF SweepSuspendTenant, SweepState
  <2> QED BY <1>0, <2>1 DEF SweepStands
<1>7. CASE SweepEnd \/ CrashSweep
  <2>1. sweep'.pc = "idle"
    BY <1>7 DEF SweepEnd, CrashSweep, IdleSweep
  <2> QED BY <2>1 DEF SweepStands
<1> QED BY <1>1, <1>2, <1>3, <1>4, <1>5, <1>6, <1>7 DEF SweepStep

LEMMA SweepInTurn ==
  ASSUME ~Overlap, TypeInv, InTurn, InHandExists, SweepStep \/ CrashSweep
  PROVE  InTurn'
<1> USE DEF TypeInv, TypeOK
<1>1. \A r \in Requests : req'[r].pc = "idle"
  BY SweepAlone
<1>2. Turn' /\ \A r \in Requests : Stands(r)'
  BY <1>1 DEF Turn, Stands
<1>3. BooksStand'
  BY SweepAlone DEF InTurn, BooksStand
<1>4. Charged'
  BY SweepAlone DEF InTurn, Charged
<1> QED BY <1>2, <1>3, <1>4, SweepRowsStand DEF InTurn

LEMMA InTurnStep ==
  ASSUME ~Overlap, IInv, GraceDeadline, InTurn, [Next]_vars PROVE InTurn'
<1> USE DEF IInv
<1>1. CASE UNCHANGED vars
  BY <1>1 DEF vars, InTurn, Turn, Stands, SweepStands, BooksStand, Charged, HasSub
<1> QED BY <1>1, RequestInTurn, AdminInTurn, SweepInTurn, TickInTurn DEF Next

LEMMA InTurnInit == Init => InTurn
<1> SUFFICES ASSUME Init PROVE InTurn
  OBVIOUS
<1>1. /\ \A r \in Requests : req[r].pc = "idle"
      /\ sweep.pc = "idle"
      /\ \A c \in Charges : charge[c].status = "FREE"
      /\ \A t \in Tenants : ~HasSub(t)
  BY DEF Init, IdleReq, IdleSweep, HasSub
<1> QED BY <1>1 DEF InTurn, Turn, Stands, SweepStands, BooksStand, Charged

LEMMA InTurnAlways == ASSUME ~Overlap PROVE Spec => [](IInv /\ GraceDeadline /\ InTurn)
<1>1. IInv /\ GraceDeadline /\ InTurn /\ [Next]_vars => InTurn'
  BY InTurnStep
<1> QED BY InTurnInit, InvInit, InvStep, <1>1, DeadlineKept, PTL DEF Spec


LEMMA BooksMean ==
  ASSUME TypeInv, InTurn PROVE ChargePerPeriod
<1> USE DEF TypeInv, TypeOK
<1>1. ASSUME NEW t \in Tenants, NEW c \in Pending(t) \cup Paid(t),
             NEW d \in Pending(t) \cup Paid(t), c # d
      PROVE  charge[c].issuedAt # charge[d].issuedAt
  BY <1>1 DEF InTurn, BooksStand, Pending, Paid
<1>2. ASSUME NEW t \in Tenants PROVE Cardinality(Pending(t)) <= 1
  <2>1. \A c, d \in Pending(t) : c = d
    BY DEF InTurn, BooksStand, Pending
  <2>2. CASE Pending(t) = {}
    BY <2>2, FS_EmptySet
  <2>3. CASE Pending(t) # {}
    <3>1. PICK c \in Pending(t) : TRUE
      BY <2>3
    <3>2. Pending(t) = {c}
      BY <2>1
    <3>3. Cardinality({c}) = 1
      BY FS_Singleton
    <3> QED BY <3>2, <3>3
  <2> QED BY <2>2, <2>3
<1>3. ASSUME Quiet, crashes = 0, NEW t \in Tenants, HasSub(t) PROVE Pending(t) # {}
  BY <1>3 DEF InTurn, Charged, Quiet, Pending
<1> QED BY <1>1, <1>2, <1>3 DEF ChargePerPeriod

\* ChargePerPeriod, for handlers that do not overlap: a billing period is
\* charged once, between requests one charge is pending, and unless something
\* was cut short every subscription has it.
THEOREM OneChargePerPeriod == ASSUME ~Overlap PROVE Spec => []ChargePerPeriod
<1>1. IInv /\ InTurn => ChargePerPeriod
  BY BooksMean DEF IInv
<1> QED BY InTurnAlways, <1>1, PTL

-----------------------------------------------------------------------------
(* Access: the tenant's status follows its subscription.                      *)

LEMMA AccessStep ==
  ASSUME ~Overlap, "status" \notin Ops, IInv, InTurn, AccessDue, [Next]_vars
  PROVE  AccessDue'
<1> USE DEF IInv, TypeInv, TypeOK
<1>0. crashes \in Nat
  OBVIOUS
<1>1. ASSUME NEW r \in Requests, RequestStep(r) PROVE AccessDue'
  <2> USE <1>1
  <2>0. \A s \in Requests : s # r => req[s].pc = "idle" /\ req'[s] = req[s]
    BY StepsAlone DEF InTurn
  <2>1. ASSUME NEW t \in Tenants, Onboard(r, t) \/ Create(r, t) PROVE AccessDue'
    <3>1. PICK price \in Prices : Provision(r, t, price)
      BY <2>1 DEF Onboard, Create
    <3>2. /\ sub'[t].status = "ACTIVE" /\ \A u \in Tenants : u # t => sub'[u] = sub[u]
          /\ sub[t].status = "NONE" /\ crashes' = crashes /\ req[r].pc = "idle"
      BY <3>1 DEF Provision, NewSubscription, HasSub
    <3>3. tenant'[t] # "SUSPENDED" /\ \A u \in Tenants : u # t => tenant'[u] = tenant[u]
      BY <2>1, <3>2 DEF Onboard, Create, AccessDue, HasSub
    <3> QED BY <2>0, <3>2, <3>3 DEF AccessDue, HasSub
  <2>2. CASE \E t \in Tenants : ConfirmRead(r, t)
    BY <2>0, <2>2 DEF ConfirmRead, AccessDue, HasSub
  <2>3. CASE ConfirmFind(r)
    BY <2>0, <2>3 DEF ConfirmFind, AccessDue, HasSub
  <2>4. CASE ConfirmMark(r)
    BY <2>0, <2>4 DEF ConfirmMark, AccessDue, HasSub
  <2>5. CASE ConfirmRenew(r)
    <3>1. PICK t : t = req[r].t
      OBVIOUS
    <3>2. /\ t \in Tenants /\ req[r].suspended = (tenant[t] = "SUSPENDED")
          /\ req[r].pc = "renew" /\ sub[t].status # "NONE"
      BY <2>5, <3>1 DEF ConfirmRenew, RequestsTyped, InTurn, Stands, InHandExists, HasSub
    <3>3. /\ sub'[t].status = "ACTIVE" /\ \A u \in Tenants : u # t => sub'[u] = sub[u]
          /\ UNCHANGED <<tenant, crashes>>
      BY <2>5, <3>1, <3>2 DEF ConfirmRenew, SubscriptionRow
    <3>4. /\ req'[r].pc = "issue" /\ req'[r].t = t
          /\ tenant[t] = "SUSPENDED" => req'[r].then = "reinstate"
      BY <2>5, <3>1, <3>2 DEF ConfirmRenew, RequestState
    <3> QED BY <2>0, <3>2, <3>3, <3>4 DEF AccessDue, HasSub
  <2>6. CASE IssueCharge(r)
    <3>1. /\ UNCHANGED <<sub, tenant, crashes>> /\ req[r].pc = "issue"
          /\ req[r].then = "reinstate" => req'[r].pc = "reinstate" /\ req'[r].t = req[r].t
      BY <2>6 DEF IssueCharge, RequestState
    <3> QED BY <2>0, <3>1 DEF AccessDue, HasSub
  <2>7. CASE ConfirmReinstate(r)
    <3>1. PICK t : t = req[r].t
      OBVIOUS
    <3>2. /\ tenant' = [tenant EXCEPT ![t] = "ACTIVE"]
          /\ UNCHANGED <<sub, crashes>>
      BY <2>7, <3>1 DEF ConfirmReinstate
    <3> QED BY <2>0, <2>7, <3>1, <3>2 DEF AccessDue, HasSub, ConfirmReinstate
  <2>8. CASE CrashRequest(r)
    <3>1. UNCHANGED <<sub, tenant>> /\ crashes' = crashes + 1
      BY <2>8 DEF CrashRequest
    <3> QED BY <1>0, <3>1 DEF AccessDue, HasSub
  <2> QED BY <2>1, <2>2, <2>3, <2>4, <2>5, <2>6, <2>7, <2>8 DEF RequestStep
<1>2. CASE AdminStep
  <2>1. UNCHANGED <<tenant, req, crashes>>
    BY <1>2 DEF AdminStep, ChangePrice, Cancel, UpdateStatus, UpdateSettings
  <2>2. \A t \in Tenants : /\ HasSub(t)' <=> HasSub(t)
                           /\ sub'[t].status = "ACTIVE" => sub[t].status = "ACTIVE"
    <3> DEFINE Same == \A t \in Tenants :
                 /\ (sub'[t].status # "NONE") <=> (sub[t].status # "NONE")
                 /\ sub'[t].status = "ACTIVE" => sub[t].status = "ACTIVE"
    <3>1. ASSUME NEW u \in Tenants, ChangePrice(u) PROVE Same
      <4>1. PICK price : sub' = [sub EXCEPT ![u].monthlyAmount = price]
        BY <3>1 DEF ChangePrice
      <4> QED BY <4>1 DEF SubscriptionRow
    <3>2. ASSUME NEW u \in Tenants, Cancel(u) PROVE Same
      BY <3>2 DEF Cancel, HasSub, SubscriptionRow
    <3> QED BY <1>2, <3>1, <3>2 DEF AdminStep, UpdateStatus, UpdateSettings, HasSub
  <2> QED BY <2>1, <2>2 DEF AccessDue
<1>3. CASE SweepStep \/ CrashSweep
  <2>1. /\ \A r \in Requests : req[r].pc = "idle"
        /\ UNCHANGED req
        /\ \A t \in Tenants : HasSub(t)' <=> HasSub(t)
        /\ SweepStep => crashes' = crashes
        /\ CrashSweep => crashes' # 0
    BY <1>3, SweepAlone
  <2>2. \A t \in Tenants : sub'[t].status = "ACTIVE" => sub[t].status = "ACTIVE"
    <3>1. \A row \in sweep.queue : row.t \in Tenants
      BY DEF SweepState
    <3>2. CASE SweepExpire
      BY <3>1, <3>2 DEF SweepExpire, SubscriptionRow
    <3>3. CASE SweepSuspendSub
      BY <3>1, <3>3 DEF SweepSuspendSub, SubscriptionRow
    <3> QED BY <1>3, <3>2, <3>3 DEF SweepStep, SweepStart, SweepReadLapsed, SweepReadOverdue,
               SweepSuspendTenant, SweepEnd, CrashSweep
  <2>3. CASE UNCHANGED tenant
    BY <1>3, <2>1, <2>2, <2>3 DEF AccessDue
  <2>4. CASE SweepSuspendTenant
    <3>1. PICK t : t = sweep.cur
      OBVIOUS
    <3>2. /\ tenant' = [tenant EXCEPT ![t] = "SUSPENDED"] /\ UNCHANGED sub
          /\ t \in Tenants /\ sub[t].status = "SUSPENDED" /\ crashes' = crashes
      BY <2>4, <3>1 DEF SweepSuspendTenant, InTurn, SweepStands
    <3> QED BY <2>1, <3>2 DEF AccessDue, HasSub
  <2> QED BY <1>3, <2>3, <2>4 DEF SweepStep, SweepStart, SweepReadLapsed, SweepExpire,
             SweepReadOverdue, SweepSuspendSub, SweepEnd, CrashSweep
<1>4. CASE Tick \/ UNCHANGED vars
  BY <1>4 DEF Tick, vars, AccessDue, HasSub
<1> QED BY <1>1, <1>2, <1>3, <1>4 DEF Next

LEMMA AccessInit == Init => AccessDue
BY DEF Init, AccessDue

\* PaidMeansAccess, for handlers that do not overlap and statuses nobody sets by
\* hand: between requests, unless one was cut short, no school with a running
\* subscription is locked out.
THEOREM PaymentRestoresAccess ==
  ASSUME ~Overlap, "status" \notin Ops PROVE Spec => []PaidMeansAccess
<1>1. AccessDue => PaidMeansAccess
  BY DEF AccessDue, PaidMeansAccess, Quiet
<1>2. IInv /\ InTurn /\ AccessDue /\ [Next]_vars => AccessDue'
  BY AccessStep
<1> QED BY InTurnAlways, AccessInit, <1>1, <1>2, PTL DEF Spec

-----------------------------------------------------------------------------
(* The lifecycle the schema describes                                         *)

LifeOf(t) == [status |-> sub[t].status, periodEnd |-> sub[t].periodEnd,
              graceEndsAt |-> sub[t].graceEndsAt]

LifeBar == [t \in Tenants |-> LifeOf(t)]

LEMMA LifeUnchanged ==
  ASSUME sub' = sub PROVE LifeBar' = LifeBar
BY DEF LifeBar, LifeOf

\* One row changes, and with it one life.
LEMMA LifeMoves ==
  ASSUME TypeOK, NEW t \in Tenants, NEW l,
         \A u \in Tenants : u # t => sub'[u] = sub[u],
         l = [status |-> sub'[t].status, periodEnd |-> sub'[t].periodEnd,
              graceEndsAt |-> sub'[t].graceEndsAt]
  PROVE  LifeBar' = [LifeBar EXCEPT ![t] = l]
<1>1. \A u \in Tenants : LifeOf(u)' = IF u = t THEN l ELSE LifeOf(u)
  BY DEF LifeOf
<1> QED BY <1>1 DEF LifeBar

LEMMA LifeStutters ==
  ASSUME UNCHANGED now, LifeBar' = LifeBar
  PROVE  [Lifecycle!Next]_(Lifecycle!vars)
BY DEF Lifecycle!vars, LifeBar, LifeOf

LEMMA LifeActs ==
  ASSUME UNCHANGED now, NEW t \in Tenants,
         \/ Lifecycle!Begin(t) \/ Lifecycle!Lapse(t) \/ Lifecycle!Suspend(t)
         \/ Lifecycle!Renew(t) \/ Lifecycle!Cancel(t)
  PROVE  [Lifecycle!Next]_(Lifecycle!vars)
BY DEF Lifecycle!Next

LEMMA RequestLives ==
  ASSUME ~Overlap, IInv, InTurn, NEW r \in Requests, RequestStep(r)
  PROVE  [Lifecycle!Next]_(Lifecycle!vars)
<1> USE DEF IInv, TypeInv, TypeOK
<1>1. UNCHANGED now
  BY DEF RequestStep, Onboard, Create, Provision, ConfirmRead, ConfirmFind, ConfirmMark,
         ConfirmRenew, IssueCharge, ConfirmReinstate, CrashRequest
<1>2. ASSUME NEW t \in Tenants, Onboard(r, t) \/ Create(r, t)
      PROVE  [Lifecycle!Next]_(Lifecycle!vars)
  <2>1. PICK price \in Prices : Provision(r, t, price)
    BY <1>2 DEF Onboard, Create
  <2>2. /\ sub'[t].status = "ACTIVE" /\ sub'[t].periodEnd = now + Month
        /\ sub'[t].graceEndsAt = None
        /\ \A u \in Tenants : u # t => sub'[u] = sub[u]
        /\ sub[t].status = "NONE"
    BY <2>1 DEF Provision, NewSubscription, HasSub
  <2>3. LifeBar' = [LifeBar EXCEPT ![t] = [status |-> "ACTIVE", periodEnd |-> now + Month,
                                           graceEndsAt |-> None]]
    BY <2>2, LifeMoves
  <2>4. Lifecycle!Begin(t)
    BY <2>2, <2>3 DEF Lifecycle!Begin, LifeBar, LifeOf
  <2> QED BY <1>1, <2>4, LifeActs
<1>3. CASE ConfirmRenew(r)
  <2>1. PICK t : t = req[r].t
    OBVIOUS
  <2>2. t \in Tenants /\ req[r].end = sub[t].periodEnd /\ sub[t].status # "NONE"
    BY <1>3, <2>1 DEF ConfirmRenew, RequestsTyped, InTurn, Stands, InHandExists, HasSub
  <2>3. /\ sub'[t].status = "ACTIVE" /\ sub'[t].periodEnd = sub[t].periodEnd + Month
        /\ sub'[t].graceEndsAt = None
        /\ \A u \in Tenants : u # t => sub'[u] = sub[u]
    BY <1>3, <2>1, <2>2 DEF ConfirmRenew, SubscriptionRow
  <2>4. LifeBar' = [LifeBar EXCEPT ![t] = [status |-> "ACTIVE",
                      periodEnd |-> sub[t].periodEnd + Month, graceEndsAt |-> None]]
    BY <2>2, <2>3, LifeMoves
  <2>5. Lifecycle!Renew(t)
    BY <2>2, <2>4 DEF Lifecycle!Renew, LifeBar, LifeOf
  <2> QED BY <1>1, <2>2, <2>5, LifeActs
<1>4. CASE UNCHANGED sub
  BY <1>1, <1>4, LifeUnchanged, LifeStutters
<1> QED BY <1>1, <1>2, <1>3, <1>4 DEF RequestStep, ConfirmRead, ConfirmFind, ConfirmMark,
           IssueCharge, ConfirmReinstate, CrashRequest

LEMMA AdminLives ==
  ASSUME IInv, AdminStep
  PROVE  [Lifecycle!Next]_(Lifecycle!vars)
<1> USE DEF IInv, TypeInv, TypeOK
<1>1. UNCHANGED now
  BY DEF AdminStep, ChangePrice, Cancel, UpdateStatus, UpdateSettings
<1>2. ASSUME NEW t \in Tenants, ChangePrice(t) PROVE [Lifecycle!Next]_(Lifecycle!vars)
  <2>1. PICK price : sub' = [sub EXCEPT ![t].monthlyAmount = price]
    BY <1>2 DEF ChangePrice
  <2>2. \A u \in Tenants : LifeOf(u)' = LifeOf(u)
    BY <2>1 DEF LifeOf, SubscriptionRow
  <2>3. LifeBar' = LifeBar
    BY <2>2 DEF LifeBar
  <2> QED BY <1>1, <2>3, LifeStutters
<1>3. ASSUME NEW t \in Tenants, Cancel(t) PROVE [Lifecycle!Next]_(Lifecycle!vars)
  <2>1. /\ sub'[t].status = "CANCELED" /\ sub'[t].periodEnd = sub[t].periodEnd
        /\ sub'[t].graceEndsAt = None
        /\ \A u \in Tenants : u # t => sub'[u] = sub[u]
        /\ sub[t].status # "NONE"
    BY <1>3 DEF Cancel, SubscriptionRow, HasSub
  <2>2. LifeBar' = [LifeBar EXCEPT ![t] = [status |-> "CANCELED",
                      periodEnd |-> sub[t].periodEnd, graceEndsAt |-> None]]
    BY <2>1, LifeMoves
  <2>3. Lifecycle!Cancel(t)
    BY <2>1, <2>2 DEF Lifecycle!Cancel, LifeBar, LifeOf
  <2> QED BY <1>1, <2>3, LifeActs
<1>4. CASE UNCHANGED sub
  BY <1>1, <1>4, LifeUnchanged, LifeStutters
<1> QED BY <1>1, <1>2, <1>3, <1>4 DEF AdminStep, UpdateStatus, UpdateSettings

LEMMA SweepLives ==
  ASSUME IInv, InTurn, SweepStep \/ CrashSweep
  PROVE  [Lifecycle!Next]_(Lifecycle!vars)
<1> USE DEF IInv, TypeInv, TypeOK
<1>1. UNCHANGED now
  BY DEF SweepStep, SweepStart, SweepReadLapsed, SweepExpire, SweepReadOverdue,
         SweepSuspendSub, SweepSuspendTenant, SweepEnd, CrashSweep
<1>2. CASE SweepExpire
  <2>1. PICK row \in sweep.queue :
          sub' = [sub EXCEPT ![row.t].status = "GRACE",
                             ![row.t].graceEndsAt = row.end + sweep.grace]
    BY <1>2 DEF SweepExpire
  <2>2. PICK t, g : t = row.t /\ g = sweep.grace
    OBVIOUS
  <2>3. /\ t \in Tenants /\ g \in GraceChoices
        /\ sub[t].status = "ACTIVE" /\ sub[t].periodEnd = row.end /\ sub[t].periodEnd <= now
    BY <1>2, <2>1, <2>2 DEF SweepExpire, InTurn, SweepStands, SweepState
  <2>4. /\ sub'[t].status = "GRACE" /\ sub'[t].periodEnd = sub[t].periodEnd
        /\ sub'[t].graceEndsAt = sub[t].periodEnd + g
        /\ \A u \in Tenants : u # t => sub'[u] = sub[u]
    BY <2>1, <2>2, <2>3 DEF SubscriptionRow
  <2>5. LifeBar' = [LifeBar EXCEPT ![t] = [status |-> "GRACE",
                      periodEnd |-> sub[t].periodEnd, graceEndsAt |-> sub[t].periodEnd + g]]
    BY <2>3, <2>4, LifeMoves
  <2>6. LifeBar' = [LifeBar EXCEPT ![t].status = "GRACE",
                                   ![t].graceEndsAt = LifeBar[t].periodEnd + g]
    BY <2>3, <2>5 DEF LifeBar, LifeOf
  <2>7. /\ LifeBar[t].status = "ACTIVE" /\ LifeBar[t].periodEnd <= now
        /\ \E h \in GraceChoices : LifeBar' = [LifeBar EXCEPT ![t].status = "GRACE",
                                   ![t].graceEndsAt = LifeBar[t].periodEnd + h]
    BY <2>3, <2>6 DEF LifeBar, LifeOf
  <2>8. Lifecycle!Lapse(t)
    BY <2>7, Zenon DEF Lifecycle!Lapse, LifeBar, LifeOf
  <2> QED BY <1>1, <2>3, <2>8, LifeActs
<1>3. CASE SweepSuspendSub
  <2>1. PICK row \in sweep.queue : sub' = [sub EXCEPT ![row.t].status = "SUSPENDED"]
    BY <1>3 DEF SweepSuspendSub
  <2>2. PICK t : t = row.t
    OBVIOUS
  <2>3. t \in Tenants /\ sub[t].status = "GRACE" /\ sub[t].graceEndsAt <= now
    BY <1>3, <2>1, <2>2 DEF SweepSuspendSub, InTurn, SweepStands, SweepState
  <2>4. /\ sub'[t].status = "SUSPENDED" /\ sub'[t].periodEnd = sub[t].periodEnd
        /\ sub'[t].graceEndsAt = sub[t].graceEndsAt
        /\ \A u \in Tenants : u # t => sub'[u] = sub[u]
    BY <2>1, <2>2, <2>3 DEF SubscriptionRow
  <2>5. LifeBar' = [LifeBar EXCEPT ![t] = [status |-> "SUSPENDED",
                      periodEnd |-> sub[t].periodEnd, graceEndsAt |-> sub[t].graceEndsAt]]
    BY <2>3, <2>4, LifeMoves
  <2>6. Lifecycle!Suspend(t)
    BY <2>3, <2>5 DEF Lifecycle!Suspend, LifeBar, LifeOf
  <2> QED BY <1>1, <2>3, <2>6, LifeActs
<1>4. CASE UNCHANGED sub
  BY <1>1, <1>4, LifeUnchanged, LifeStutters
<1> QED BY <1>2, <1>3, <1>4 DEF SweepStep, SweepStart, SweepReadLapsed, SweepReadOverdue,
           SweepSuspendTenant, SweepEnd, CrashSweep

LEMMA LifeSteps ==
  ASSUME ~Overlap, IInv, InTurn, [Next]_vars
  PROVE  [Lifecycle!Next]_(Lifecycle!vars)
<1>1. CASE Tick
  <2>1. now' = now + 1 /\ UNCHANGED LifeBar
    BY <1>1, LifeUnchanged DEF Tick
  <2> QED BY <2>1 DEF Lifecycle!Next, LifeBar, LifeOf
<1>2. CASE UNCHANGED vars
  BY <1>2, LifeUnchanged, LifeStutters DEF vars
<1> QED BY <1>1, <1>2, RequestLives, AdminLives, SweepLives DEF Next

LEMMA LifeBegins == Init => Lifecycle!Init
<1> SUFFICES ASSUME Init PROVE Lifecycle!Init
  OBVIOUS
<1>1. \A t \in Tenants : LifeOf(t) = [status |-> "NONE", periodEnd |-> 0, graceEndsAt |-> None]
  BY DEF Init, LifeOf
<1> QED BY <1>1 DEF Init, Lifecycle!Init, LifeOf

\* ImplementsLifecycle, for handlers that do not overlap: whatever the console
\* and the sweep do, a subscription moves as the SubscriptionStatus enum says,
\* each move when it is due, and is renewed from the end of its last period.
THEOREM LifecycleImplemented == ASSUME ~Overlap PROVE Spec => ImplementsLifecycle
<1>1. IInv /\ InTurn /\ [Next]_vars => [Lifecycle!Next]_(Lifecycle!vars)
  BY LifeSteps
<1> QED BY InTurnAlways, LifeBegins, <1>1, PTL DEF Spec, ImplementsLifecycle, Lifecycle!Spec
==============================================================================
