----------------------------- MODULE Admissions -----------------------------
(***************************************************************************)
(* The admission pipeline (AdmissionsService) over the fee ledger of Fees: *)
(* entering `fee_payment` generates the applicant's invoice, and enrolling *)
(* needs that invoice paid, creates the student, and hands the             *)
(* application's invoices over to the student.                             *)
(*                                                                         *)
(* Every handler reads the application first and writes by its id later;   *)
(* each awaited statement is a step.                                       *)
(***************************************************************************)
EXTENDS Fees, Sequences, SequencesExt

CONSTANT Clerks   \* admission requests that may be in flight

ASSUME AdmissionsAssumption ==
  IsFiniteSet(Clerks) /\ IsFiniteSet(Requests) /\ IsFiniteSet(Applications)

VARIABLES
  app,      \* AdmissionApplication rows
  students, \* ids of the Student rows
  clerk     \* admission requests in flight

admVars == <<app, students, clerk>>
vars == <<admVars, feeVars>>

StageOrder == <<"inquiry", "application", "documents", "review", "entrance_test",
                "interview", "acceptance", "fee_payment", "enrollment">>

StageIndex(s) == CHOOSE n \in DOMAIN StageOrder : StageOrder[n] = s

Decisions == {"accepted", "rejected", "waitlisted"}

NoApplication == [live |-> FALSE, stage |-> "inquiry", decision |-> "pending",
                  feeInvoice |-> None, student |-> None]

IdleClerk == [pc |-> "idle", app |-> None, target |-> "inquiry", invoice |-> None]

AdmInit ==
  /\ Init
  /\ app = [a \in Applications |-> NoApplication]
  /\ students = {}
  /\ clerk = [c \in Clerks |-> IdleClerk]

\* A request starts when it finds the others idle, or whenever it likes.
ClerksIdle == \A c \in Clerks : clerk[c].pc = "idle"

Starts(c) == clerk[c].pc = "idle" /\ (Overlap \/ (Quiet /\ ClerksIdle))

Answer(c) == clerk' = [clerk EXCEPT ![c] = IdleClerk]

-----------------------------------------------------------------------------
(* createInquiry, decide: single writes, at any stage                      *)

CreateInquiry(a) ==
  /\ ~app[a].live
  /\ app' = [app EXCEPT ![a].live = TRUE]
  /\ UNCHANGED <<students, clerk, feeVars>>

Decide(a, decision) ==
  /\ app[a].live
  /\ app' = [app EXCEPT ![a].decision = decision]
  /\ UNCHANGED <<students, clerk, feeVars>>

-----------------------------------------------------------------------------
(* update: PATCH with a target stage                                       *)

\* assertStageTransitionAllowed
Allowed(row, target) ==
  /\ StageIndex(target) = StageIndex(row.stage) + 1
  /\ target = "fee_payment" => row.decision = "accepted"

\* The application is read and the move checked.
UpdateRead(c, a, target) ==
  /\ Starts(c) /\ app[a].live /\ Allowed(app[a], target)
  /\ clerk' = [clerk EXCEPT ![c] =
       [pc |-> IF target = "fee_payment" THEN "invoice" ELSE "write",
        app |-> a, target |-> target, invoice |-> app[a].feeInvoice]]
  /\ UNCHANGED <<app, students, feeVars>>

\* generateAdmissionInvoice: the invoice the row named when it was read, or a new
\* one, due at once; it is committed before the application's row is written.
GenerateAdmissionInvoice(c) ==
  /\ clerk[c].pc = "invoice"
  /\ \/ /\ clerk[c].invoice # None
        /\ clerk' = [clerk EXCEPT ![c].pc = "write"]
        /\ UNCHANGED invoice
     \/ /\ clerk[c].invoice = None
        /\ \E i \in Invoices \ Live, total \in Totals :
             /\ InsertInvoices([j \in {i} |-> clerk[c].app], total, TRUE)
             /\ clerk' = [clerk EXCEPT ![c].pc = "write", ![c].invoice = i]
  /\ UNCHANGED <<app, students, payment, req, refunds, crashes>>

\* The write, by id: whatever the row's stage has become since.
UpdateWrite(c) ==
  /\ clerk[c].pc = "write"
  /\ app' = [app EXCEPT ![clerk[c].app].stage = clerk[c].target,
                        ![clerk[c].app].feeInvoice =
                           IF clerk[c].target = "fee_payment" THEN clerk[c].invoice ELSE @]
  /\ Answer(c)
  /\ UNCHANGED <<students, feeVars>>

-----------------------------------------------------------------------------
(* enroll                                                                  *)

\* Mutant: an application that is enrolled is not refused.
EnrollReadAgain(c, a) ==
  /\ Starts(c) /\ app[a].live
  /\ app[a].stage = "enrollment" /\ app[a].feeInvoice # None
  /\ clerk' = [clerk EXCEPT ![c] = [IdleClerk EXCEPT !.pc = "paid?", !.app = a,
                                      !.invoice = app[a].feeInvoice]]
  /\ UNCHANGED <<app, students, feeVars>>

EnrollRead(c, a) ==
  /\ Starts(c) /\ app[a].live
  /\ app[a].stage = "enrollment" /\ app[a].student = None /\ app[a].feeInvoice # None
  /\ clerk' = [clerk EXCEPT ![c] = [IdleClerk EXCEPT !.pc = "paid?", !.app = a,
                                      !.invoice = app[a].feeInvoice]]
  /\ UNCHANGED <<app, students, feeVars>>

\* Mutant: anything paid on the invoice will do.
EnrollCheckPartial(c) ==
  /\ clerk[c].pc = "paid?"
  /\ IF invoice[clerk[c].invoice].status \in {"paid", "partial"}
       THEN clerk' = [clerk EXCEPT ![c].pc = "enroll"]
       ELSE Answer(c)
  /\ UNCHANGED <<app, students, feeVars>>

\* isInvoicePaid: the stored status.
EnrollCheckPaid(c) ==
  /\ clerk[c].pc = "paid?"
  /\ IF invoice[clerk[c].invoice].status = "paid"
       THEN clerk' = [clerk EXCEPT ![c].pc = "enroll"]
       ELSE Answer(c)
  /\ UNCHANGED <<app, students, feeVars>>

\* Mutant: only the invoice the application names is handed over.
ReconcileLinked(a, s) ==
  invoice' = [i \in Invoices |->
    IF i = app[a].feeInvoice THEN [invoice[i] EXCEPT !.student = s] ELSE invoice[i]]

\* reconcileAdmissionInvoices
Reconcile(a, s) ==
  invoice' = [i \in Invoices |->
    IF invoice[i].live /\ invoice[i].application = a
      THEN [invoice[i] EXCEPT !.student = s] ELSE invoice[i]]

\* Mutant: the application is given its own id in place of the student's.
EnrollCommitWrongId(c) ==
  /\ clerk[c].pc = "enroll"
  /\ \E s \in Students \ students :
       /\ students' = students \cup {s}
       /\ app' = [app EXCEPT ![clerk[c].app].student = clerk[c].app]
       /\ Reconcile(clerk[c].app, s)
  /\ Answer(c)
  /\ UNCHANGED <<payment, req, refunds, crashes>>

\* The transaction: the student, the application's reference, its invoices.
EnrollCommit(c) ==
  /\ clerk[c].pc = "enroll"
  /\ \E s \in Students \ students :
       /\ students' = students \cup {s}
       /\ app' = [app EXCEPT ![clerk[c].app].student = s]
       /\ Reconcile(clerk[c].app, s)
  /\ Answer(c)
  /\ UNCHANGED <<payment, req, refunds, crashes>>

-----------------------------------------------------------------------------

\* An error or a restart between two statements; the clerk may try again.
ClerkAbort(c) ==
  /\ crashes < MaxCrashes /\ clerk[c].pc # "idle"
  /\ Answer(c)
  /\ crashes' = crashes + 1
  /\ UNCHANGED <<app, students, invoice, payment, req, refunds>>

AdmissionStep ==
  \/ \E a \in Applications : CreateInquiry(a) \/ \E d \in Decisions : Decide(a, d)
  \/ \E c \in Clerks :
       \/ \E a \in Applications :
            EnrollRead(c, a) \/ \E s \in ToSet(StageOrder) : UpdateRead(c, a, s)
       \/ GenerateAdmissionInvoice(c) \/ UpdateWrite(c)
       \/ EnrollCheckPaid(c) \/ EnrollCommit(c) \/ ClerkAbort(c)

\* The fee office works on the same rows; students are invoiced once they exist.
LedgerStep ==
  /\ Overlap \/ ClerksIdle
  /\ \/ \E s \in students : Generate({s})
     \/ \E i \in Invoices : FallDue(i)
     \/ \E r \in Requests :
          \/ \E i \in Invoices : PayInsert(r, i)
          \/ \E p \in Payments : RefundCheck(r, p)
          \/ PayCommit(r) \/ RefundUpdate(r) \/ RefundCommit(r) \/ Abort(r)
  /\ UNCHANGED admVars

AdmSpec == AdmInit /\ [][AdmissionStep \/ LedgerStep]_vars

-----------------------------------------------------------------------------
(* Properties                                                              *)

\* Every variable holds a value of its columns or of its handler's locals.
AdmTypeOK ==
  /\ TypeOK
  /\ app \in [Applications -> [live : BOOLEAN, stage : ToSet(StageOrder),
               decision : Decisions \cup {"pending"}, feeInvoice : Invoices \cup {None},
               student : Students \cup {None}]]
  /\ students \in SUBSET Students
  /\ clerk \in [Clerks -> [pc : {"idle", "invoice", "write", "paid?", "enroll"},
                app : Applications \cup {None}, target : ToSet(StageOrder),
                invoice : Invoices \cup {None}]]

InvoicesOf(a) == {i \in Live : invoice[i].application = a}

\* One request at a time nothing happens twice that was not cut short.  A payment is
\* refunded once.  A student is the one that exactly one application was enrolled as.
\* When nothing was cut short, an application has one admission invoice from
\* `fee_payment` on, the one its row names; each request that is cut short, between the
\* invoice and the row, may leave an application with one more.
NothingTwice ==
  /\ \A p \in Payments : refunds[p] <= 1
  /\ \A s \in students : Cardinality({a \in Applications : app[a].student = s}) = 1
  /\ crashes = 0 /\ ClerksIdle => \A a \in Applications :
       InvoicesOf(a) = IF StageIndex(app[a].stage) < StageIndex("fee_payment")
                         THEN {} ELSE {app[a].feeInvoice}
  /\ \A a \in Applications : Cardinality(InvoicesOf(a)) <= 1 + crashes

Enrolled == {a \in Applications : app[a].student # None}

\* How many of these may act on one stale answer to the same check.
MayMeet(S) == IF Overlap THEN Cardinality(S) ELSE 1

\* What stale checks can do has a limit, in any interleaving: a payment is refunded, an
\* application billed and a student created for it at most once for each request that
\* may be in flight, and billed once more for each that is cut short.  The first refund,
\* invoice and student stop all requests that start later.
DoubledAtMost ==
  /\ \A p \in Payments : refunds[p] <= MayMeet(Requests)
  /\ \A a \in Applications : Cardinality(InvoicesOf(a)) <= MayMeet(Clerks) + crashes
  /\ Cardinality(students) <= MayMeet(Clerks) * Cardinality(Enrolled)

\* generateAdmissionInvoice calls itself idempotent: "a retried PATCH, or one that somehow
\* re-enters this stage, reuses the existing invoice rather than creating a second one".
BilledOnce == \A a \in Applications : Cardinality(InvoicesOf(a)) <= 1

\* Whatever interleaves, an application is enrolled only after payments that
\* cover an admission invoice of it were made (refunds may have followed).
PaidBeforeEnrolled ==
  \A a \in Applications : app[a].student # None =>
    \E i \in InvoicesOf(a) :
      LET made == {p \in Payments : payment[p].state = "live" /\ payment[p].invoice = i}
      IN invoice[i].total > 0 /\ SumOf(made) >= invoice[i].total

\* With one request at a time, failed ones included, the balance of an enrolled
\* student shows all that stands paid on the student's invoices and on those of
\* the application, a forgotten second admission invoice too; nothing is left
\* under the application.
StatementComplete ==
  \A a \in Applications : app[a].student # None =>
    /\ TotalPaid(app[a].student) =
         SumOf(UNION {Standing(i) : i \in {j \in Live : \/ invoice[j].student = app[a].student
                                                        \/ invoice[j].application = a}})
    /\ a \notin Buckets
=============================================================================
