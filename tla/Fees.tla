-------------------------------- MODULE Fees --------------------------------
(***************************************************************************)
(* Invoices and payments (InvoicesService).  An invoice's paidAmount and   *)
(* status are never incremented: every payment and every refund recomputes *)
(* them, in its own transaction, from the payment rows it can see.         *)
(*                                                                         *)
(* The transactions run at PostgreSQL's READ COMMITTED: a statement sees   *)
(* the rows committed when it starts and its own transaction's writes.  A  *)
(* transaction is two steps here: the statements up to and including the   *)
(* read of the payments (nothing of it is visible to others), and the      *)
(* update of the invoice with the commit, which make all of it visible.    *)
(*                                                                         *)
(* paidAmount is kept as the set of payments it was summed from.           *)
(***************************************************************************)
EXTENDS Integers, FiniteSets, FiniteSetsExt

CONSTANTS
  Invoices,     \* supply of invoice ids
  Payments,     \* supply of payment ids
  Students,
  Applications, \* admission applications, the other kind of invoice owner
  Bases,        \* amounts of the fee structures
  Discounts,    \* what a structure's discount rules may come to, added up
  Amounts,      \* amounts that may be paid
  Requests,     \* payment and refund requests that may be in flight
  MaxCrashes,   \* bound: how many requests fail or are cut short
  Overlap,      \* TRUE: requests interleave; FALSE: one at a time
  None          \* SQL NULL

ASSUME FeesAssumption ==
  /\ IsFiniteSet(Payments) /\ IsFiniteSet(Invoices)
  /\ Bases \subseteq Nat /\ Discounts \subseteq Nat
  /\ Amounts \subseteq Nat \ {0}
  /\ MaxCrashes \in Nat
  /\ Overlap \in BOOLEAN
  /\ None \notin Invoices \cup Payments \cup Students \cup Applications
  /\ Students \cap Applications = {}   \* one UUID names one row

VARIABLES
  invoice,   \* Invoice rows; `counted`: the payments paidAmount is the sum of
  payment,   \* Payment rows
  req,       \* recordPayment and refundPayment in flight
  refunds,   \* history: refund requests answered with success, per payment
  crashes

feeVars == <<invoice, payment, req, refunds, crashes>>

Statuses == {"pending", "partial", "paid", "overdue"}

InvoiceRow == [live : BOOLEAN, student : Students \cup {None},
               application : Applications \cup {None}, total : Nat,
               counted : SUBSET Payments, status : Statuses, overdue : BOOLEAN]

PaymentRow == [state : {"free", "uncommitted", "live"}, invoice : Invoices \cup {None},
               amount : Nat, refunded : BOOLEAN]

FeeRequest == [pc : {"idle", "paying", "refund", "refunding"}, invoice : Invoices \cup {None},
               payment : Payments \cup {None}, counted : SUBSET Payments, fresh : BOOLEAN]

NoInvoice == [live |-> FALSE, student |-> None, application |-> None, total |-> 0,
              counted |-> {}, status |-> "pending", overdue |-> FALSE]

NoPayment == [state |-> "free", invoice |-> None, amount |-> 0, refunded |-> FALSE]

IdleReq == [pc |-> "idle", invoice |-> None, payment |-> None, counted |-> {},
            fresh |-> TRUE]

Init ==
  /\ invoice = [i \in Invoices |-> NoInvoice]
  /\ payment = [p \in Payments |-> NoPayment]
  /\ req = [r \in Requests |-> IdleReq]
  /\ refunds = [p \in Payments |-> 0]
  /\ crashes = 0

Live == {i \in Invoices : invoice[i].live}

Quiet == \A r \in Requests : req[r].pc = "idle"

MayStart == Overlap \/ Quiet

-----------------------------------------------------------------------------
(* fee-calc.ts                                                             *)

\* computeDiscountedAmount
Discounted(base, discount) == IF discount < base THEN base - discount ELSE 0

Totals == {Discounted(b, d) : b \in Bases, d \in Discounts}

\* computeInvoiceStatus: a total of 0 is never "paid".
InvoiceStatus(total, paid, overdue) ==
  IF total > 0 /\ paid >= total THEN "paid"
  ELSE IF paid > 0 THEN "partial"
  ELSE IF overdue THEN "overdue" ELSE "pending"

SumOf(S) == MapThenSumSet(LAMBDA p : payment[p].amount, S)

PaidAmount(i) == SumOf(invoice[i].counted)

\* findMany({ where: { invoiceId, refunded: false } }), committed rows only.
Standing(i) == {p \in Payments : payment[p].state = "live" /\ payment[p].invoice = i
                                 /\ ~payment[p].refunded}

-----------------------------------------------------------------------------
(* Generating invoices                                                     *)

\* createInvoice for every owner in `owners`, a function from ids not in use.
InsertInvoices(owners, total, overdue) ==
  invoice' = [i \in Invoices |->
    IF i \in DOMAIN owners
      THEN [NoInvoice EXCEPT !.live = TRUE, !.total = total, !.overdue = overdue,
              !.student = IF owners[i] \in Students THEN owners[i] ELSE None,
              !.application = IF owners[i] \in Applications THEN owners[i] ELSE None,
              !.status = InvoiceStatus(total, 0, overdue)]
      ELSE invoice[i]]

\* mode 'student': one student; mode 'class': all of a class in one transaction.
Generate(S) ==
  /\ MayStart
  /\ \E ids \in SUBSET (Invoices \ Live) :
       /\ Cardinality(ids) = Cardinality(S)
       /\ \E owners \in [ids -> S], total \in Totals, overdue \in BOOLEAN :
            /\ \A s \in S : \E i \in ids : owners[i] = s
            /\ InsertInvoices(owners, total, overdue)
  /\ UNCHANGED <<payment, req, refunds, crashes>>

\* The due date passes.  Nothing is written: stored statuses stay as they are.
FallDue(i) ==
  /\ invoice[i].live /\ ~invoice[i].overdue
  /\ invoice' = [invoice EXCEPT ![i].overdue = TRUE]
  /\ UNCHANGED <<payment, req, refunds, crashes>>

-----------------------------------------------------------------------------
(* recordPayment and refundPayment                                         *)

\* The end of a request's transaction on its invoice.  `fresh` is history: no
\* other commit on this invoice since the request read the payments.
Finish(r) ==
  req' = [q \in Requests |->
    IF q = r THEN IdleReq
    ELSE IF req[q].invoice = req[r].invoice THEN [req[q] EXCEPT !.fresh = FALSE]
    ELSE req[q]]

\* The last statement of recomputeInvoiceTotals.
WriteTotals(r) ==
  LET row == invoice[req[r].invoice] IN
  invoice' = [invoice EXCEPT
    ![req[r].invoice].counted = req[r].counted,
    ![req[r].invoice].status = InvoiceStatus(row.total, SumOf(req[r].counted), row.overdue)]

\* Inserts the payment and reads the payments that stand: nothing of an amount
\* is compared with what is still owed.
PayInsert(r, i) ==
  /\ MayStart /\ req[r].pc = "idle" /\ invoice[i].live
  /\ \E p \in Payments, amount \in Amounts :
       /\ payment[p].state = "free"
       /\ payment' = [payment EXCEPT ![p] =
            [NoPayment EXCEPT !.state = "uncommitted", !.invoice = i, !.amount = amount]]
       /\ req' = [req EXCEPT ![r] = [IdleReq EXCEPT !.pc = "paying", !.invoice = i,
                    !.payment = p, !.counted = Standing(i) \cup {p}]]
  /\ UNCHANGED <<invoice, refunds, crashes>>

PayCommit(r) ==
  /\ req[r].pc = "paying"
  /\ WriteTotals(r)
  /\ payment' = [payment EXCEPT ![req[r].payment].state = "live"]
  /\ Finish(r)
  /\ UNCHANGED <<refunds, crashes>>

\* Mutant: that the payment is refunded already is not refused.
RefundCheckAgain(r, p) ==
  /\ MayStart /\ req[r].pc = "idle" /\ payment[p].state = "live"
  /\ req' = [req EXCEPT ![r] = [IdleReq EXCEPT !.pc = "refund",
               !.invoice = payment[p].invoice, !.payment = p]]
  /\ UNCHANGED <<invoice, payment, refunds, crashes>>

\* The check is made before the transaction begins.
RefundCheck(r, p) ==
  /\ MayStart /\ req[r].pc = "idle"
  /\ payment[p].state = "live" /\ ~payment[p].refunded
  /\ req' = [req EXCEPT ![r] = [IdleReq EXCEPT !.pc = "refund",
               !.invoice = payment[p].invoice, !.payment = p]]
  /\ UNCHANGED <<invoice, payment, refunds, crashes>>

\* Mutant: the payments are read before the refund is written.
RefundUpdateLate(r) ==
  /\ req[r].pc = "refund"
  /\ \A q \in Requests : req[q].payment = req[r].payment => req[q].pc # "refunding"
  /\ req' = [req EXCEPT ![r].pc = "refunding", ![r].fresh = TRUE,
               ![r].counted = Standing(req[r].invoice)]
  /\ UNCHANGED <<invoice, payment, refunds, crashes>>

\* Mutant: the refund is taken off the stored total.
RefundUpdateDecrement(r) ==
  /\ req[r].pc = "refund"
  /\ \A q \in Requests : req[q].payment = req[r].payment => req[q].pc # "refunding"
  /\ req' = [req EXCEPT ![r].pc = "refunding", ![r].fresh = TRUE,
               ![r].counted = invoice[req[r].invoice].counted \ {req[r].payment}]
  /\ UNCHANGED <<invoice, payment, refunds, crashes>>

\* Updates the payment, which locks its row until the commit, and reads the
\* payments that stand.
RefundUpdate(r) ==
  /\ req[r].pc = "refund"
  /\ \A q \in Requests : req[q].payment = req[r].payment => req[q].pc # "refunding"
  /\ req' = [req EXCEPT ![r].pc = "refunding", ![r].fresh = TRUE,
               ![r].counted = Standing(req[r].invoice) \ {req[r].payment}]
  /\ UNCHANGED <<invoice, payment, refunds, crashes>>

RefundCommit(r) ==
  /\ req[r].pc = "refunding"
  /\ WriteTotals(r)
  /\ payment' = [payment EXCEPT ![req[r].payment].refunded = TRUE]
  /\ refunds' = [refunds EXCEPT ![req[r].payment] = @ + 1]
  /\ Finish(r)
  /\ UNCHANGED crashes

\* An error or a restart: the transaction is rolled back.
Abort(r) ==
  /\ crashes < MaxCrashes /\ req[r].pc # "idle"
  /\ payment' = IF req[r].pc = "paying"
                 THEN [payment EXCEPT ![req[r].payment] = NoPayment] ELSE payment
  /\ req' = [req EXCEPT ![r] = IdleReq]
  /\ crashes' = crashes + 1
  /\ UNCHANGED <<invoice, refunds>>

FeeStep ==
  \/ \E S \in SUBSET Students : S # {} /\ Generate(S)
  \/ \E i \in Invoices : FallDue(i)
  \/ \E r \in Requests :
       \/ \E i \in Invoices : PayInsert(r, i)
       \/ \E p \in Payments : RefundCheck(r, p)
       \/ PayCommit(r) \/ RefundUpdate(r) \/ RefundCommit(r) \/ Abort(r)

Spec == Init /\ [][FeeStep]_feeVars

-----------------------------------------------------------------------------
(* Reading: outstanding balances                                           *)

\* An invoice is listed under its student once it has one.
Bucket(i) == IF invoice[i].student # None THEN invoice[i].student
                                          ELSE invoice[i].application

Buckets == {Bucket(i) : i \in Live}

TotalPaid(b) == MapThenSumSet(PaidAmount, {i \in Live : Bucket(i) = b})

TotalCollected == MapThenSumSet(PaidAmount, Live)

-----------------------------------------------------------------------------
(* Properties                                                              *)

\* Every variable holds a value of its columns or of its handler's locals.
TypeOK ==
  /\ invoice \in [Invoices -> InvoiceRow]
  /\ payment \in [Payments -> PaymentRow]
  /\ req \in [Requests -> FeeRequest]
  /\ refunds \in [Payments -> Nat]
  /\ crashes \in Nat

\* paidAmount is the sum of the payments that stand.
Accurate(i) == invoice[i].counted = Standing(i)

\* With one request at a time, failed ones included, an invoice's paidAmount is
\* the sum of its payments that are not refunded, and it is "paid" exactly when
\* that covers a total that is not 0.
PaidAmountAccurate ==
  \A i \in Live :
    /\ Accurate(i)
    /\ invoice[i].status = "paid"
         <=> invoice[i].total > 0 /\ SumOf(Standing(i)) >= invoice[i].total

\* What concurrent requests lost is made up for by the next one: a payment or a
\* refund during which no other commits leaves its invoice accurate, whatever
\* went wrong on the invoice before.
NextOneRepairs ==
  [][\A r \in Requests, i \in Invoices :
       /\ req[r].pc \in {"paying", "refunding"} /\ req[r].fresh /\ req[r].invoice = i
       /\ req'[r].pc = "idle" /\ crashes' = crashes
       => Accurate(i)']_feeVars

\* Whatever interleaves, nothing is counted that was not paid: an invoice's
\* paidAmount consists of committed payments made on this invoice, and when
\* nothing is in flight an invoice with no payment on it shows none.
OnlyRealMoney ==
  \A i \in Live : \A p \in invoice[i].counted :
    payment[p].state = "live" /\ payment[p].invoice = i

==============================================================================
