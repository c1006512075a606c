-------------------------- MODULE AdmissionsProofs --------------------------
(***************************************************************************)
(* Theorems about Fees, and about Admissions, whose pipeline works on the  *)
(* rows of Fees, for any number of applications, invoices, payments and    *)
(* requests, any interleaving and any roll-backs.                          *)
(*                                                                         *)
(* Fees: the properties speak of invoices; what makes them hold is what    *)
(* the transactions in flight have read.  The invariant says of each:      *)
(* whose payments it holds, that its own payment is its own, and, as long  *)
(* as no other commit came in between, that what it will write is the      *)
(* truth.                                                                  *)
(*                                                                         *)
(* Admissions: AdmInv starts from the invariant of Fees and holds whatever *)
(* interleaves: it says that what a request holds between its statements   *)
(* is the application's own, and that a request that will enroll has seen  *)
(* the fee paid.  SerialInv is what one request at a time adds: refunds,   *)
(* students and invoices correspond one to one, and nothing is paid under  *)
(* an enrolled application that is not the student's.  LimitInv is what    *)
(* any number of requests in flight leave of that: it counts, with the     *)
(* refunds, invoices and students there are, the requests that will still  *)
(* add one because they have checked before the first was written.         *)
(***************************************************************************)
EXTENDS Admissions, SumTheorems

\* A payment that is being recorded is seen by its own request only.
Recording(r) ==
  req[r].pc = "paying" =>
    /\ req[r].payment \in Payments /\ req[r].invoice \in Invoices
    /\ payment[req[r].payment].state = "uncommitted"
    /\ payment[req[r].payment].invoice = req[r].invoice
    /\ ~payment[req[r].payment].refunded

\* A payment that is being refunded is there.
Refunding(r) ==
  req[r].pc \in {"refund", "refunding"} =>
    /\ req[r].payment \in Payments /\ req[r].invoice \in Invoices
    /\ payment[req[r].payment].state = "live"
    /\ payment[req[r].payment].invoice = req[r].invoice

\* What a transaction has read are committed payments of its invoice.
ReadsReal(r) ==
  /\ req[r].pc \in {"paying", "refunding"} => \A p \in req[r].counted :
       \/ payment[p].state = "live" /\ payment[p].invoice = req[r].invoice
       \/ req[r].pc = "paying" /\ p = req[r].payment

\* Undisturbed, it is what will stand after its commit.
ReadsAll(r) ==
  /\ req[r].pc = "paying" /\ req[r].fresh =>
       req[r].counted = Standing(req[r].invoice) \cup {req[r].payment}
  /\ req[r].pc = "refunding" /\ req[r].fresh =>
       req[r].counted = Standing(req[r].invoice) \ {req[r].payment}

OwnPayment ==
  \A r, q \in Requests :
    req[r].pc = "paying" /\ req[q].pc = "paying" /\ req[r].payment = req[q].payment => r = q

InFlight == \A r \in Requests : Recording(r) /\ Refunding(r) /\ ReadsReal(r) /\ ReadsAll(r)

\* A payment is made on an invoice that exists.
OnInvoice ==
  \A p \in Payments : payment[p].state # "free" =>
    payment[p].invoice \in Invoices /\ invoice[payment[p].invoice].live

IInv == TypeOK /\ InFlight /\ OwnPayment /\ OnInvoice /\ OnlyRealMoney

\* With one request at a time nothing is in flight but it, and it is undisturbed.
Alone ==
  /\ \A r, q \in Requests : req[r].pc # "idle" /\ req[q].pc # "idle" => r = q
  /\ \A r \in Requests : req[r].pc # "idle" => req[r].fresh

\* Every invoice counts exactly the payments that stand.
AllAccurate == \A i \in Live : Accurate(i)

-----------------------------------------------------------------------------
(* Type correctness                                                        *)

LEMMA RowsTyped ==
  /\ NoInvoice \in InvoiceRow /\ NoPayment \in PaymentRow /\ IdleReq \in FeeRequest
BY DEF NoInvoice, NoPayment, IdleReq, InvoiceRow, PaymentRow, FeeRequest, Statuses

LEMMA StatusTyped ==
  ASSUME NEW total, NEW paid, NEW overdue
  PROVE  InvoiceStatus(total, paid, overdue) \in Statuses
BY DEF InvoiceStatus, Statuses

LEMMA TotalsTyped == Totals \subseteq Nat
BY FeesAssumption DEF Totals, Discounted

LEMMA StandingTyped == ASSUME NEW i PROVE Standing(i) \in SUBSET Payments
BY DEF Standing

LEMMA FinishTyped ==
  ASSUME TypeOK, NEW r \in Requests, Finish(r)
  PROVE  req' \in [Requests -> FeeRequest]
BY RowsTyped DEF TypeOK, Finish, FeeRequest

LEMMA WriteTyped ==
  ASSUME TypeOK, NEW r \in Requests, req[r].invoice \in Invoices, WriteTotals(r)
  PROVE  /\ invoice' \in [Invoices -> InvoiceRow]
         /\ \A i \in Invoices : /\ invoice'[i].live = invoice[i].live
                                /\ invoice'[i].counted = IF i = req[r].invoice
                                     THEN req[r].counted ELSE invoice[i].counted
<1> DEFINE row == invoice[req[r].invoice]
           st == InvoiceStatus(row.total, SumOf(req[r].counted), row.overdue)
<1>1. st \in Statuses
  BY StatusTyped
<1>2. invoice' = [invoice EXCEPT ![req[r].invoice].counted = req[r].counted,
                                 ![req[r].invoice].status = st]
  BY DEF WriteTotals
<1> HIDE DEF st
<1>3. req[r].counted \in SUBSET Payments
  BY DEF TypeOK, FeeRequest
<1> QED BY <1>1, <1>2, <1>3 DEF TypeOK, InvoiceRow

LEMMA InsertTyped ==
  ASSUME TypeOK, NEW owners, DOMAIN owners \subseteq Invoices \ Live, NEW total \in Nat,
         NEW overdue \in BOOLEAN, InsertInvoices(owners, total, overdue)
  PROVE  /\ invoice' \in [Invoices -> InvoiceRow]
         /\ \A i \in Invoices : \/ invoice'[i] = invoice[i]
                                \/ /\ ~invoice[i].live /\ invoice'[i].live
                                   /\ invoice'[i].counted = {}
<1> DEFINE st == InvoiceStatus(total, 0, overdue)
           row(i) == [NoInvoice EXCEPT !.live = TRUE, !.total = total, !.overdue = overdue,
              !.student = IF owners[i] \in Students THEN owners[i] ELSE None,
              !.application = IF owners[i] \in Applications THEN owners[i] ELSE None,
              !.status = st]
<1>1. st \in Statuses
  BY StatusTyped
<1>2. invoice' = [i \in Invoices |-> IF i \in DOMAIN owners THEN row(i) ELSE invoice[i]]
  BY DEF InsertInvoices
<1> HIDE DEF st
<1>3. ASSUME NEW i \in Invoices
      PROVE  row(i) \in InvoiceRow /\ row(i).live /\ row(i).counted = {}
  BY <1>1 DEF NoInvoice, InvoiceRow
<1> HIDE DEF row
<1>4. invoice' \in [Invoices -> InvoiceRow]
  BY <1>2, <1>3 DEF TypeOK
<1>5. ASSUME NEW i \in Invoices
      PROVE  \/ invoice'[i] = invoice[i]
             \/ ~invoice[i].live /\ invoice'[i].live /\ invoice'[i].counted = {}
  <2>1. CASE i \in DOMAIN owners
    BY <2>1, <1>2, <1>3 DEF Live
  <2>2. CASE i \notin DOMAIN owners
    BY <2>2, <1>2
  <2> QED BY <2>1, <2>2
<1> QED BY <1>4, <1>5

\* What Generate leaves: typed rows, and invoices as they were or new and empty.
LEMMA GenerateTyped ==
  ASSUME TypeOK, NEW S \in SUBSET Students, Generate(S)
  PROVE  /\ invoice' \in [Invoices -> InvoiceRow]
         /\ \A i \in Invoices : \/ invoice'[i] = invoice[i]
                                \/ /\ ~invoice[i].live /\ invoice'[i].live
                                   /\ invoice'[i].counted = {}
<1>1. PICK ids \in SUBSET (Invoices \ Live) :
        \E owners \in [ids -> S], total \in Totals, overdue \in BOOLEAN :
          InsertInvoices(owners, total, overdue)
  BY DEF Generate
<1>2. PICK owners \in [ids -> S], total \in Totals, overdue \in BOOLEAN :
        InsertInvoices(owners, total, overdue)
  BY <1>1
<1>3. total \in Nat /\ DOMAIN owners \subseteq Invoices \ Live
  BY TotalsTyped, <1>2
<1> QED BY <1>2, <1>3, InsertTyped

LEMMA TypeInit == Init => TypeOK
BY RowsTyped, FeesAssumption DEF Init, TypeOK

-----------------------------------------------------------------------------
(* The invariant, action by action                                         *)

\* Steps that touch no payment and no request.
LEMMA InvoicesOnly ==
  ASSUME IInv, UNCHANGED <<payment, req, refunds, crashes>>,
         invoice' \in [Invoices -> InvoiceRow],
         \A i \in Invoices : \/ /\ invoice'[i].live = invoice[i].live
                               /\ invoice'[i].counted = invoice[i].counted
                            \/ /\ ~invoice[i].live /\ invoice'[i].live
                               /\ invoice'[i].counted = {}
  PROVE  IInv'
<1>1. TypeOK'
  BY DEF IInv, TypeOK
<1>2. InFlight' /\ OwnPayment'
  BY DEF IInv, InFlight, OwnPayment, Recording, Refunding, ReadsReal, ReadsAll, Standing
<1>3. OnInvoice' /\ OnlyRealMoney'
  BY DEF IInv, OnInvoice, OnlyRealMoney, Live
<1> QED BY <1>1, <1>2, <1>3 DEF IInv

LEMMA GenerateInv ==
  ASSUME IInv, NEW S \in SUBSET Students, Generate(S)
  PROVE  IInv'
BY GenerateTyped, InvoicesOnly DEF IInv, Generate

LEMMA FallDueInv ==
  ASSUME IInv, NEW i \in Invoices, FallDue(i)
  PROVE  IInv'
<1>1. invoice' \in [Invoices -> InvoiceRow]
  BY DEF IInv, TypeOK, FallDue, InvoiceRow
<1>2. \A j \in Invoices : /\ invoice'[j].live = invoice[j].live
                         /\ invoice'[j].counted = invoice[j].counted
  BY DEF IInv, TypeOK, FallDue, InvoiceRow
<1> QED BY <1>1, <1>2, InvoicesOnly DEF FallDue

LEMMA PayInsertInv ==
  ASSUME IInv, NEW r \in Requests, NEW i \in Invoices, PayInsert(r, i)
  PROVE  IInv'
<1>1. PICK p \in Payments, amount \in Amounts :
        /\ payment[p].state = "free"
        /\ payment' = [payment EXCEPT ![p] =
             [NoPayment EXCEPT !.state = "uncommitted", !.invoice = i, !.amount = amount]]
        /\ req' = [req EXCEPT ![r] = [IdleReq EXCEPT !.pc = "paying", !.invoice = i,
                     !.payment = p, !.counted = Standing(i) \cup {p}]]
  BY DEF PayInsert
<1> DEFINE q == [IdleReq EXCEPT !.pc = "paying", !.invoice = i,
                   !.payment = p, !.counted = Standing(i) \cup {p}]
           row == [NoPayment EXCEPT !.state = "uncommitted", !.invoice = i, !.amount = amount]
<1>2. q \in FeeRequest /\ row \in PaymentRow
  BY StandingTyped, FeesAssumption DEF IdleReq, FeeRequest, NoPayment, PaymentRow
<1>3. /\ q.pc = "paying" /\ q.invoice = i /\ q.payment = p /\ q.counted = Standing(i) \cup {p}
      /\ row.state = "uncommitted" /\ row.invoice = i /\ ~row.refunded
  BY DEF IdleReq, NoPayment
<1> HIDE DEF q, row
<1>4. payment' = [payment EXCEPT ![p] = row] /\ req' = [req EXCEPT ![r] = q]
  BY <1>1 DEF q, row
<1>5. invoice[i].live /\ req[r].pc = "idle" /\ UNCHANGED <<invoice, refunds, crashes>>
  BY DEF PayInsert
<1>6. TypeOK'
  BY <1>2, <1>4, <1>5 DEF IInv, TypeOK
<1>7. /\ \A s \in Payments : payment'[s] = IF s = p THEN row ELSE payment[s]
      /\ \A s \in Requests : req'[s] = IF s = r THEN q ELSE req[s]
  BY <1>4 DEF IInv, TypeOK
<1>8. ASSUME NEW j PROVE Standing(j)' = Standing(j)
  <2>1. ASSUME NEW s \in Payments
        PROVE  payment'[s].state = "live" /\ payment'[s].invoice = j /\ ~payment'[s].refunded
                 <=> payment[s].state = "live" /\ payment[s].invoice = j /\ ~payment[s].refunded
    BY <1>7, <1>3, <1>1
  <2> QED BY <2>1 DEF Standing
<1>9. \A s \in Requests : req[s].counted \subseteq Payments
  BY DEF IInv, TypeOK, FeeRequest
<1>10. InFlight'
  <2> SUFFICES ASSUME NEW s \in Requests
               PROVE  (Recording(s) /\ Refunding(s) /\ ReadsReal(s) /\ ReadsAll(s))'
    BY DEF InFlight
  <2>1. CASE s = r
    <3>1. req'[s] = q
      BY <2>1, <1>7
    <3>2. Recording(s)' /\ Refunding(s)' /\ ReadsAll(s)'
      BY <3>1, <1>3, <1>7, <1>8 DEF Recording, Refunding, ReadsAll
    <3>3. \A x \in Standing(i) : payment'[x].state = "live" /\ payment'[x].invoice = i
      BY <1>7, <1>1 DEF Standing
    <3>4. ReadsReal(s)'
      BY <3>1, <3>3, <1>3 DEF ReadsReal
    <3> QED BY <3>2, <3>4
  <2>2. CASE s # r
    <3>1. req'[s] = req[s]
      BY <2>2, <1>7
    <3>2. Recording(s)' /\ Refunding(s)' /\ ReadsAll(s)'
      BY <3>1, <1>1, <1>7, <1>8 DEF IInv, InFlight, Recording, Refunding, ReadsAll
    <3>3. ReadsReal(s)'
      BY <3>1, <1>1, <1>7, <1>9 DEF IInv, InFlight, ReadsReal
    <3> QED BY <3>2, <3>3
  <2> QED BY <2>1, <2>2
<1>11. OwnPayment'
  BY <1>1, <1>3, <1>7 DEF IInv, InFlight, OwnPayment, Recording
<1>12. OnInvoice'
  BY <1>3, <1>5, <1>7 DEF IInv, OnInvoice
<1>13. OnlyRealMoney'
  <2>1. \A j \in Invoices : invoice[j].counted \subseteq Payments
    BY DEF IInv, TypeOK, InvoiceRow
  <2> QED BY <2>1, <1>1, <1>5, <1>7 DEF IInv, OnlyRealMoney, Live
<1> QED BY <1>6, <1>10, <1>11, <1>12, <1>13 DEF IInv

\* Steps that change no row: only the request itself moves.
LEMMA RequestOnly ==
  ASSUME IInv, NEW r \in Requests, NEW q \in FeeRequest, req' = [req EXCEPT ![r] = q],
         UNCHANGED <<invoice, payment, refunds>>, crashes' \in Nat, q.pc # "paying",
         (Recording(r) /\ Refunding(r) /\ ReadsReal(r) /\ ReadsAll(r))'
  PROVE  IInv'
<1>1. \A s \in Requests : req'[s] = IF s = r THEN q ELSE req[s]
  BY DEF IInv, TypeOK
<1>2. TypeOK'
  BY DEF IInv, TypeOK
<1>3. InFlight'
  BY <1>1 DEF IInv, InFlight, Recording, Refunding, ReadsReal, ReadsAll, Standing
<1>4. OwnPayment'
  BY <1>1 DEF IInv, OwnPayment
<1>5. OnInvoice' /\ OnlyRealMoney'
  BY DEF IInv, OnInvoice, OnlyRealMoney, Live
<1> QED BY <1>2, <1>3, <1>4, <1>5 DEF IInv

LEMMA RefundCheckInv ==
  ASSUME IInv, NEW r \in Requests, NEW p \in Payments, RefundCheck(r, p)
  PROVE  IInv'
<1> DEFINE q == [IdleReq EXCEPT !.pc = "refund", !.invoice = payment[p].invoice, !.payment = p]
<1>1. payment[p].invoice \in Invoices /\ payment[p].state = "live"
  BY DEF IInv, OnInvoice, RefundCheck
<1>2. q \in FeeRequest /\ q.pc = "refund" /\ q.invoice = payment[p].invoice /\ q.payment = p
  BY <1>1, FeesAssumption DEF IdleReq, FeeRequest
<1> HIDE DEF q
<1>3. req' = [req EXCEPT ![r] = q] /\ UNCHANGED <<invoice, payment, refunds, crashes>>
  BY DEF RefundCheck, q
<1>4. req'[r] = q
  BY <1>3 DEF IInv, TypeOK
<1>5. (Recording(r) /\ Refunding(r) /\ ReadsReal(r) /\ ReadsAll(r))'
  BY <1>1, <1>2, <1>3, <1>4 DEF Recording, Refunding, ReadsReal, ReadsAll
<1>6. crashes' \in Nat
  BY <1>3 DEF IInv, TypeOK
<1> QED BY <1>2, <1>3, <1>5, <1>6, RequestOnly

LEMMA RefundUpdateInv ==
  ASSUME IInv, NEW r \in Requests, RefundUpdate(r)
  PROVE  IInv'
<1> DEFINE q == [req[r] EXCEPT !.pc = "refunding", !.fresh = TRUE,
                   !.counted = Standing(req[r].invoice) \ {req[r].payment}]
<1>1. req[r] \in FeeRequest /\ req[r].pc = "refund" /\ Refunding(r)
  BY DEF IInv, TypeOK, RefundUpdate, InFlight
<1>2. /\ q \in FeeRequest /\ q.pc = "refunding" /\ q.invoice = req[r].invoice
      /\ q.payment = req[r].payment /\ q.counted = Standing(q.invoice) \ {q.payment}
  BY <1>1, StandingTyped DEF FeeRequest
<1>3. req' = [req EXCEPT ![r] = q] /\ UNCHANGED <<invoice, payment, refunds, crashes>>
  BY DEF RefundUpdate, IInv, TypeOK
<1> HIDE DEF q
<1>4. req'[r] = q
  BY <1>3 DEF IInv, TypeOK
<1>5. (Recording(r) /\ Refunding(r) /\ ReadsReal(r) /\ ReadsAll(r))'
  BY <1>1, <1>2, <1>3, <1>4 DEF Recording, Refunding, ReadsReal, ReadsAll, Standing
<1>6. crashes' \in Nat
  BY <1>3 DEF IInv, TypeOK
<1> QED BY <1>2, <1>3, <1>5, <1>6, RequestOnly

\* What a commit on invoice i leaves of the other requests: they are marked as
\* overtaken when they work on the same invoice.
LEMMA FinishMoves ==
  ASSUME TypeOK, NEW r \in Requests, Finish(r)
  PROVE  /\ req'[r] = IdleReq
         /\ \A s \in Requests \ {r} :
              /\ req'[s].pc = req[s].pc /\ req'[s].invoice = req[s].invoice
              /\ req'[s].payment = req[s].payment /\ req'[s].counted = req[s].counted
              /\ req'[s].fresh = IF req[s].invoice = req[r].invoice THEN FALSE ELSE req[s].fresh
BY DEF TypeOK, Finish, FeeRequest

LEMMA PayCommitInv ==
  ASSUME IInv, NEW r \in Requests, PayCommit(r)
  PROVE  IInv'
<1> DEFINE p == req[r].payment
           i == req[r].invoice
<1>1. /\ req[r].pc = "paying" /\ p \in Payments /\ i \in Invoices
      /\ payment[p].state = "uncommitted" /\ payment[p].invoice = i /\ ~payment[p].refunded
      /\ ReadsReal(r) /\ ReadsAll(r)
  BY DEF PayCommit, IInv, InFlight, Recording
<1>2. /\ WriteTotals(r) /\ Finish(r) /\ UNCHANGED <<refunds, crashes>>
      /\ payment' = [payment EXCEPT ![p].state = "live"]
  BY DEF PayCommit
<1>3. /\ invoice' \in [Invoices -> InvoiceRow]
      /\ \A j \in Invoices : /\ invoice'[j].live = invoice[j].live
                             /\ invoice'[j].counted = IF j = i THEN req[r].counted
                                                               ELSE invoice[j].counted
  BY <1>1, <1>2, WriteTyped DEF IInv
<1>4. payment' \in [Payments -> PaymentRow] /\ req' \in [Requests -> FeeRequest]
  BY <1>1, <1>2, FinishTyped DEF IInv, TypeOK, PaymentRow
<1>5. \A s \in Payments : /\ payment'[s].state = IF s = p THEN "live" ELSE payment[s].state
                          /\ payment'[s].invoice = payment[s].invoice
                          /\ payment'[s].refunded = payment[s].refunded
  BY <1>1, <1>2 DEF IInv, TypeOK, PaymentRow
<1>6. /\ req'[r] = IdleReq
      /\ \A s \in Requests \ {r} :
              /\ req'[s].pc = req[s].pc /\ req'[s].invoice = req[s].invoice
              /\ req'[s].payment = req[s].payment /\ req'[s].counted = req[s].counted
              /\ req'[s].fresh = IF req[s].invoice = i THEN FALSE ELSE req[s].fresh
  BY <1>2, FinishMoves DEF IInv
<1> HIDE DEF p, i
<1>7. TypeOK'
  BY <1>2, <1>3, <1>4 DEF IInv, TypeOK
<1>8. ASSUME NEW j PROVE Standing(j)' = IF j = i THEN Standing(j) \cup {p} ELSE Standing(j)
  <2>1. ASSUME NEW s \in Payments
        PROVE  payment'[s].state = "live" /\ payment'[s].invoice = j /\ ~payment'[s].refunded
                 <=> \/ payment[s].state = "live" /\ payment[s].invoice = j /\ ~payment[s].refunded
                     \/ s = p /\ j = i
    BY <1>5, <1>1
  <2> QED BY <2>1, <1>1 DEF Standing
<1>9. InFlight'
  <2> SUFFICES ASSUME NEW s \in Requests
               PROVE  (Recording(s) /\ Refunding(s) /\ ReadsReal(s) /\ ReadsAll(s))'
    BY DEF InFlight
  <2>1. CASE s = r
    BY <2>1, <1>6 DEF IdleReq, Recording, Refunding, ReadsReal, ReadsAll
  <2>2. CASE s # r
    <3>1. Recording(s) /\ Refunding(s) /\ ReadsReal(s) /\ ReadsAll(s)
      BY DEF IInv, InFlight
    <3>2. req[s].pc = "paying" => req[s].payment # p
      BY <2>2, <1>1 DEF IInv, OwnPayment, p
    <3>3. Recording(s)' /\ Refunding(s)'
      BY <2>2, <3>1, <3>2, <1>5, <1>6 DEF Recording, Refunding
    <3>4. ReadsReal(s)'
      <4>1. req[s].counted \subseteq Payments
        BY DEF IInv, TypeOK, FeeRequest
      <4> QED BY <2>2, <3>1, <3>2, <4>1, <1>5, <1>6 DEF ReadsReal
    <3>5. ReadsAll(s)'
      BY <2>2, <3>1, <1>6, <1>8 DEF ReadsAll
    <3> QED BY <3>3, <3>4, <3>5
  <2> QED BY <2>1, <2>2
<1>10. OwnPayment'
  <2>1. IdleReq.pc # "paying"
    BY DEF IdleReq
  <2> SUFFICES ASSUME NEW s \in Requests, NEW q \in Requests,
                      req'[s].pc = "paying", req'[q].pc = "paying",
                      req'[s].payment = req'[q].payment
               PROVE  s = q
    BY DEF OwnPayment
  <2>2. s # r /\ q # r
    BY <2>1, <1>6
  <2>3. req[s].pc = "paying" /\ req[q].pc = "paying" /\ req[s].payment = req[q].payment
    BY <2>2, <1>6
  <2> QED BY <2>3 DEF IInv, OwnPayment
<1>11. OnInvoice'
  BY <1>1, <1>3, <1>5 DEF IInv, OnInvoice
<1>12. OnlyRealMoney'
  <2> SUFFICES ASSUME NEW j \in Invoices, invoice'[j].live, NEW x \in invoice'[j].counted
               PROVE  payment'[x].state = "live" /\ payment'[x].invoice = j
    BY DEF OnlyRealMoney, Live
  <2>1. CASE j = i
    <3>1. x \in req[r].counted /\ x \in Payments
      BY <2>1, <1>3 DEF IInv, TypeOK, FeeRequest
    <3> QED BY <3>1, <2>1, <1>1, <1>5 DEF ReadsReal, p, i
  <2>2. CASE j # i
    <3>1. x \in invoice[j].counted /\ invoice[j].live /\ x \in Payments
      BY <2>2, <1>3 DEF IInv, TypeOK, InvoiceRow
    <3> QED BY <3>1, <1>5 DEF IInv, OnlyRealMoney, Live
  <2> QED BY <2>1, <2>2
<1> QED BY <1>7, <1>9, <1>10, <1>11, <1>12 DEF IInv

LEMMA RefundCommitInv ==
  ASSUME IInv, NEW r \in Requests, RefundCommit(r)
  PROVE  IInv'
<1> DEFINE p == req[r].payment
           i == req[r].invoice
<1>1. /\ req[r].pc = "refunding" /\ p \in Payments /\ i \in Invoices
      /\ payment[p].state = "live" /\ payment[p].invoice = i
      /\ ReadsReal(r) /\ ReadsAll(r)
  BY DEF RefundCommit, IInv, InFlight, Refunding
<1>2. /\ WriteTotals(r) /\ Finish(r) /\ UNCHANGED crashes
      /\ refunds' = [refunds EXCEPT ![p] = @ + 1]
      /\ payment' = [payment EXCEPT ![p].refunded = TRUE]
  BY DEF RefundCommit
<1>3. /\ invoice' \in [Invoices -> InvoiceRow]
      /\ \A j \in Invoices : /\ invoice'[j].live = invoice[j].live
                             /\ invoice'[j].counted = IF j = i THEN req[r].counted
                                                               ELSE invoice[j].counted
  BY <1>1, <1>2, WriteTyped DEF IInv
<1>4. payment' \in [Payments -> PaymentRow] /\ req' \in [Requests -> FeeRequest]
  BY <1>1, <1>2, FinishTyped DEF IInv, TypeOK, PaymentRow
<1>5. \A s \in Payments : /\ payment'[s].state = payment[s].state
                          /\ payment'[s].invoice = payment[s].invoice
                          /\ payment'[s].refunded = IF s = p THEN TRUE ELSE payment[s].refunded
  BY <1>1, <1>2 DEF IInv, TypeOK, PaymentRow
<1>6. /\ req'[r] = IdleReq
      /\ \A s \in Requests \ {r} :
              /\ req'[s].pc = req[s].pc /\ req'[s].invoice = req[s].invoice
              /\ req'[s].payment = req[s].payment /\ req'[s].counted = req[s].counted
              /\ req'[s].fresh = IF req[s].invoice = i THEN FALSE ELSE req[s].fresh
  BY <1>2, FinishMoves DEF IInv
<1> HIDE DEF p, i
<1>7. TypeOK'
  BY <1>1, <1>2, <1>3, <1>4 DEF IInv, TypeOK
<1>8. ASSUME NEW j PROVE Standing(j)' = IF j = i THEN Standing(j) \ {p} ELSE Standing(j)
  <2>1. ASSUME NEW s \in Payments
        PROVE  payment'[s].state = "live" /\ payment'[s].invoice = j /\ ~payment'[s].refunded
                 <=> /\ payment[s].state = "live" /\ payment[s].invoice = j /\ ~payment[s].refunded
                     /\ s # p
    BY <1>5, <1>1
  <2> QED BY <2>1, <1>1 DEF Standing
<1>9. InFlight'
  <2> SUFFICES ASSUME NEW s \in Requests
               PROVE  (Recording(s) /\ Refunding(s) /\ ReadsReal(s) /\ ReadsAll(s))'
    BY DEF InFlight
  <2>1. CASE s = r
    BY <2>1, <1>6 DEF IdleReq, Recording, Refunding, ReadsReal, ReadsAll
  <2>2. CASE s # r
    <3>1. Recording(s) /\ Refunding(s) /\ ReadsReal(s) /\ ReadsAll(s)
      BY DEF IInv, InFlight
    <3>2. req[s].pc = "paying" => req[s].payment # p
      BY <3>1, <1>1 DEF Recording
    <3>3. Recording(s)' /\ Refunding(s)'
      BY <2>2, <3>1, <3>2, <1>5, <1>6 DEF Recording, Refunding
    <3>4. ReadsReal(s)'
      <4>1. req[s].counted \subseteq Payments
        BY DEF IInv, TypeOK, FeeRequest
      <4> QED BY <2>2, <3>1, <3>2, <4>1, <1>5, <1>6 DEF ReadsReal
    <3>5. ReadsAll(s)'
      BY <2>2, <3>1, <1>6, <1>8 DEF ReadsAll
    <3> QED BY <3>3, <3>4, <3>5
  <2> QED BY <2>1, <2>2
<1>10. OwnPayment'
  <2>1. IdleReq.pc # "paying"
    BY DEF IdleReq
  <2> SUFFICES ASSUME NEW s \in Requests, NEW q \in Requests,
                      req'[s].pc = "paying", req'[q].pc = "paying",
                      req'[s].payment = req'[q].payment
               PROVE  s = q
    BY DEF OwnPayment
  <2>2. s # r /\ q # r
    BY <2>1, <1>6
  <2>3. req[s].pc = "paying" /\ req[q].pc = "paying" /\ req[s].payment = req[q].payment
    BY <2>2, <1>6
  <2> QED BY <2>3 DEF IInv, OwnPayment
<1>11. OnInvoice'
  BY <1>1, <1>3, <1>5 DEF IInv, OnInvoice
<1>12. OnlyRealMoney'
  <2> SUFFICES ASSUME NEW j \in Invoices, invoice'[j].live, NEW x \in invoice'[j].counted
               PROVE  payment'[x].state = "live" /\ payment'[x].invoice = j
    BY DEF OnlyRealMoney, Live
  <2>1. CASE j = i
    <3>1. x \in req[r].counted /\ x \in Payments
      BY <2>1, <1>3 DEF IInv, TypeOK, FeeRequest
    <3> QED BY <3>1, <2>1, <1>1, <1>5 DEF ReadsReal, p, i
  <2>2. CASE j # i
    <3>1. x \in invoice[j].counted /\ invoice[j].live /\ x \in Payments
      BY <2>2, <1>3 DEF IInv, TypeOK, InvoiceRow
    <3> QED BY <3>1, <1>5 DEF IInv, OnlyRealMoney, Live
  <2> QED BY <2>1, <2>2
<1> QED BY <1>7, <1>9, <1>10, <1>11, <1>12 DEF IInv

LEMMA AbortInv ==
  ASSUME IInv, NEW r \in Requests, Abort(r)
  PROVE  IInv'
<1> DEFINE p == req[r].payment
<1>1. /\ req' = [req EXCEPT ![r] = IdleReq] /\ crashes' = crashes + 1
      /\ UNCHANGED <<invoice, refunds>>
      /\ payment' = IF req[r].pc = "paying" THEN [payment EXCEPT ![p] = NoPayment] ELSE payment
  BY DEF Abort
<1>2. IdleReq.pc = "idle" /\ NoPayment.state = "free"
  BY DEF IdleReq, NoPayment
<1>3. Recording(r)
  BY DEF IInv, InFlight
<1>4. CASE req[r].pc # "paying"
  <2>1. crashes' \in Nat /\ UNCHANGED payment
    BY <1>1, <1>4 DEF IInv, TypeOK
  <2>2. req'[r] = IdleReq
    BY <1>1 DEF IInv, TypeOK
  <2>3. (Recording(r) /\ Refunding(r) /\ ReadsReal(r) /\ ReadsAll(r))'
    BY <2>2, <1>2 DEF Recording, Refunding, ReadsReal, ReadsAll
  <2> QED BY <2>1, <2>3, <1>1, <1>2, RowsTyped, RequestOnly
<1>5. CASE req[r].pc = "paying"
  <2>1. p \in Payments /\ payment[p].state = "uncommitted"
    BY <1>3, <1>5 DEF Recording
  <2>2. /\ \A s \in Payments : payment'[s] = IF s = p THEN NoPayment ELSE payment[s]
        /\ \A s \in Requests : req'[s] = IF s = r THEN IdleReq ELSE req[s]
    BY <1>1, <1>5, <2>1 DEF IInv, TypeOK
  <2>3. TypeOK'
    BY <1>1, <1>5, <2>1, RowsTyped DEF IInv, TypeOK
  <2>4. ASSUME NEW s \in Requests, s # r, req[s].pc \in {"paying", "refund", "refunding"}
        PROVE  req[s].payment # p
    BY <2>4, <2>1, <1>5 DEF IInv, InFlight, Refunding, OwnPayment
  <2> HIDE DEF p
  <2>5. ASSUME NEW j PROVE Standing(j)' = Standing(j)
    <3>1. ASSUME NEW s \in Payments
          PROVE  payment'[s].state = "live" /\ payment'[s].invoice = j /\ ~payment'[s].refunded
                   <=> payment[s].state = "live" /\ payment[s].invoice = j /\ ~payment[s].refunded
      BY <2>2, <2>1, <1>2
    <3> QED BY <3>1 DEF Standing
  <2>6. InFlight'
    <3> SUFFICES ASSUME NEW s \in Requests
                 PROVE  (Recording(s) /\ Refunding(s) /\ ReadsReal(s) /\ ReadsAll(s))'
      BY DEF InFlight
    <3>1. CASE s = r
      BY <3>1, <2>2, <1>2 DEF Recording, Refunding, ReadsReal, ReadsAll
    <3>2. CASE s # r
      <4>1. req'[s] = req[s] /\ req[s].counted \subseteq Payments
        BY <3>2, <2>2 DEF IInv, TypeOK, FeeRequest
      <4>2. Recording(s)' /\ Refunding(s)' /\ ReadsAll(s)'
        BY <4>1, <3>2, <2>2, <2>4, <2>5 DEF IInv, InFlight, Recording, Refunding, ReadsAll
      <4>3. ReadsReal(s)'
        BY <4>1, <2>1, <2>2, <3>2, <2>4 DEF IInv, InFlight, ReadsReal
      <4> QED BY <4>2, <4>3
    <3> QED BY <3>1, <3>2
  <2>7. OwnPayment'
    BY <2>2, <1>2 DEF IInv, OwnPayment
  <2>8. OnInvoice'
    BY <2>2, <1>1, <1>2 DEF IInv, OnInvoice
  <2>9. OnlyRealMoney'
    <3>1. \A j \in Invoices : invoice[j].counted \subseteq Payments
      BY DEF IInv, TypeOK, InvoiceRow
    <3> QED BY <3>1, <2>1, <2>2, <1>1 DEF IInv, OnlyRealMoney, Live
  <2> QED BY <2>3, <2>6, <2>7, <2>8, <2>9 DEF IInv
<1> QED BY <1>4, <1>5

LEMMA InvInit == Init => IInv
<1> SUFFICES ASSUME Init PROVE IInv
  OBVIOUS
<1>1. InFlight /\ OwnPayment
  BY DEF Init, IdleReq, InFlight, OwnPayment, Recording, Refunding, ReadsReal, ReadsAll
<1>2. OnInvoice /\ OnlyRealMoney
  BY DEF Init, NoPayment, NoInvoice, OnInvoice, OnlyRealMoney, Live
<1> QED BY <1>1, <1>2, TypeInit DEF IInv

LEMMA InvNext == ASSUME IInv, [FeeStep]_feeVars PROVE IInv'
<1>1. CASE \E S \in SUBSET Students : S # {} /\ Generate(S)
  BY <1>1, GenerateInv
<1>2. CASE \E i \in Invoices : FallDue(i)
  BY <1>2, FallDueInv
<1>3. ASSUME NEW r \in Requests,
             \/ \E i \in Invoices : PayInsert(r, i)
             \/ \E p \in Payments : RefundCheck(r, p)
             \/ PayCommit(r) \/ RefundUpdate(r) \/ RefundCommit(r) \/ Abort(r)
      PROVE  IInv'
  BY <1>3, PayInsertInv, RefundCheckInv, PayCommitInv, RefundUpdateInv, RefundCommitInv, AbortInv
<1>4. CASE UNCHANGED feeVars
  <2>1. /\ invoice' \in [Invoices -> InvoiceRow] /\ UNCHANGED <<payment, req, refunds, crashes>>
        /\ UNCHANGED invoice
    BY <1>4 DEF feeVars, IInv, TypeOK
  <2> QED BY <2>1, InvoicesOnly
<1> QED BY <1>1, <1>2, <1>3, <1>4 DEF FeeStep

-----------------------------------------------------------------------------
(* What a commit leaves: on its invoice the truth, elsewhere nothing new   *)

LEMMA PayCommitCounts ==
  ASSUME IInv, NEW r \in Requests, NEW i \in Invoices, req[r].invoice = i, PayCommit(r)
  PROVE  /\ req[r].fresh => Accurate(i)'
         /\ \A j \in Invoices : Accurate(j) /\ j # i => Accurate(j)'
<1> DEFINE p == req[r].payment
<1>1. /\ p \in Payments /\ i \in Invoices /\ payment[p].invoice = i /\ ~payment[p].refunded
      /\ req[r].fresh => req[r].counted = Standing(i) \cup {p}
  BY DEF PayCommit, IInv, InFlight, Recording, ReadsAll
<1>2. /\ \A j \in Invoices : invoice'[j].counted = IF j = i THEN req[r].counted
                                                        ELSE invoice[j].counted
      /\ \A s \in Payments : /\ payment'[s].state = IF s = p THEN "live" ELSE payment[s].state
                            /\ payment'[s].invoice = payment[s].invoice
                            /\ payment'[s].refunded = payment[s].refunded
  BY <1>1, WriteTyped DEF PayCommit, IInv, TypeOK, PaymentRow
<1> HIDE DEF p
<1>3. ASSUME NEW j PROVE Standing(j)' = IF j = i THEN Standing(j) \cup {p} ELSE Standing(j)
  <2>1. ASSUME NEW s \in Payments
        PROVE  payment'[s].state = "live" /\ payment'[s].invoice = j /\ ~payment'[s].refunded
                 <=> \/ payment[s].state = "live" /\ payment[s].invoice = j /\ ~payment[s].refunded
                     \/ s = p /\ j = i
    BY <1>1, <1>2
  <2> QED BY <2>1, <1>1 DEF Standing
<1>4. req[r].fresh => invoice'[i].counted = Standing(i)'
  BY <1>1, <1>2, <1>3
<1>5. ASSUME NEW j \in Invoices, Accurate(j), j # i PROVE invoice'[j].counted = Standing(j)'
  BY <1>2, <1>3, <1>5 DEF Accurate
<1> QED BY <1>4, <1>5 DEF Accurate

LEMMA RefundCommitCounts ==
  ASSUME IInv, NEW r \in Requests, NEW i \in Invoices, req[r].invoice = i, RefundCommit(r)
  PROVE  /\ req[r].fresh => Accurate(i)'
         /\ \A j \in Invoices : Accurate(j) /\ j # i => Accurate(j)'
<1> DEFINE p == req[r].payment
<1>1. /\ p \in Payments /\ i \in Invoices /\ payment[p].invoice = i
      /\ req[r].fresh => req[r].counted = Standing(i) \ {p}
  BY DEF RefundCommit, IInv, InFlight, Refunding, ReadsAll
<1>2. /\ \A j \in Invoices : invoice'[j].counted = IF j = i THEN req[r].counted
                                                        ELSE invoice[j].counted
      /\ \A s \in Payments : /\ payment'[s].state = payment[s].state
                            /\ payment'[s].invoice = payment[s].invoice
                            /\ payment'[s].refunded = IF s = p THEN TRUE ELSE payment[s].refunded
  BY <1>1, WriteTyped DEF RefundCommit, IInv, TypeOK, PaymentRow
<1> HIDE DEF p
<1>3. ASSUME NEW j PROVE Standing(j)' = IF j = i THEN Standing(j) \ {p} ELSE Standing(j)
  <2>1. ASSUME NEW s \in Payments
        PROVE  payment'[s].state = "live" /\ payment'[s].invoice = j /\ ~payment'[s].refunded
                 <=> /\ payment[s].state = "live" /\ payment[s].invoice = j /\ ~payment[s].refunded
                     /\ s # p
    BY <1>1, <1>2
  <2> QED BY <2>1, <1>1 DEF Standing
<1>4. req[r].fresh => invoice'[i].counted = Standing(i)'
  BY <1>1, <1>2, <1>3
<1>5. ASSUME NEW j \in Invoices, Accurate(j), j # i PROVE invoice'[j].counted = Standing(j)'
  BY <1>2, <1>3, <1>5 DEF Accurate
<1> QED BY <1>4, <1>5 DEF Accurate

\* A request that was in a transaction and is idle, without a roll-back, has
\* committed.
LEMMA Committed ==
  ASSUME IInv, FeeStep, NEW r \in Requests, req[r].pc \in {"paying", "refunding"},
         req'[r].pc = "idle", crashes' = crashes
  PROVE  PayCommit(r) \/ RefundCommit(r)
<1>1. CASE \/ \E S \in SUBSET Students : S # {} /\ Generate(S)
           \/ \E i \in Invoices : FallDue(i)
  BY <1>1 DEF Generate, FallDue
<1>2. ASSUME NEW s \in Requests, NEW i \in Invoices, PayInsert(s, i) PROVE FALSE
  BY <1>2 DEF PayInsert, IInv, TypeOK
<1>3. ASSUME NEW s \in Requests, NEW p \in Payments, RefundCheck(s, p) PROVE FALSE
  BY <1>3 DEF RefundCheck, IInv, TypeOK
<1>4. ASSUME NEW s \in Requests, RefundUpdate(s) PROVE FALSE
  <2>1. req'[r].pc = IF r = s THEN "refunding" ELSE req[r].pc
    BY <1>4 DEF RefundUpdate, IInv, TypeOK, FeeRequest
  <2> QED BY <2>1
<1>5. ASSUME NEW s \in Requests, Abort(s) PROVE FALSE
  BY <1>5 DEF Abort, IInv, TypeOK
<1>6. ASSUME NEW s \in Requests, PayCommit(s) \/ RefundCommit(s)
      PROVE  PayCommit(r) \/ RefundCommit(r)
  <2>1. CASE s = r
    BY <1>6, <2>1
  <2>2. CASE s # r
    <3>1. Finish(s) /\ TypeOK
      BY <1>6 DEF IInv, PayCommit, RefundCommit
    <3>2. req'[r].pc = req[r].pc
      BY <3>1, <2>2, FinishMoves
    <3> QED BY <3>2
  <2> QED BY <2>1, <2>2
<1> QED BY <1>1, <1>2, <1>3, <1>4, <1>5, <1>6 DEF FeeStep

-----------------------------------------------------------------------------
(* One request at a time                                                   *)

\* A step that changes no payment that counts and no invoice's count.
LEMMA SameCounts ==
  ASSUME AllAccurate, \A j : Standing(j)' = Standing(j),
         \A j \in Invoices : /\ invoice'[j].live = invoice[j].live
                            /\ invoice'[j].counted = invoice[j].counted
  PROVE  AllAccurate'
BY DEF AllAccurate, Accurate, Live

LEMMA AloneNext == ASSUME IInv, ~Overlap, Alone, [FeeStep]_feeVars PROVE Alone'
<1> IdleReq.pc = "idle" /\ IdleReq.fresh
  BY DEF IdleReq
<1>1. CASE UNCHANGED req
  BY <1>1 DEF Alone
<1>2. ASSUME NEW r \in Requests, NEW i \in Invoices, PayInsert(r, i) PROVE Alone'
  <2>1. PICK p \in Payments :
          req' = [req EXCEPT ![r] = [IdleReq EXCEPT !.pc = "paying", !.invoice = i,
                     !.payment = p, !.counted = Standing(i) \cup {p}]]
    BY <1>2 DEF PayInsert
  <2>2. \A s \in Requests : s # r => req'[s].pc = "idle"
    BY <1>2, <2>1 DEF PayInsert, MayStart, Quiet, IInv, TypeOK
  <2>3. req'[r].fresh
    BY <2>1 DEF IdleReq, IInv, TypeOK
  <2> QED BY <2>2, <2>3 DEF Alone
<1>3. ASSUME NEW r \in Requests, NEW p \in Payments, RefundCheck(r, p) PROVE Alone'
  <2>1. req' = [req EXCEPT ![r] = [IdleReq EXCEPT !.pc = "refund",
               !.invoice = payment[p].invoice, !.payment = p]]
    BY <1>3 DEF RefundCheck
  <2>2. \A s \in Requests : s # r => req'[s].pc = "idle"
    BY <1>3, <2>1 DEF RefundCheck, MayStart, Quiet, IInv, TypeOK
  <2>3. req'[r].fresh
    BY <2>1 DEF IdleReq, IInv, TypeOK
  <2> QED BY <2>2, <2>3 DEF Alone
<1>4. ASSUME NEW r \in Requests, RefundUpdate(r) PROVE Alone'
  <2>1. \A s \in Requests : IF s = r THEN req'[s].pc = "refunding" /\ req'[s].fresh
                                       ELSE req'[s] = req[s]
    BY <1>4 DEF RefundUpdate, IInv, TypeOK, FeeRequest
  <2>2. req[r].pc # "idle"
    BY <1>4 DEF RefundUpdate
  <2> QED BY <2>1, <2>2 DEF Alone
<1>5. ASSUME NEW r \in Requests, PayCommit(r) \/ RefundCommit(r) \/ Abort(r) PROVE Alone'
  <2>1. \A s \in Requests : s # r => req[s].pc = "idle"
    BY <1>5 DEF Alone, PayCommit, RefundCommit, Abort
  <2>2. CASE Abort(r)
    BY <2>1, <2>2 DEF Abort, Alone, IInv, TypeOK
  <2>3. CASE PayCommit(r) \/ RefundCommit(r)
    <3>1. Finish(r) /\ TypeOK
      BY <2>3 DEF PayCommit, RefundCommit, IInv
    <3>2. ASSUME NEW s \in Requests PROVE req'[s].pc = "idle"
      <4>1. CASE s = r
        BY <4>1, <3>1, FinishMoves
      <4>2. CASE s # r
        <5>1. req[s].pc = "idle"
          BY <4>2, <2>1
        <5>2. req'[s].pc = req[s].pc
          BY <4>2, <3>1, FinishMoves
        <5> QED BY <5>1, <5>2
      <4> QED BY <4>1, <4>2
    <3> QED BY <3>2 DEF Alone
  <2> QED BY <1>5, <2>2, <2>3
<1>6. CASE \/ \E S \in SUBSET Students : S # {} /\ Generate(S)
           \/ \E i \in Invoices : FallDue(i)
           \/ UNCHANGED feeVars
  BY <1>1, <1>6 DEF Generate, FallDue, feeVars
<1> QED BY <1>2, <1>3, <1>4, <1>5, <1>6 DEF FeeStep

LEMMA AccurateNext == ASSUME IInv, Alone, AllAccurate, [FeeStep]_feeVars PROVE AllAccurate'
<1>1. ASSUME NEW S \in SUBSET Students, Generate(S) PROVE AllAccurate'
  <2>1. \A j : Standing(j)' = Standing(j)
    BY <1>1 DEF Generate, Standing
  <2>2. \A j \in Invoices : ~invoice[j].live => Standing(j) = {}
    BY DEF IInv, OnInvoice, Standing
  <2> QED BY <1>1, <2>1, <2>2, GenerateTyped DEF IInv, AllAccurate, Accurate, Live
<1>2. ASSUME NEW i \in Invoices, FallDue(i) PROVE AllAccurate'
  <2>1. \A j : Standing(j)' = Standing(j)
    BY <1>2 DEF FallDue, Standing
  <2>2. \A j \in Invoices : /\ invoice'[j].live = invoice[j].live
                           /\ invoice'[j].counted = invoice[j].counted
    BY <1>2 DEF FallDue, IInv, TypeOK, InvoiceRow
  <2> QED BY <2>1, <2>2, SameCounts
<1>3. ASSUME NEW r \in Requests, NEW i \in Invoices, PayInsert(r, i) PROVE AllAccurate'
  <2>1. PICK p \in Payments, amount \in Amounts :
          /\ payment[p].state = "free"
          /\ payment' = [payment EXCEPT ![p] =
               [NoPayment EXCEPT !.state = "uncommitted", !.invoice = i, !.amount = amount]]
    BY <1>3 DEF PayInsert
  <2>2. \A s \in Payments : IF s = p THEN payment'[s].state = "uncommitted"
                                     ELSE payment'[s] = payment[s]
    BY <2>1 DEF NoPayment, IInv, TypeOK
  <2>3. ASSUME NEW j PROVE Standing(j)' = Standing(j)
    <3>1. ASSUME NEW s \in Payments
          PROVE  payment'[s].state = "live" /\ payment'[s].invoice = j /\ ~payment'[s].refunded
                   <=> payment[s].state = "live" /\ payment[s].invoice = j /\ ~payment[s].refunded
      BY <2>1, <2>2
    <3> QED BY <3>1 DEF Standing
  <2>4. UNCHANGED invoice
    BY <1>3 DEF PayInsert
  <2> QED BY <2>3, <2>4, SameCounts
<1>4. ASSUME NEW r \in Requests, RefundUpdate(r) \/ \E p \in Payments : RefundCheck(r, p)
      PROVE  AllAccurate'
  <2>1. UNCHANGED <<invoice, payment>>
    BY <1>4 DEF RefundUpdate, RefundCheck
  <2> QED BY <2>1, SameCounts DEF Standing
<1>5. ASSUME NEW r \in Requests, PayCommit(r) \/ RefundCommit(r) PROVE AllAccurate'
  <2>1. /\ req[r].fresh /\ req[r].invoice \in Invoices
        /\ WriteTotals(r)
    BY <1>5 DEF PayCommit, RefundCommit, Alone, IInv, InFlight, Recording, Refunding
  <2>2. \A j \in Invoices : invoice'[j].live = invoice[j].live
    BY <2>1, WriteTyped DEF IInv
  <2>3. PICK i \in Invoices : i = req[r].invoice
    BY <2>1
  <2>5. /\ Accurate(i)'
        /\ \A j \in Invoices : Accurate(j) /\ j # i => Accurate(j)'
    BY <1>5, <2>1, <2>3, PayCommitCounts, RefundCommitCounts
  <2>4. ASSUME NEW j \in Invoices, invoice[j].live PROVE invoice'[j].counted = Standing(j)'
    BY <2>5, <2>4 DEF AllAccurate, Accurate, Live
  <2> QED BY <2>2, <2>4 DEF AllAccurate, Accurate, Live
<1>6. ASSUME NEW r \in Requests, Abort(r) PROVE AllAccurate'
  <2>1. UNCHANGED invoice
    BY <1>6 DEF Abort
  <2>2. ASSUME NEW s \in Payments, NEW j
        PROVE  payment'[s].state = "live" /\ payment'[s].invoice = j /\ ~payment'[s].refunded
                 <=> payment[s].state = "live" /\ payment[s].invoice = j /\ ~payment[s].refunded
    BY <1>6 DEF Abort, IInv, InFlight, Recording, NoPayment, TypeOK
  <2>3. ASSUME NEW j PROVE Standing(j)' = Standing(j)
    BY <2>2 DEF Standing
  <2> QED BY <2>1, <2>3, SameCounts
<1>7. CASE UNCHANGED feeVars
  BY <1>7, SameCounts DEF feeVars, Standing
<1> QED BY <1>1, <1>2, <1>3, <1>4, <1>5, <1>6, <1>7 DEF FeeStep

-----------------------------------------------------------------------------
(* What payments add up to                                                  *)

\* The amounts of the payments of a set, added up from rows `pay`.
Added(pay, S) == SumFunctionOnSet([p \in Payments |-> pay[p].amount], S)

LEMMA AddedIs ==
  ASSUME NEW pay, NEW S \in SUBSET Payments
  PROVE  (CHOOSE iter : iter = [s \in SUBSET S |-> IF s = {} THEN 0
             ELSE pay[Pick(s)].amount + iter[s \ {Pick(s)}]])[S] = Added(pay, S)
<1> DEFINE f == [p \in Payments |-> pay[p].amount]
           Iter(g) == g = [s \in SUBSET S |-> IF s = {} THEN 0
                             ELSE pay[Pick(s)].amount + g[s \ {Pick(s)}]]
<1>1. IsFiniteSet(S)
  BY FeesAssumption, FS_Subset
<1>2. ASSUME NEW s \in SUBSET S, s # {} PROVE pay[Pick(s)].amount = f[Pick(s)]
  BY <1>2, PickIn
<1>3. ASSUME NEW g PROVE Iter(g) <=> Sums(f, S, g)
  <2> HIDE DEF f
  <2> QED BY <1>2 DEF Sums
<1>4. PICK g : Sums(f, S, g)
  <2> HIDE DEF f
  <2> QED BY <1>1, SumsExist
<1>5. Sums(f, S, CHOOSE h : Iter(h))
  <2> HIDE DEF f, Iter
  <2> QED BY <1>3, <1>4
<1>6. SumFunctionOnSet(f, S) = (CHOOSE h : Iter(h))[S]
  <2> HIDE DEF f, Iter
  <2> QED BY <1>1, <1>5, SumIs
<1> QED BY <1>6 DEF Added

LEMMA SumOfNow == ASSUME NEW S \in SUBSET Payments PROVE SumOf(S) = Added(payment, S)
BY AddedIs DEF SumOf, MapThenSumSet, MapThenFoldSet, Pick

LEMMA SumOfNext == ASSUME NEW S \in SUBSET Payments PROVE SumOf(S)' = Added(payment', S)
BY AddedIs DEF SumOf, MapThenSumSet, MapThenFoldSet, Pick

LEMMA AddedTyped ==
  ASSUME NEW pay \in [Payments -> PaymentRow], NEW S \in SUBSET Payments
  PROVE  Added(pay, S) \in Nat
<1> DEFINE f == [p \in Payments |-> pay[p].amount]
<1>1. IsFiniteSet(S) /\ \A p \in S : f[p] \in Nat
  BY FeesAssumption, FS_Subset DEF PaymentRow
<1> HIDE DEF f
<1>2. SumFunctionOnSet(f, S) \in Nat
  BY <1>1, SumMonotone
<1> QED BY <1>2 DEF Added, f

LEMMA AddedSame ==
  ASSUME NEW pay, NEW then, NEW S \in SUBSET Payments,
         \A p \in S : then[p].amount = pay[p].amount
  PROVE  Added(then, S) = Added(pay, S)
<1> DEFINE f == [p \in Payments |-> pay[p].amount]
           g == [p \in Payments |-> then[p].amount]
<1>1. IsFiniteSet(S) /\ \A p \in S : g[p] = f[p]
  BY FeesAssumption, FS_Subset
<1> HIDE DEF f, g
<1>2. SumFunctionOnSet(g, S) = SumFunctionOnSet(f, S)
  BY <1>1, SumSame
<1> QED BY <1>2 DEF Added, f, g

-----------------------------------------------------------------------------
(* The status is that of the payments counted                               *)

\* An invoice is "paid" exactly when what it counts covers a total that is not 0.
Tells(i) ==
  invoice[i].status = "paid"
    <=> invoice[i].total > 0 /\ SumOf(invoice[i].counted) >= invoice[i].total

StatusTells == \A i \in Live : Tells(i)

LEMMA PaidStatus ==
  ASSUME NEW total \in Nat, NEW paid \in Nat, NEW overdue
  PROVE  InvoiceStatus(total, paid, overdue) = "paid" <=> total > 0 /\ paid >= total
BY DEF InvoiceStatus

LEMMA TellsKept ==
  ASSUME TypeOK, NEW i \in Invoices, Tells(i),
         invoice'[i].total = invoice[i].total, invoice'[i].counted = invoice[i].counted,
         invoice'[i].status = invoice[i].status,
         \A p \in invoice[i].counted : payment'[p].amount = payment[p].amount
  PROVE  Tells(i)'
<1>1. PICK S \in SUBSET Payments : S = invoice[i].counted
  BY DEF TypeOK, InvoiceRow
<1>2. SumOf(S)' = SumOf(S)
  BY <1>1, SumOfNow, SumOfNext, AddedSame
<1>3. SumOf(invoice[i].counted) = SumOf(S)
  BY <1>1
<1>4. SumOf(invoice[i].counted)' = SumOf(S)'
  BY <1>1
<1> QED BY <1>2, <1>3, <1>4 DEF Tells

LEMMA WriteTells ==
  ASSUME TypeOK, NEW r \in Requests, NEW i \in Invoices, req[r].invoice = i, WriteTotals(r),
         \A p \in req[r].counted : payment'[p].amount = payment[p].amount
  PROVE  /\ Tells(i)'
         /\ \A j \in Invoices : j # i => invoice'[j] = invoice[j]
<1>1. PICK S \in SUBSET Payments : S = req[r].counted
  BY DEF TypeOK, FeeRequest
<1>2. PICK paid \in Nat : paid = SumOf(S)
  BY SumOfNow, AddedTyped DEF TypeOK
<1>3. PICK total \in Nat : total = invoice[i].total
  BY DEF TypeOK, InvoiceRow
<1>4. PICK st : st = InvoiceStatus(total, paid, invoice[i].overdue)
  OBVIOUS
<1>5. st = "paid" <=> total > 0 /\ paid >= total
  BY <1>4, PaidStatus
<1>6. SumOf(req[r].counted) = paid
  BY <1>1, <1>2
<1>7. invoice' = [invoice EXCEPT ![i].counted = S, ![i].status = st]
  BY <1>1, <1>3, <1>4, <1>6 DEF WriteTotals
<1>8. invoice'[i].counted = S /\ invoice'[i].status = st /\ invoice'[i].total = total
  BY <1>3, <1>7 DEF TypeOK, InvoiceRow
<1>9. SumOf(S)' = paid
  BY <1>1, <1>2, SumOfNow, SumOfNext, AddedSame
<1>10. SumOf(invoice[i].counted)' = paid
  BY <1>8, <1>9
<1>11. Tells(i)'
  BY <1>5, <1>8, <1>10 DEF Tells
<1> QED BY <1>7, <1>11 DEF TypeOK

LEMMA NothingAdded == SumOf({})' = 0
<1>1. SumOf({})' = Added(payment', {})
  BY SumOfNext
<1>2. Added(payment', {}) = 0
  BY SumEmpty DEF Added
<1> QED BY <1>1, <1>2

LEMMA InsertTells ==
  ASSUME TypeOK, StatusTells, OnlyRealMoney, UNCHANGED payment, NEW owners,
         DOMAIN owners \subseteq Invoices \ Live, NEW total \in Nat,
         NEW overdue \in BOOLEAN, InsertInvoices(owners, total, overdue)
  PROVE  StatusTells'
<1> DEFINE st == InvoiceStatus(total, 0, overdue)
           row(i) == [NoInvoice EXCEPT !.live = TRUE, !.total = total, !.overdue = overdue,
              !.student = IF owners[i] \in Students THEN owners[i] ELSE None,
              !.application = IF owners[i] \in Applications THEN owners[i] ELSE None,
              !.status = st]
<1>1. st # "paid"
  BY DEF InvoiceStatus
<1>2. invoice' = [i \in Invoices |-> IF i \in DOMAIN owners THEN row(i) ELSE invoice[i]]
  BY DEF InsertInvoices
<1> HIDE DEF st
<1>3. ASSUME NEW i \in Invoices
      PROVE  row(i).total = total /\ row(i).status = st /\ row(i).counted = {}
  BY DEF NoInvoice
<1> HIDE DEF row
<1>4. ASSUME NEW i \in Invoices, i \in DOMAIN owners PROVE Tells(i)'
  <2>1. invoice'[i].total = total /\ invoice'[i].status = st /\ invoice'[i].counted = {}
    BY <1>2, <1>3, <1>4
  <2>2. SumOf(invoice[i].counted)' = SumOf({})'
    BY <2>1
  <2> QED BY <1>1, <2>1, <2>2, NothingAdded DEF Tells
<1>5. ASSUME NEW i \in Invoices, i \notin DOMAIN owners, invoice'[i].live PROVE Tells(i)'
  <2>1. invoice'[i] = invoice[i]
    BY <1>2, <1>5
  <2>2. Tells(i)
    BY <1>5, <2>1 DEF StatusTells, Live
  <2> QED BY <2>1, <2>2, TellsKept
<1> QED BY <1>4, <1>5 DEF StatusTells, Live

LEMMA StatusTellsNext ==
  ASSUME IInv, StatusTells, [FeeStep]_feeVars PROVE StatusTells'
<1> TypeOK /\ OnlyRealMoney
  BY DEF IInv
<1>0. ASSUME \A j \in Invoices : /\ invoice'[j].live = invoice[j].live
                                 /\ invoice'[j].total = invoice[j].total
                                 /\ invoice'[j].counted = invoice[j].counted
                                 /\ invoice'[j].status = invoice[j].status,
             \A p \in Payments : payment[p].state = "live" => payment'[p].amount = payment[p].amount
      PROVE  StatusTells'
  <2>1. ASSUME NEW i \in Invoices, invoice'[i].live PROVE Tells(i)'
    <3>1. Tells(i) /\ invoice[i].counted \in SUBSET Payments
      BY <1>0, <2>1 DEF StatusTells, Live, TypeOK, InvoiceRow
    <3>2. \A p \in invoice[i].counted : payment'[p].amount = payment[p].amount
      BY <1>0, <2>1, <3>1 DEF OnlyRealMoney, Live
    <3> QED BY <1>0, <3>1, <3>2, TellsKept
  <2> QED BY <2>1 DEF StatusTells, Live
<1>1. ASSUME NEW S \in SUBSET Students, Generate(S) PROVE StatusTells'
  <2>1. PICK ids \in SUBSET (Invoices \ Live) :
          \E owners \in [ids -> S], total \in Totals, overdue \in BOOLEAN :
            InsertInvoices(owners, total, overdue)
    BY <1>1 DEF Generate
  <2>2. PICK owners \in [ids -> S], total \in Totals, overdue \in BOOLEAN :
          InsertInvoices(owners, total, overdue)
    BY <2>1
  <2>3. total \in Nat /\ DOMAIN owners \subseteq Invoices \ Live /\ UNCHANGED payment
    BY TotalsTyped, <2>2, <1>1 DEF Generate
  <2> QED BY <2>2, <2>3, InsertTells
<1>2. ASSUME NEW i \in Invoices, FallDue(i) PROVE StatusTells'
  BY <1>0, <1>2 DEF FallDue, TypeOK, InvoiceRow
<1>3. ASSUME NEW r \in Requests, NEW i \in Invoices, PayInsert(r, i) PROVE StatusTells'
  <2>1. PICK p \in Payments, amount \in Amounts :
          /\ payment[p].state = "free"
          /\ payment' = [payment EXCEPT ![p] =
               [NoPayment EXCEPT !.state = "uncommitted", !.invoice = i, !.amount = amount]]
    BY <1>3 DEF PayInsert
  <2>2. \A s \in Payments : payment[s].state = "live" => payment'[s].amount = payment[s].amount
    BY <2>1 DEF TypeOK
  <2> QED BY <1>0, <1>3, <2>2 DEF PayInsert
<1>4. ASSUME NEW r \in Requests, RefundUpdate(r) \/ \E p \in Payments : RefundCheck(r, p)
      PROVE  StatusTells'
  BY <1>0, <1>4 DEF RefundUpdate, RefundCheck
<1>5. ASSUME NEW r \in Requests, PayCommit(r) \/ RefundCommit(r) PROVE StatusTells'
  <2>1. WriteTotals(r) /\ req[r].invoice \in Invoices /\ req[r].payment \in Payments
    BY <1>5 DEF PayCommit, RefundCommit, IInv, InFlight, Recording, Refunding
  <2>2. \A s \in Payments : payment'[s].amount = payment[s].amount
    BY <1>5, <2>1 DEF PayCommit, RefundCommit, TypeOK, PaymentRow
  <2>3. PICK i \in Invoices : i = req[r].invoice
    BY <2>1
  <2>4. req[r].counted \in SUBSET Payments
    BY DEF TypeOK, FeeRequest
  <2>5. Tells(i)' /\ \A j \in Invoices : j # i => invoice'[j] = invoice[j]
    BY <2>1, <2>2, <2>3, <2>4, WriteTells
  <2>6. ASSUME NEW j \in Invoices, j # i, invoice'[j].live PROVE Tells(j)'
    <3>1. invoice'[j] = invoice[j] /\ Tells(j) /\ invoice[j].counted \in SUBSET Payments
      BY <2>5, <2>6 DEF StatusTells, Live, TypeOK, InvoiceRow
    <3> QED BY <2>2, <3>1, TellsKept
  <2> QED BY <2>5, <2>6 DEF StatusTells, Live
<1>6. ASSUME NEW r \in Requests, Abort(r) PROVE StatusTells'
  <2>1. \A s \in Payments : payment[s].state = "live" => payment'[s].amount = payment[s].amount
    BY <1>6 DEF Abort, IInv, InFlight, Recording, TypeOK
  <2> QED BY <1>0, <1>6, <2>1 DEF Abort
<1>7. CASE UNCHANGED feeVars
  BY <1>0, <1>7 DEF feeVars
<1> QED BY <1>1, <1>2, <1>3, <1>4, <1>5, <1>6, <1>7 DEF FeeStep

\* What is accurate and told by the status is what paidAmount should say.
LEMMA AccurateAndTold == AllAccurate /\ StatusTells => PaidAmountAccurate
<1> SUFFICES ASSUME AllAccurate, StatusTells, NEW i \in Live
             PROVE  /\ Accurate(i)
                    /\ invoice[i].status = "paid"
                         <=> invoice[i].total > 0 /\ SumOf(Standing(i)) >= invoice[i].total
  BY DEF PaidAmountAccurate
<1>1. Accurate(i) /\ Tells(i)
  BY DEF AllAccurate, StatusTells
<1>2. SumOf(invoice[i].counted) = SumOf(Standing(i))
  BY <1>1 DEF Accurate
<1> QED BY <1>1, <1>2 DEF Tells

-----------------------------------------------------------------------------
(* The theorems                                                            *)

\* Every variable keeps its type, for any fee structures, amounts and requests.
THEOREM TypeCorrect == Spec => []TypeOK
<1>1. IInv => TypeOK
  BY DEF IInv
<1> QED BY <1>1, InvInit, InvNext, PTL DEF Spec

\* Whatever interleaves and whatever is rolled back, an invoice's paidAmount is
\* made of committed payments on that invoice.
THEOREM CountsRealMoney == Spec => []OnlyRealMoney
<1>1. IInv => OnlyRealMoney
  BY DEF IInv
<1> QED BY <1>1, InvInit, InvNext, PTL DEF Spec

\* Whatever was lost before, a payment or refund that no other commit on its
\* invoice came in between leaves paidAmount equal to what stands paid.
THEOREM Repairs == Spec => NextOneRepairs
<1>1. ASSUME IInv, [FeeStep]_feeVars
      PROVE  [\A r \in Requests, i \in Invoices :
               /\ req[r].pc \in {"paying", "refunding"} /\ req[r].fresh /\ req[r].invoice = i
               /\ req'[r].pc = "idle" /\ crashes' = crashes
               => Accurate(i)']_feeVars
  <2> SUFFICES ASSUME FeeStep, NEW r \in Requests, NEW i \in Invoices,
                      req[r].pc \in {"paying", "refunding"}, req[r].fresh, req[r].invoice = i,
                      req'[r].pc = "idle", crashes' = crashes
               PROVE  Accurate(i)'
    BY <1>1
  <2>1. PayCommit(r) \/ RefundCommit(r)
    BY <1>1, Committed
  <2> QED BY <1>1, <2>1, PayCommitCounts, RefundCommitCounts
<1> QED BY <1>1, InvInit, InvNext, PTL DEF Spec, NextOneRepairs

\* With one request at a time, roll-backs included, every invoice counts exactly
\* the payments on it that are not refunded.
THEOREM SerialAccurate == ASSUME ~Overlap PROVE Spec => []AllAccurate
<1>1. Init => Alone /\ AllAccurate
  BY DEF Init, IdleReq, NoInvoice, Alone, AllAccurate, Live
<1>2. IInv /\ Alone /\ AllAccurate /\ [FeeStep]_feeVars => (IInv /\ Alone /\ AllAccurate)'
  BY InvNext, AloneNext, AccurateNext
<1> QED BY <1>1, <1>2, InvInit, PTL DEF Spec

\* With one request at a time, roll-backs included, paidAmount is the sum of the
\* payments that stand, and "paid" means that they cover the total.
THEOREM PaidIsAccurate == ASSUME ~Overlap PROVE Spec => []PaidAmountAccurate
<1>1. Init => StatusTells
  BY DEF Init, NoInvoice, StatusTells, Live
<1>2. IInv /\ StatusTells /\ [FeeStep]_feeVars => StatusTells'
  BY StatusTellsNext
<1> QED BY <1>1, <1>2, AccurateAndTold, InvInit, InvNext, SerialAccurate, PTL DEF Spec

-----------------------------------------------------------------------------
(* Admissions                                                               *)

\* The stages and their places in the pipeline.
LEMMA StagePlaces ==
  /\ ToSet(StageOrder) = {"inquiry", "application", "documents", "review", "entrance_test",
                          "interview", "acceptance", "fee_payment", "enrollment"}
  /\ \A s \in ToSet(StageOrder) : StageIndex(s) \in 1..9 /\ StageOrder[StageIndex(s)] = s
  /\ StageIndex("inquiry") = 1 /\ StageIndex("acceptance") = 7
  /\ StageIndex("fee_payment") = 8 /\ StageIndex("enrollment") = 9
<1>1. DOMAIN StageOrder = 1..9
  BY DEF StageOrder
<1>2. /\ StageOrder[1] = "inquiry" /\ StageOrder[2] = "application"
      /\ StageOrder[3] = "documents" /\ StageOrder[4] = "review"
      /\ StageOrder[5] = "entrance_test" /\ StageOrder[6] = "interview"
      /\ StageOrder[7] = "acceptance" /\ StageOrder[8] = "fee_payment"
      /\ StageOrder[9] = "enrollment"
  BY DEF StageOrder
<1> HIDE DEF StageOrder
<1>3. \A n \in 1..9 : n \in {1, 2, 3, 4, 5, 6, 7, 8, 9}
  OBVIOUS
<1>4. ToSet(StageOrder) = {"inquiry", "application", "documents", "review", "entrance_test",
                          "interview", "acceptance", "fee_payment", "enrollment"}
  BY <1>1, <1>2, <1>3 DEF ToSet
<1>5. ASSUME NEW s \in ToSet(StageOrder)
      PROVE  StageIndex(s) \in 1..9 /\ StageOrder[StageIndex(s)] = s
  BY <1>1 DEF ToSet, StageIndex
<1>6. ASSUME NEW m \in 1..9, NEW n \in 1..9, StageOrder[m] = StageOrder[n] PROVE m = n
  BY <1>2, <1>3, <1>6
<1>7. \A n \in 1..9 : StageOrder[n] \in ToSet(StageOrder) /\ StageIndex(StageOrder[n]) = n
  <2>1. \A n \in 1..9 : StageOrder[n] \in ToSet(StageOrder)
    BY <1>1 DEF ToSet
  <2> QED BY <2>1, <1>5, <1>6
<1> QED BY <1>2, <1>4, <1>5, <1>7

-----------------------------------------------------------------------------
(* The invariant                                                           *)

\* The payments made on an invoice, refunded or not.
Made(i) == {p \in Payments : payment[p].state = "live" /\ payment[p].invoice = i}

\* An admission invoice of the application was covered by payments.
PaidFor(a) ==
  \E i \in InvoicesOf(a) : invoice[i].total > 0 /\ SumOf(Made(i)) >= invoice[i].total

\* What a request in flight holds is what its own reads and writes have put there.
Holds(c) ==
  /\ clerk[c].pc # "idle" => clerk[c].app \in Applications
  /\ clerk[c].pc = "invoice" => clerk[c].target = "fee_payment"
  /\ clerk[c].pc = "invoice" /\ clerk[c].invoice # None
       => clerk[c].invoice \in InvoicesOf(clerk[c].app)
  /\ clerk[c].pc = "write" /\ clerk[c].target = "fee_payment"
       => clerk[c].invoice \in InvoicesOf(clerk[c].app)
  /\ clerk[c].pc \in {"paid?", "enroll"} => clerk[c].invoice \in InvoicesOf(clerk[c].app)
  /\ clerk[c].pc = "enroll" => PaidFor(clerk[c].app)

\* The invoice an application names is an invoice of that application, and one
\* that names a student was paid for.
RowHolds(a) ==
  /\ app[a].feeInvoice # None => app[a].feeInvoice \in InvoicesOf(a)
  /\ app[a].student # None => PaidFor(a)

AdmInv ==
  /\ IInv /\ StatusTells /\ AdmTypeOK
  /\ \A c \in Clerks : Holds(c)
  /\ \A a \in Applications : RowHolds(a)

\* A step keeps what was invoiced and what was paid.
BooksKept ==
  /\ \A i \in Live : /\ invoice'[i].live /\ invoice'[i].total = invoice[i].total
                     /\ invoice'[i].application = invoice[i].application
  /\ \A p \in Payments : payment[p].state = "live" =>
       /\ payment'[p].state = "live" /\ payment'[p].invoice = payment[p].invoice
       /\ payment'[p].amount = payment[p].amount

-----------------------------------------------------------------------------
(* The books                                                               *)

LEMMA AddedMonotone ==
  ASSUME NEW pay \in [Payments -> PaymentRow], NEW S \in SUBSET Payments, NEW T \in SUBSET S
  PROVE  Added(pay, T) <= Added(pay, S)
<1> DEFINE f == [p \in Payments |-> pay[p].amount]
<1>1. IsFiniteSet(S) /\ \A p \in S : f[p] \in Nat
  BY FeesAssumption, FS_Subset DEF PaymentRow
<1> HIDE DEF f
<1>2. SumFunctionOnSet(f, T) <= SumFunctionOnSet(f, S)
  BY <1>1, SumMonotone
<1> QED BY <1>2 DEF Added, f

LEMMA OfKept ==
  ASSUME BooksKept, NEW a PROVE InvoicesOf(a) \subseteq InvoicesOf(a)'
BY DEF BooksKept, InvoicesOf, Live

LEMMA PaidKept ==
  ASSUME BooksKept, TypeOK, TypeOK', NEW a, PaidFor(a) PROVE PaidFor(a)'
<1>1. PICK i \in InvoicesOf(a) : invoice[i].total > 0 /\ SumOf(Made(i)) >= invoice[i].total
  BY DEF PaidFor
<1>2. PICK S \in SUBSET Payments : S = Made(i)
  BY DEF Made
<1>3. PICK T \in SUBSET Payments : T = Made(i)'
  BY DEF Made
<1>4. S \subseteq T /\ \A p \in S : payment'[p].amount = payment[p].amount
  BY <1>2, <1>3 DEF Made, BooksKept
<1>5. PICK x \in Nat : x = SumOf(Made(i)) /\ x = Added(payment, S)
  BY <1>2, SumOfNow, AddedTyped DEF TypeOK
<1>6. PICK y \in Nat : y = SumOf(Made(i))' /\ y = Added(payment', T)
  <2>1. SumOf(T)' = Added(payment', T)
    BY SumOfNext
  <2>2. SumOf(Made(i))' = SumOf(T)'
    BY <1>3
  <2>3. Added(payment', T) \in Nat
    BY AddedTyped DEF TypeOK
  <2> QED BY <2>1, <2>2, <2>3
<1>7. Added(payment', S) = x
  BY <1>4, <1>5, AddedSame
<1>8. x <= y
  <2>1. payment' \in [Payments -> PaymentRow]
    BY DEF TypeOK
  <2>2. Added(payment', S) <= Added(payment', T)
    BY <2>1, <1>4, AddedMonotone
  <2> QED BY <2>2, <1>6, <1>7
<1>9. i \in InvoicesOf(a)' /\ invoice'[i].total = invoice[i].total /\ invoice[i].total \in Nat
  BY <1>1, OfKept DEF InvoicesOf, Live, BooksKept, TypeOK, InvoiceRow
<1>10. y > 0 /\ invoice'[i].total > 0 /\ y >= invoice'[i].total
  BY <1>1, <1>5, <1>8, <1>9
<1> QED BY <1>6, <1>9, <1>10 DEF PaidFor

\* No step of the ledger takes back an invoice or a payment that was made.
LEMMA LedgerKeeps ==
  ASSUME IInv, [FeeStep]_feeVars PROVE BooksKept
<1>1. ASSUME NEW S \in SUBSET Students, Generate(S) PROVE BooksKept
  BY <1>1, GenerateTyped DEF Generate, IInv, BooksKept, Live
<1>2. ASSUME NEW i \in Invoices, FallDue(i) PROVE BooksKept
  BY <1>2 DEF FallDue, BooksKept, IInv, TypeOK, InvoiceRow, Live
<1>3. ASSUME NEW r \in Requests, NEW i \in Invoices, PayInsert(r, i) PROVE BooksKept
  <2>1. PICK p \in Payments : payment[p].state = "free" /\ \A q \in Payments \ {p} : payment'[q] = payment[q]
    BY <1>3 DEF PayInsert, IInv, TypeOK
  <2> QED BY <1>3, <2>1 DEF PayInsert, BooksKept, Live
<1>4. ASSUME NEW r \in Requests, RefundUpdate(r) \/ \E p \in Payments : RefundCheck(r, p)
      PROVE  BooksKept
  BY <1>4 DEF RefundUpdate, RefundCheck, BooksKept, Live
<1>5. ASSUME NEW r \in Requests, PayCommit(r) \/ RefundCommit(r) PROVE BooksKept
  <2>1. WriteTotals(r) /\ req[r].invoice \in Invoices /\ req[r].payment \in Payments
    BY <1>5 DEF PayCommit, RefundCommit, IInv, InFlight, Recording, Refunding
  <2>2. \A s \in Payments : /\ payment'[s].amount = payment[s].amount
                            /\ payment'[s].invoice = payment[s].invoice
                            /\ payment[s].state = "live" => payment'[s].state = "live"
    BY <1>5, <2>1 DEF PayCommit, RefundCommit, TypeOK, PaymentRow, IInv
  <2>3. PICK i \in Invoices : i = req[r].invoice
    BY <2>1
  <2>4. PICK st : invoice' = [invoice EXCEPT ![i].counted = req[r].counted, ![i].status = st]
    BY <2>1, <2>3 DEF WriteTotals
  <2>5. \A j \in Invoices : /\ invoice'[j].live = invoice[j].live
                            /\ invoice'[j].total = invoice[j].total
                            /\ invoice'[j].application = invoice[j].application
    BY <2>4 DEF IInv, TypeOK, InvoiceRow
  <2> QED BY <2>2, <2>5 DEF BooksKept, Live
<1>6. ASSUME NEW r \in Requests, Abort(r) PROVE BooksKept
  <2>1. req[r].pc = "paying" => req[r].payment \in Payments /\ payment[req[r].payment].state = "uncommitted"
    BY DEF IInv, InFlight, Recording
  <2>2. \A s \in Payments : payment[s].state = "live" => payment'[s] = payment[s]
    BY <1>6, <2>1 DEF Abort, IInv, TypeOK
  <2> QED BY <1>6, <2>2 DEF Abort, BooksKept, Live
<1>7. CASE UNCHANGED feeVars
  BY <1>7 DEF feeVars, BooksKept, Live
<1> QED BY <1>1, <1>2, <1>3, <1>4, <1>5, <1>6, <1>7 DEF FeeStep

\* A step of the ledger that the pipeline allows is a step of Fees.
LEMMA LedgerIsFees ==
  ASSUME students \in SUBSET Students, LedgerStep PROVE FeeStep /\ UNCHANGED admVars
<1>1. ASSUME NEW s \in students, Generate({s}) PROVE FeeStep
  BY <1>1 DEF FeeStep
<1> QED BY <1>1 DEF LedgerStep, FeeStep

-----------------------------------------------------------------------------
(* Types, and what requests hold, action by action                         *)

AppRow == [live : BOOLEAN, stage : ToSet(StageOrder), decision : Decisions \cup {"pending"},
           feeInvoice : Invoices \cup {None}, student : Students \cup {None}]

ClerkRow == [pc : {"idle", "invoice", "write", "paid?", "enroll"},
             app : Applications \cup {None}, target : ToSet(StageOrder),
             invoice : Invoices \cup {None}]

LEMMA AdmTyped ==
  AdmTypeOK <=> /\ TypeOK /\ app \in [Applications -> AppRow] /\ students \in SUBSET Students
                /\ clerk \in [Clerks -> ClerkRow]
BY DEF AdmTypeOK, AppRow, ClerkRow

LEMMA AdmTypedNext ==
  AdmTypeOK' <=> /\ TypeOK' /\ app' \in [Applications -> AppRow]
                 /\ students' \in SUBSET Students /\ clerk' \in [Clerks -> ClerkRow]
BY DEF AdmTypeOK, AppRow, ClerkRow

LEMMA AdmRowsTyped == NoApplication \in AppRow /\ IdleClerk \in ClerkRow
BY StagePlaces DEF NoApplication, IdleClerk, AppRow, ClerkRow

\* What a request holds stays good while the books are kept.
LEMMA HoldsKept ==
  ASSUME BooksKept, TypeOK, TypeOK', NEW c \in Clerks, Holds(c), clerk'[c] = clerk[c]
  PROVE  Holds(c)'
<1>1. PICK k : k = clerk[c]
  OBVIOUS
<1>2. /\ k.pc # "idle" => k.app \in Applications
      /\ k.pc = "invoice" => k.target = "fee_payment"
      /\ k.pc = "invoice" /\ k.invoice # None => k.invoice \in InvoicesOf(k.app)
      /\ k.pc = "write" /\ k.target = "fee_payment" => k.invoice \in InvoicesOf(k.app)
      /\ k.pc \in {"paid?", "enroll"} => k.invoice \in InvoicesOf(k.app)
      /\ k.pc = "enroll" => PaidFor(k.app)
  BY <1>1 DEF Holds
<1>3. PICK a : a = k.app
  OBVIOUS
<1>4. InvoicesOf(a) \subseteq InvoicesOf(a)' /\ (PaidFor(a) => PaidFor(a)')
  BY OfKept, PaidKept
<1>5. /\ InvoicesOf(clerk[c].app)' = InvoicesOf(a)'
      /\ PaidFor(clerk[c].app)' = PaidFor(a)'
  BY <1>1, <1>3 DEF InvoicesOf, PaidFor
<1> QED BY <1>1, <1>2, <1>3, <1>4, <1>5 DEF Holds

LEMMA RowKept ==
  ASSUME BooksKept, TypeOK, TypeOK', NEW a \in Applications, RowHolds(a),
         app'[a].feeInvoice = app[a].feeInvoice, app'[a].student = app[a].student
  PROVE  RowHolds(a)'
BY OfKept, PaidKept DEF RowHolds

\* Steps of the pipeline that touch no row of the ledger.
LEMMA LedgerStill ==
  ASSUME AdmInv, UNCHANGED feeVars
  PROVE  BooksKept /\ IInv' /\ StatusTells' /\ TypeOK /\ TypeOK'
<1>1. IInv' /\ StatusTells' /\ BooksKept
  BY InvNext, StatusTellsNext, LedgerKeeps DEF AdmInv
<1> QED BY <1>1 DEF AdmInv, IInv

\* A request that is answered holds nothing.
LEMMA Answered ==
  ASSUME AdmTypeOK, NEW c \in Clerks, Answer(c)
  PROVE  /\ clerk' \in [Clerks -> ClerkRow] /\ Holds(c)'
         /\ \A d \in Clerks : d # c => clerk'[d] = clerk[d]
<1>1. clerk \in [Clerks -> ClerkRow] /\ clerk' = [clerk EXCEPT ![c] = IdleClerk]
  BY AdmTyped DEF Answer
<1>2. clerk'[c].pc = "idle"
  BY <1>1 DEF IdleClerk
<1> QED BY <1>1, <1>2, AdmRowsTyped DEF Holds

\* What a step that changes one request and at most one application must show.
LEMMA AdmSplit ==
  ASSUME AdmInv, IInv', StatusTells', BooksKept, app' \in [Applications -> AppRow],
         students' \in SUBSET Students, clerk' \in [Clerks -> ClerkRow],
         NEW c \in Clerks, Holds(c)', \A d \in Clerks : d # c => clerk'[d] = clerk[d],
         \A a \in Applications : \/ RowHolds(a)'
                                 \/ /\ app'[a].feeInvoice = app[a].feeInvoice
                                    /\ app'[a].student = app[a].student
  PROVE  AdmInv'
<1>1. TypeOK /\ TypeOK'
  BY DEF AdmInv, IInv
<1>2. AdmTypeOK'
  BY <1>1, AdmTypedNext
<1>3. ASSUME NEW d \in Clerks PROVE Holds(d)'
  <2>1. Holds(d)
    BY DEF AdmInv
  <2> QED BY <2>1, <1>1, HoldsKept
<1>4. ASSUME NEW a \in Applications PROVE RowHolds(a)'
  <2>1. RowHolds(a)
    BY DEF AdmInv
  <2> QED BY <2>1, <1>1, RowKept
<1> QED BY <1>2, <1>3, <1>4 DEF AdmInv

LEMMA CreateInv ==
  ASSUME AdmInv, NEW a \in Applications, CreateInquiry(a) \/ \E d \in Decisions : Decide(a, d)
  PROVE  AdmInv'
<1>1. /\ app \in [Applications -> AppRow] /\ students \in SUBSET Students
      /\ clerk \in [Clerks -> ClerkRow]
  BY AdmTyped DEF AdmInv
<1>2. UNCHANGED <<students, clerk, feeVars>>
  BY DEF CreateInquiry, Decide
<1>3. /\ app' \in [Applications -> AppRow]
      /\ \A b \in Applications : /\ app'[b].feeInvoice = app[b].feeInvoice
                                 /\ app'[b].student = app[b].student
  <2>1. CASE CreateInquiry(a)
    BY <2>1, <1>1 DEF CreateInquiry, AppRow
  <2>2. ASSUME NEW d \in Decisions, Decide(a, d)
        PROVE  /\ app' \in [Applications -> AppRow]
               /\ \A b \in Applications : /\ app'[b].feeInvoice = app[b].feeInvoice
                                          /\ app'[b].student = app[b].student
    BY <2>2, <1>1 DEF Decide, AppRow
  <2> QED BY <2>1, <2>2
<1>4. BooksKept /\ IInv' /\ StatusTells' /\ TypeOK /\ TypeOK'
  BY <1>2, LedgerStill
<1>5. AdmTypeOK'
  BY <1>1, <1>2, <1>3, <1>4, AdmTypedNext
<1>6. ASSUME NEW d \in Clerks PROVE Holds(d)'
  <2>1. Holds(d) /\ clerk'[d] = clerk[d]
    BY <1>2 DEF AdmInv
  <2> QED BY <2>1, <1>4, HoldsKept
<1>7. ASSUME NEW b \in Applications PROVE RowHolds(b)'
  <2>1. RowHolds(b)
    BY DEF AdmInv
  <2> QED BY <2>1, <1>3, <1>4, RowKept
<1> QED BY <1>4, <1>5, <1>6, <1>7 DEF AdmInv

LEMMA UpdateReadInv ==
  ASSUME AdmInv, NEW c \in Clerks, NEW a \in Applications, NEW target \in ToSet(StageOrder),
         UpdateRead(c, a, target)
  PROVE  AdmInv'
<1>1. /\ app \in [Applications -> AppRow] /\ students \in SUBSET Students
      /\ clerk \in [Clerks -> ClerkRow] /\ RowHolds(a)
  BY AdmTyped DEF AdmInv
<1>2. UNCHANGED <<app, students, feeVars>>
  BY DEF UpdateRead
<1>3. PICK k : k = [pc |-> IF target = "fee_payment" THEN "invoice" ELSE "write",
                    app |-> a, target |-> target, invoice |-> app[a].feeInvoice]
  OBVIOUS
<1>4. k \in ClerkRow /\ clerk' = [clerk EXCEPT ![c] = k]
  BY <1>1, <1>3 DEF UpdateRead, AppRow, ClerkRow
<1>5. clerk' \in [Clerks -> ClerkRow] /\ clerk'[c] = k /\ \A d \in Clerks : d # c => clerk'[d] = clerk[d]
  BY <1>1, <1>4
<1>6. BooksKept /\ IInv' /\ StatusTells' /\ TypeOK /\ TypeOK'
  BY <1>2, LedgerStill
<1>7. k.invoice # None => k.invoice \in InvoicesOf(a)'
  BY <1>1, <1>3, <1>6, OfKept DEF RowHolds
<1>8. Holds(c)'
  <2>1. /\ k.pc \in {"invoice", "write"} /\ k.app = a
        /\ k.pc = "invoice" => k.target = "fee_payment"
        /\ k.pc = "write" => k.target # "fee_payment"
    BY <1>3
  <2>2. InvoicesOf(clerk[c].app)' = InvoicesOf(a)'
    BY <2>1, <1>5 DEF InvoicesOf
  <2> QED BY <2>1, <2>2, <1>5, <1>7 DEF Holds
<1> QED BY <1>1, <1>2, <1>5, <1>6, <1>8, AdmSplit

LEMMA EnrollReadInv ==
  ASSUME AdmInv, NEW c \in Clerks, NEW a \in Applications, EnrollRead(c, a)
  PROVE  AdmInv'
<1>1. /\ app \in [Applications -> AppRow] /\ students \in SUBSET Students
      /\ clerk \in [Clerks -> ClerkRow] /\ RowHolds(a)
  BY AdmTyped DEF AdmInv
<1>2. UNCHANGED <<app, students, feeVars>> /\ app[a].feeInvoice # None
  BY DEF EnrollRead
<1>3. PICK k : k = [IdleClerk EXCEPT !.pc = "paid?", !.app = a, !.invoice = app[a].feeInvoice]
  OBVIOUS
<1>4. k \in ClerkRow /\ clerk' = [clerk EXCEPT ![c] = k]
  BY <1>1, <1>3, AdmRowsTyped DEF EnrollRead, AppRow, ClerkRow
<1>5. clerk' \in [Clerks -> ClerkRow] /\ clerk'[c] = k /\ \A d \in Clerks : d # c => clerk'[d] = clerk[d]
  BY <1>1, <1>4
<1>6. BooksKept /\ IInv' /\ StatusTells' /\ TypeOK /\ TypeOK'
  BY <1>2, LedgerStill
<1>7. /\ k.pc = "paid?" /\ k.app = a /\ k.invoice = app[a].feeInvoice
  BY <1>3 DEF IdleClerk
<1>8. Holds(c)'
  <2>1. InvoicesOf(clerk[c].app)' = InvoicesOf(a)'
    BY <1>7, <1>5 DEF InvoicesOf
  <2>2. k.invoice \in InvoicesOf(a)'
    BY <1>1, <1>2, <1>6, <1>7, OfKept DEF RowHolds
  <2> QED BY <2>1, <2>2, <1>5, <1>7 DEF Holds
<1> QED BY <1>1, <1>2, <1>5, <1>6, <1>8, AdmSplit

\* "paid" means that payments cover the invoice: those it counts were made.
LEMMA PaidMeansCovered ==
  ASSUME AdmInv, NEW a \in Applications, NEW i \in InvoicesOf(a), invoice[i].status = "paid"
  PROVE  PaidFor(a)
<1>1. i \in Live /\ Tells(i) /\ TypeOK /\ OnlyRealMoney
  BY DEF AdmInv, StatusTells, IInv, InvoicesOf
<1>2. PICK S \in SUBSET Payments : S = invoice[i].counted
  BY <1>1 DEF Live, TypeOK, InvoiceRow
<1>3. PICK T \in SUBSET Payments : T = Made(i)
  BY DEF Made
<1>4. S \subseteq T
  BY <1>1, <1>2, <1>3 DEF OnlyRealMoney, Made
<1>5. PICK x \in Nat : x = SumOf(invoice[i].counted) /\ x = Added(payment, S)
  BY <1>1, <1>2, SumOfNow, AddedTyped DEF TypeOK
<1>6. PICK y \in Nat : y = SumOf(Made(i)) /\ y = Added(payment, T)
  BY <1>1, <1>3, SumOfNow, AddedTyped DEF TypeOK
<1>7. x <= y
  <2>1. Added(payment, S) <= Added(payment, T)
    BY <1>1, <1>4, AddedMonotone DEF TypeOK
  <2> QED BY <2>1, <1>5, <1>6
<1>8. PICK n \in Nat : n = invoice[i].total
  BY <1>1 DEF Live, TypeOK, InvoiceRow
<1>9. n > 0 /\ x >= n
  BY <1>1, <1>5, <1>8 DEF Tells
<1>10. y >= n
  BY <1>7, <1>9
<1> QED BY <1>6, <1>8, <1>9, <1>10 DEF PaidFor

LEMMA CheckPaidInv ==
  ASSUME AdmInv, NEW c \in Clerks, EnrollCheckPaid(c)
  PROVE  AdmInv'
<1>1. /\ app \in [Applications -> AppRow] /\ students \in SUBSET Students
      /\ clerk \in [Clerks -> ClerkRow] /\ Holds(c) /\ AdmTypeOK
  BY AdmTyped DEF AdmInv
<1>2. UNCHANGED <<app, students, feeVars>> /\ clerk[c].pc = "paid?"
  BY DEF EnrollCheckPaid
<1>3. BooksKept /\ IInv' /\ StatusTells' /\ TypeOK /\ TypeOK'
  BY <1>2, LedgerStill
<1>4. CASE invoice[clerk[c].invoice].status = "paid"
  <2>1. PICK a \in Applications : a = clerk[c].app
    BY <1>1, <1>2 DEF Holds
  <2>2. PICK i \in InvoicesOf(a) : i = clerk[c].invoice
    BY <1>1, <1>2, <2>1 DEF Holds
  <2>3. PaidFor(a)'
    BY <1>3, <1>4, <2>2, PaidMeansCovered, PaidKept
  <2>4. clerk' = [clerk EXCEPT ![c].pc = "enroll"]
    BY <1>4 DEF EnrollCheckPaid
  <2>5. /\ clerk' \in [Clerks -> ClerkRow] /\ clerk'[c].pc = "enroll" /\ clerk'[c].app = a
        /\ clerk'[c].invoice = i /\ \A d \in Clerks : d # c => clerk'[d] = clerk[d]
    BY <2>1, <2>2, <2>4, <1>1 DEF ClerkRow
  <2>6. PaidFor(clerk[c].app)' = PaidFor(a)' /\ InvoicesOf(clerk[c].app)' = InvoicesOf(a)'
    BY <2>5 DEF PaidFor, InvoicesOf
  <2>7. i \in InvoicesOf(a)'
    BY <1>3, OfKept
  <2>8. Holds(c)'
    BY <2>3, <2>5, <2>6, <2>7 DEF Holds
  <2> QED BY <2>5, <2>8, <1>1, <1>2, <1>3, AdmSplit
<1>5. CASE invoice[clerk[c].invoice].status # "paid"
  <2>1. Answer(c)
    BY <1>5 DEF EnrollCheckPaid
  <2>2. /\ clerk' \in [Clerks -> ClerkRow] /\ Holds(c)'
        /\ \A d \in Clerks : d # c => clerk'[d] = clerk[d]
    BY <2>1, <1>1, Answered
  <2> QED BY <2>2, <1>1, <1>2, <1>3, AdmSplit
<1> QED BY <1>4, <1>5

LEMMA WriteInv ==
  ASSUME AdmInv, NEW c \in Clerks, UpdateWrite(c)
  PROVE  AdmInv'
<1>1. /\ app \in [Applications -> AppRow] /\ students \in SUBSET Students
      /\ clerk \in [Clerks -> ClerkRow] /\ Holds(c) /\ AdmTypeOK
  BY AdmTyped DEF AdmInv
<1>2. UNCHANGED <<students, feeVars>> /\ clerk[c].pc = "write" /\ Answer(c)
  BY DEF UpdateWrite
<1>3. BooksKept /\ IInv' /\ StatusTells' /\ TypeOK /\ TypeOK'
  BY <1>2, LedgerStill
<1>4. PICK a \in Applications : a = clerk[c].app
  BY <1>1, <1>2 DEF Holds
<1>5. PICK s \in ToSet(StageOrder) : s = clerk[c].target
  BY <1>1 DEF ClerkRow
<1>6. PICK i \in Invoices \cup {None} : i = IF s = "fee_payment" THEN clerk[c].invoice
                                                                  ELSE app[a].feeInvoice
  BY <1>1 DEF ClerkRow, AppRow
<1>7. app' = [app EXCEPT ![a].stage = s, ![a].feeInvoice = i]
  BY <1>1, <1>4, <1>5, <1>6 DEF UpdateWrite, AppRow
<1>8. /\ app' \in [Applications -> AppRow]
      /\ app'[a].feeInvoice = i /\ app'[a].student = app[a].student
      /\ \A b \in Applications : b # a => app'[b] = app[b]
  BY <1>1, <1>7 DEF AppRow
<1>9. RowHolds(a)'
  <2>1. RowHolds(a) /\ (s = "fee_payment" => i \in InvoicesOf(a))
    BY <1>1, <1>2, <1>4, <1>5, <1>6 DEF AdmInv, Holds
  <2>2. i # None => i \in InvoicesOf(a)
    BY <2>1, <1>6 DEF RowHolds
  <2>3. i # None => i \in InvoicesOf(a)'
    BY <2>2, <1>3, OfKept
  <2>4. app'[a].student # None => PaidFor(a)'
    BY <2>1, <1>3, <1>8, PaidKept DEF RowHolds
  <2> QED BY <2>3, <2>4, <1>8 DEF RowHolds
<1>10. /\ clerk' \in [Clerks -> ClerkRow] /\ Holds(c)'
       /\ \A d \in Clerks : d # c => clerk'[d] = clerk[d]
  BY <1>1, <1>2, Answered
<1> QED BY <1>1, <1>2, <1>3, <1>8, <1>9, <1>10, AdmSplit

\* The one invoice that generateAdmissionInvoice inserts.
LEMMA AdmissionInvoiced ==
  ASSUME IInv, StatusTells, NEW a \in Applications, NEW i \in Invoices \ Live,
         NEW total \in Totals, InsertInvoices([j \in {i} |-> a], total, TRUE),
         UNCHANGED <<payment, req, refunds, crashes>>
  PROVE  /\ IInv' /\ StatusTells' /\ BooksKept
         /\ \A j \in Invoices : j # i => invoice'[j] = invoice[j]
         /\ invoice'[i].live /\ invoice'[i].application = a
         /\ invoice'[i].student = None /\ invoice'[i].counted = {}
<1>1. PICK owners : owners = [j \in {i} |-> a]
  OBVIOUS
<1>2. DOMAIN owners = {i} /\ owners[i] = a
  BY <1>1
<1>3. InsertInvoices(owners, total, TRUE)
  BY <1>1
<1>4. total \in Nat /\ TypeOK /\ OnlyRealMoney /\ DOMAIN owners \subseteq Invoices \ Live
  BY <1>2, TotalsTyped DEF IInv
<1>5. StatusTells'
  BY <1>3, <1>4, InsertTells
<1>6. IInv'
  BY <1>3, <1>4, InsertTyped, InvoicesOnly
<1>7. a \notin Students
  BY FeesAssumption
<1>8. PICK st : st = InvoiceStatus(total, 0, TRUE)
  OBVIOUS
<1>9. PICK row : row = [NoInvoice EXCEPT !.live = TRUE, !.total = total, !.overdue = TRUE,
                           !.student = None, !.application = a, !.status = st]
  OBVIOUS
<1>10. invoice' = [j \in Invoices |-> IF j = i THEN row ELSE invoice[j]]
  BY <1>2, <1>3, <1>7, <1>8, <1>9 DEF InsertInvoices
<1>11. row.live /\ row.application = a /\ row.student = None /\ row.counted = {}
  BY <1>9 DEF NoInvoice
<1>12. \A j \in Invoices : j # i => invoice'[j] = invoice[j]
  BY <1>10
<1>13. BooksKept
  BY <1>12, <1>4 DEF BooksKept, Live
<1> QED BY <1>5, <1>6, <1>10, <1>11, <1>12, <1>13

LEMMA AdmissionInvoiceInv ==
  ASSUME AdmInv, NEW c \in Clerks, GenerateAdmissionInvoice(c)
  PROVE  AdmInv'
<1>1. /\ app \in [Applications -> AppRow] /\ students \in SUBSET Students
      /\ clerk \in [Clerks -> ClerkRow] /\ Holds(c) /\ IInv /\ StatusTells
  BY AdmTyped DEF AdmInv
<1>2. UNCHANGED <<app, students, payment, req, refunds, crashes>> /\ clerk[c].pc = "invoice"
  BY DEF GenerateAdmissionInvoice
<1>3. PICK a \in Applications : a = clerk[c].app
  BY <1>1, <1>2 DEF Holds
<1>4. CASE clerk[c].invoice # None /\ clerk' = [clerk EXCEPT ![c].pc = "write"] /\ UNCHANGED invoice
  <2>1. BooksKept /\ IInv' /\ StatusTells' /\ TypeOK /\ TypeOK'
    BY <1>2, <1>4, LedgerStill DEF feeVars
  <2>2. PICK i \in InvoicesOf(a) : i = clerk[c].invoice
    BY <1>1, <1>2, <1>3, <1>4 DEF Holds
  <2>3. /\ clerk' \in [Clerks -> ClerkRow] /\ clerk'[c].pc = "write" /\ clerk'[c].app = a
        /\ clerk'[c].invoice = i /\ \A d \in Clerks : d # c => clerk'[d] = clerk[d]
    BY <1>1, <1>3, <1>4, <2>2 DEF ClerkRow
  <2>4. InvoicesOf(clerk[c].app)' = InvoicesOf(a)' /\ i \in InvoicesOf(a)'
    BY <2>1, <2>3, OfKept DEF InvoicesOf
  <2>5. Holds(c)'
    BY <2>3, <2>4 DEF Holds
  <2> QED BY <2>1, <2>3, <2>5, <1>1, <1>2, AdmSplit
<1>5. CASE \E i \in Invoices \ Live, total \in Totals :
             /\ InsertInvoices([j \in {i} |-> clerk[c].app], total, TRUE)
             /\ clerk' = [clerk EXCEPT ![c].pc = "write", ![c].invoice = i]
  <2>1. PICK i \in Invoices \ Live, total \in Totals :
             /\ InsertInvoices([j \in {i} |-> a], total, TRUE)
             /\ clerk' = [clerk EXCEPT ![c].pc = "write", ![c].invoice = i]
    BY <1>3, <1>5
  <2>2. /\ IInv' /\ StatusTells' /\ BooksKept
        /\ invoice'[i].live /\ invoice'[i].application = a
    BY <1>1, <1>2, <2>1, AdmissionInvoiced
  <2>3. /\ clerk' \in [Clerks -> ClerkRow] /\ clerk'[c].pc = "write" /\ clerk'[c].app = a
        /\ clerk'[c].invoice = i /\ \A d \in Clerks : d # c => clerk'[d] = clerk[d]
    BY <1>1, <1>3, <2>1 DEF ClerkRow
  <2>4. InvoicesOf(clerk[c].app)' = InvoicesOf(a)' /\ i \in InvoicesOf(a)'
    BY <2>2, <2>3 DEF InvoicesOf, Live
  <2>5. Holds(c)'
    BY <2>3, <2>4 DEF Holds
  <2> QED BY <2>2, <2>3, <2>5, <1>1, <1>2, AdmSplit
<1> QED BY <1>4, <1>5 DEF GenerateAdmissionInvoice

\* Handing the invoices over changes nothing else of them.
LEMMA ReconcileKeeps ==
  ASSUME IInv, StatusTells, NEW a \in Applications, NEW s \in Students, Reconcile(a, s),
         UNCHANGED <<payment, req, refunds, crashes>>
  PROVE  /\ IInv' /\ StatusTells' /\ BooksKept
         /\ \A i \in Invoices :
              /\ invoice'[i].live = invoice[i].live
              /\ invoice'[i].application = invoice[i].application
              /\ invoice'[i].counted = invoice[i].counted
              /\ invoice'[i].student = IF invoice[i].live /\ invoice[i].application = a
                                         THEN s ELSE invoice[i].student
<1>1. TypeOK /\ OnlyRealMoney
  BY DEF IInv
<1>2. invoice' \in [Invoices -> InvoiceRow]
  BY <1>1 DEF Reconcile, TypeOK, InvoiceRow
<1>3. \A i \in Invoices :
        /\ invoice'[i].live = invoice[i].live /\ invoice'[i].total = invoice[i].total
        /\ invoice'[i].application = invoice[i].application
        /\ invoice'[i].counted = invoice[i].counted /\ invoice'[i].status = invoice[i].status
        /\ invoice'[i].student = IF invoice[i].live /\ invoice[i].application = a
                                   THEN s ELSE invoice[i].student
  BY <1>1 DEF Reconcile, TypeOK, InvoiceRow
<1>4. IInv'
  BY <1>2, <1>3, InvoicesOnly
<1>5. StatusTells'
  <2>1. ASSUME NEW i \in Invoices, invoice[i].live PROVE Tells(i)'
    BY <2>1, <1>1, <1>3, TellsKept DEF StatusTells, Live
  <2> QED BY <2>1, <1>3 DEF StatusTells, Live
<1> QED BY <1>3, <1>4, <1>5 DEF BooksKept, Live

LEMMA EnrollCommitInv ==
  ASSUME AdmInv, NEW c \in Clerks, EnrollCommit(c)
  PROVE  AdmInv'
<1>1. /\ app \in [Applications -> AppRow] /\ students \in SUBSET Students
      /\ clerk \in [Clerks -> ClerkRow] /\ Holds(c) /\ IInv /\ StatusTells /\ AdmTypeOK
  BY AdmTyped DEF AdmInv
<1>2. UNCHANGED <<payment, req, refunds, crashes>> /\ clerk[c].pc = "enroll" /\ Answer(c)
  BY DEF EnrollCommit
<1>3. PICK a \in Applications : a = clerk[c].app
  BY <1>1, <1>2 DEF Holds
<1>4. PICK s \in Students \ students :
       /\ students' = students \cup {s}
       /\ app' = [app EXCEPT ![a].student = s]
       /\ Reconcile(a, s)
  BY <1>3 DEF EnrollCommit
<1>5. IInv' /\ StatusTells' /\ BooksKept /\ TypeOK /\ TypeOK'
  <2>1. IInv' /\ StatusTells' /\ BooksKept
    BY <1>1, <1>2, <1>4, ReconcileKeeps
  <2> QED BY <2>1, <1>1 DEF IInv
<1>6. /\ app' \in [Applications -> AppRow] /\ students' \in SUBSET Students
      /\ app'[a].feeInvoice = app[a].feeInvoice
      /\ \A b \in Applications : b # a => app'[b] = app[b]
  BY <1>1, <1>4 DEF AppRow
<1>7. RowHolds(a)'
  <2>1. RowHolds(a) /\ PaidFor(a)
    BY <1>1, <1>2, <1>3 DEF AdmInv, Holds
  <2> QED BY <2>1, <1>5, <1>6, OfKept, PaidKept DEF RowHolds
<1>8. /\ clerk' \in [Clerks -> ClerkRow] /\ Holds(c)'
      /\ \A d \in Clerks : d # c => clerk'[d] = clerk[d]
  BY <1>1, <1>2, Answered
<1> QED BY <1>5, <1>6, <1>7, <1>8, AdmSplit

\* A request that is cut short counts as a failure; the ledger is as it was.
LEMMA ClerkAbortInv ==
  ASSUME AdmInv, NEW c \in Clerks, ClerkAbort(c)
  PROVE  AdmInv'
<1>1. /\ app \in [Applications -> AppRow] /\ students \in SUBSET Students
      /\ clerk \in [Clerks -> ClerkRow] /\ IInv /\ StatusTells /\ AdmTypeOK
  BY AdmTyped DEF AdmInv
<1>2. /\ UNCHANGED <<app, students, invoice, payment, req, refunds>> /\ Answer(c)
      /\ crashes' = crashes + 1
  BY DEF ClerkAbort
<1>3. IInv'
  <2>1. TypeOK'
    BY <1>1, <1>2 DEF IInv, TypeOK
  <2>2. InFlight' /\ OwnPayment' /\ OnInvoice' /\ OnlyRealMoney'
    BY <1>1, <1>2 DEF IInv, InFlight, OwnPayment, OnInvoice, OnlyRealMoney, Recording, Refunding,
                      ReadsReal, ReadsAll, Standing, Live
  <2> QED BY <2>1, <2>2 DEF IInv
<1>4. StatusTells'
  <2>1. TypeOK /\ \A i \in Live : invoice[i].counted \in SUBSET Payments
    BY <1>1 DEF IInv, TypeOK, InvoiceRow, Live
  <2>2. ASSUME NEW i \in Invoices, invoice[i].live PROVE Tells(i)'
    BY <2>1, <2>2, <1>1, <1>2, TellsKept DEF StatusTells, Live
  <2> QED BY <2>2, <1>2 DEF StatusTells, Live
<1>5. BooksKept
  BY <1>2 DEF BooksKept, Live
<1>6. /\ clerk' \in [Clerks -> ClerkRow] /\ Holds(c)'
      /\ \A d \in Clerks : d # c => clerk'[d] = clerk[d]
  BY <1>1, <1>2, Answered
<1> QED BY <1>1, <1>2, <1>3, <1>4, <1>5, <1>6, AdmSplit

LEMMA LedgerInv ==
  ASSUME AdmInv, [FeeStep]_feeVars, UNCHANGED admVars
  PROVE  AdmInv'
<1>1. IInv' /\ StatusTells' /\ BooksKept /\ TypeOK /\ TypeOK'
  <2>1. IInv' /\ StatusTells' /\ BooksKept
    BY InvNext, StatusTellsNext, LedgerKeeps DEF AdmInv
  <2> QED BY <2>1 DEF IInv, AdmInv
<1>2. UNCHANGED <<app, students, clerk>>
  BY DEF admVars
<1>3. AdmTypeOK'
  <2>1. /\ app \in [Applications -> AppRow] /\ students \in SUBSET Students
        /\ clerk \in [Clerks -> ClerkRow]
    BY AdmTyped DEF AdmInv
  <2> QED BY <2>1, <1>1, <1>2, AdmTypedNext
<1>4. ASSUME NEW c \in Clerks PROVE Holds(c)'
  <2>1. Holds(c)
    BY DEF AdmInv
  <2> QED BY <2>1, <1>1, <1>2, HoldsKept
<1>5. ASSUME NEW a \in Applications PROVE RowHolds(a)'
  <2>1. RowHolds(a)
    BY DEF AdmInv
  <2> QED BY <2>1, <1>1, <1>2, RowKept
<1> QED BY <1>1, <1>3, <1>4, <1>5 DEF AdmInv

LEMMA AdmInvInit == AdmInit => AdmInv
<1> SUFFICES ASSUME AdmInit PROVE AdmInv
  OBVIOUS
<1>1. Init /\ IInv /\ TypeOK
  BY InvInit DEF AdmInit, IInv
<1>2. StatusTells
  BY <1>1 DEF Init, NoInvoice, StatusTells, Live
<1>3. AdmTypeOK
  BY <1>1, AdmTyped, AdmRowsTyped DEF AdmInit
<1>4. \A c \in Clerks : Holds(c)
  BY DEF AdmInit, IdleClerk, Holds
<1>5. \A a \in Applications : RowHolds(a)
  BY DEF AdmInit, NoApplication, RowHolds
<1> QED BY <1>1, <1>2, <1>3, <1>4, <1>5 DEF AdmInv

LEMMA AdmInvNext ==
  ASSUME AdmInv, [AdmissionStep \/ LedgerStep]_vars PROVE AdmInv'
<1>1. ASSUME NEW a \in Applications, CreateInquiry(a) \/ \E d \in Decisions : Decide(a, d)
      PROVE  AdmInv'
  BY <1>1, CreateInv
<1>2. ASSUME NEW c \in Clerks, NEW a \in Applications,
             EnrollRead(c, a) \/ \E s \in ToSet(StageOrder) : UpdateRead(c, a, s)
      PROVE  AdmInv'
  BY <1>2, EnrollReadInv, UpdateReadInv
<1>3. ASSUME NEW c \in Clerks,
             \/ GenerateAdmissionInvoice(c) \/ UpdateWrite(c)
             \/ EnrollCheckPaid(c) \/ EnrollCommit(c) \/ ClerkAbort(c)
      PROVE  AdmInv'
  BY <1>3, AdmissionInvoiceInv, WriteInv, CheckPaidInv, EnrollCommitInv, ClerkAbortInv
<1>4. CASE LedgerStep
  <2>1. students \in SUBSET Students
    BY AdmTyped DEF AdmInv
  <2> QED BY <2>1, <1>4, LedgerIsFees, LedgerInv
<1>5. CASE UNCHANGED vars
  BY <1>5, LedgerInv DEF vars
<1> QED BY <1>1, <1>2, <1>3, <1>4, <1>5 DEF AdmissionStep

-----------------------------------------------------------------------------
(* One request at a time                                                   *)

\* At most one request is in flight, on either side.
OneAtATime ==
  /\ Alone
  /\ \A c, d \in Clerks : clerk[c].pc # "idle" /\ clerk[d].pc # "idle" => c = d
  /\ ~ClerksIdle => Quiet

\* A refund in flight is of a payment that stands.
RefundedOnce ==
  /\ \A p \in Payments : refunds[p] = IF payment[p].refunded THEN 1 ELSE 0
  /\ \A p \in Payments : payment[p].refunded => payment[p].state = "live"
  /\ \A r \in Requests : req[r].pc \in {"refund", "refunding"}
                           => ~payment[req[r].payment].refunded

\* Students and enrolled applications correspond, and no request is at work on an
\* application that is enrolled.
EnrolledAs ==
  /\ \A a \in Applications : app[a].student # None =>
       app[a].student \in students /\ app[a].stage = "enrollment"
  /\ \A s \in students : \E a \in Applications : app[a].student = s
  /\ \A a, b \in Applications : app[a].student # None /\ app[a].student = app[b].student => a = b
  /\ \A c \in Clerks : clerk[c].pc # "idle" => app[clerk[c].app].student = None
  /\ \A c \in Clerks : clerk[c].pc \in {"paid?", "enroll"} => app[clerk[c].app].stage = "enrollment"

\* The invoices of an enrolled application are the student's.
HandedOver ==
  \A a \in Applications : app[a].student # None =>
    \A i \in InvoicesOf(a) : invoice[i].student = app[a].student

\* Undisturbed, a request moves its application by one stage, and invoices it once.
Advancing(c) ==
  /\ clerk[c].pc = "invoice" =>
       /\ app[clerk[c].app].stage = "acceptance" /\ clerk[c].invoice = None
       /\ InvoicesOf(clerk[c].app) = {}
  /\ clerk[c].pc = "write" /\ clerk[c].target = "fee_payment" =>
       /\ app[clerk[c].app].stage = "acceptance"
       /\ InvoicesOf(clerk[c].app) = {clerk[c].invoice}
  /\ clerk[c].pc = "write" /\ clerk[c].target # "fee_payment" =>
       StageIndex(clerk[c].target) = StageIndex(app[clerk[c].app].stage) + 1

DueInvoices(a) ==
  IF StageIndex(app[a].stage) < StageIndex("fee_payment") THEN {} ELSE {app[a].feeInvoice}

Invoicing(a) ==
  \E c \in Clerks : clerk[c].pc = "write" /\ clerk[c].target = "fee_payment" /\ clerk[c].app = a

OneInvoice ==
  crashes = 0 => /\ \A c \in Clerks : Advancing(c)
                 /\ \A a \in Applications : Invoicing(a) \/ InvoicesOf(a) = DueInvoices(a)

SerialInv ==
  OneAtATime /\ RefundedOnce /\ AllAccurate /\ EnrolledAs /\ HandedOver /\ OneInvoice


LEMMA RefundsNext ==
  ASSUME IInv, Alone, RefundedOnce, [FeeStep]_feeVars PROVE RefundedOnce'
<1> TypeOK
  BY DEF IInv
<1>1. CASE UNCHANGED <<payment, req, refunds>>
  BY <1>1 DEF RefundedOnce
<1>2. ASSUME NEW r \in Requests, NEW i \in Invoices, PayInsert(r, i) PROVE RefundedOnce'
  <2>1. PICK p \in Payments, amount \in Amounts :
        /\ payment[p].state = "free"
        /\ payment' = [payment EXCEPT ![p] =
             [NoPayment EXCEPT !.state = "uncommitted", !.invoice = i, !.amount = amount]]
        /\ req' = [req EXCEPT ![r] = [IdleReq EXCEPT !.pc = "paying", !.invoice = i,
                     !.payment = p, !.counted = Standing(i) \cup {p}]]
    BY <1>2 DEF PayInsert
  <2>2. /\ \A q \in Payments : IF q = p THEN ~payment'[q].refunded
                                        ELSE payment'[q] = payment[q]
        /\ \A q \in Requests : IF q = r THEN req'[q].pc = "paying" ELSE req'[q] = req[q]
    BY <2>1 DEF NoPayment, IdleReq, TypeOK
  <2>3. refunds[p] = 0 /\ UNCHANGED refunds
    BY <1>2, <2>1 DEF RefundedOnce, PayInsert
  <2>4. \A q \in Requests : req[q].pc \in {"refund", "refunding"} => req[q].payment \in Payments \ {p}
    BY <2>1 DEF IInv, InFlight, Refunding
  <2> QED BY <2>2, <2>3, <2>4 DEF RefundedOnce
<1>3. ASSUME NEW r \in Requests, NEW p \in Payments, RefundCheck(r, p) PROVE RefundedOnce'
  <2>1. \A q \in Requests : IF q = r THEN req'[q].payment = p ELSE req'[q] = req[q]
    BY <1>3 DEF RefundCheck, IdleReq, TypeOK
  <2> QED BY <1>3, <2>1 DEF RefundCheck, RefundedOnce
<1>4. ASSUME NEW r \in Requests, RefundUpdate(r) PROVE RefundedOnce'
  <2>1. req[r].pc = "refund" /\ UNCHANGED <<payment, refunds>>
    BY <1>4 DEF RefundUpdate
  <2>2. \A q \in Requests : /\ req'[q].payment = req[q].payment
                            /\ q # r => req'[q].pc = req[q].pc
    BY <1>4 DEF RefundUpdate, TypeOK, FeeRequest
  <2> QED BY <2>1, <2>2 DEF RefundedOnce
<1>5. ASSUME NEW r \in Requests, PayCommit(r) PROVE RefundedOnce'
  <2>1. PICK p \in Payments : p = req[r].payment /\ payment[p].state = "uncommitted"
    BY <1>5 DEF PayCommit, IInv, InFlight, Recording
  <2>2. \A q \in Payments : /\ payment'[q].refunded = payment[q].refunded
                            /\ payment[q].state = "live" => payment'[q].state = "live"
    BY <1>5, <2>1 DEF PayCommit, TypeOK, PaymentRow
  <2>3. /\ req'[r].pc = "idle"
        /\ \A q \in Requests \ {r} : req'[q].pc = req[q].pc /\ req'[q].payment = req[q].payment
    <3>1. Finish(r)
      BY <1>5 DEF PayCommit
    <3>2. /\ req'[r] = IdleReq
          /\ \A q \in Requests \ {r} : req'[q].pc = req[q].pc /\ req'[q].payment = req[q].payment
      BY <3>1, FinishMoves
    <3> QED BY <3>2 DEF IdleReq
  <2>4. \A q \in Requests : req[q].pc \in {"refund", "refunding"} => req[q].payment \in Payments
    BY DEF IInv, InFlight, Refunding
  <2>5. UNCHANGED refunds
    BY <1>5 DEF PayCommit
  <2> QED BY <2>2, <2>3, <2>4, <2>5 DEF RefundedOnce
<1>6. ASSUME NEW r \in Requests, RefundCommit(r) PROVE RefundedOnce'
  <2>1. PICK p \in Payments : p = req[r].payment /\ payment[p].state = "live"
    BY <1>6 DEF RefundCommit, IInv, InFlight, Refunding
  <2>2. req[r].pc = "refunding" /\ ~payment[p].refunded /\ refunds[p] = 0
    BY <1>6, <2>1 DEF RefundCommit, RefundedOnce
  <2>3. \A q \in Payments : /\ payment'[q].state = payment[q].state
                            /\ payment'[q].refunded <=> q = p \/ payment[q].refunded
                            /\ refunds'[q] = IF q = p THEN 1 ELSE refunds[q]
    BY <1>6, <2>1, <2>2 DEF RefundCommit, TypeOK, PaymentRow
  <2>4. \A q \in Requests : req'[q].pc = "idle"
    <3>0. Finish(r)
      BY <1>6 DEF RefundCommit
    <3>1. req'[r].pc = "idle"
      <4>1. req'[r] = IdleReq
        BY <3>0, FinishMoves
      <4> QED BY <4>1 DEF IdleReq
    <3>2. ASSUME NEW q \in Requests \ {r} PROVE req'[q].pc = "idle"
      <4>1. req[q].pc = "idle"
        BY <2>2 DEF Alone
      <4>2. req'[q].pc = req[q].pc
        BY <3>0, FinishMoves
      <4> QED BY <4>1, <4>2
    <3> QED BY <3>1, <3>2
  <2> QED BY <2>1, <2>3, <2>4 DEF RefundedOnce
<1>7. ASSUME NEW r \in Requests, Abort(r) PROVE RefundedOnce'
  <2>1. /\ \A q \in Requests : IF q = r THEN req'[q].pc = "idle" ELSE req'[q] = req[q]
        /\ UNCHANGED refunds
    BY <1>7 DEF Abort, IdleReq, TypeOK
  <2>2. ASSUME NEW q \in Payments
        PROVE  /\ payment'[q].refunded <=> payment[q].refunded
               /\ payment[q].state = "live" => payment'[q].state = "live"
    <3>1. CASE req[r].pc # "paying"
      BY <1>7, <3>1 DEF Abort
    <3>2. CASE req[r].pc = "paying"
      <4>1. PICK p \in Payments : /\ p = req[r].payment /\ payment[p].state = "uncommitted"
                                  /\ ~payment[p].refunded
        BY <3>2 DEF IInv, InFlight, Recording
      <4>2. payment' = [payment EXCEPT ![p] = NoPayment] /\ ~NoPayment.refunded
        BY <1>7, <3>2, <4>1 DEF Abort, NoPayment
      <4> QED BY <4>1, <4>2 DEF TypeOK
    <3> QED BY <3>1, <3>2
  <2>3. \A q \in Requests : req[q].pc \in {"refund", "refunding"} => req[q].payment \in Payments
    BY DEF IInv, InFlight, Refunding
  <2> QED BY <2>1, <2>2, <2>3 DEF RefundedOnce
<1>8. CASE \/ \E S \in SUBSET Students : S # {} /\ Generate(S)
           \/ \E i \in Invoices : FallDue(i)
           \/ UNCHANGED feeVars
  BY <1>1, <1>8 DEF Generate, FallDue, feeVars
<1> QED BY <1>2, <1>3, <1>4, <1>5, <1>6, <1>7, <1>8 DEF FeeStep

\* The ledger's own steps leave the admission invoices as they are.
OfApplications ==
  \A a \in Applications :
    /\ InvoicesOf(a)' = InvoicesOf(a)
    /\ \A i \in InvoicesOf(a) : invoice'[i].student = invoice[i].student

LEMMA LedgerOf == ASSUME IInv, [FeeStep]_feeVars PROVE OfApplications
<1> TypeOK
  BY DEF IInv
<1>0. ASSUME \A i \in Invoices : /\ invoice'[i].live = invoice[i].live
                                 /\ invoice'[i].application = invoice[i].application
                                 /\ invoice'[i].student = invoice[i].student
      PROVE  OfApplications
  BY <1>0 DEF OfApplications, InvoicesOf, Live
<1>1. ASSUME NEW S \in SUBSET Students, Generate(S) PROVE OfApplications
  <2>1. PICK ids \in SUBSET (Invoices \ Live) :
          \E owners \in [ids -> S], total \in Totals, overdue \in BOOLEAN :
            InsertInvoices(owners, total, overdue)
    BY <1>1 DEF Generate
  <2>2. PICK owners \in [ids -> S], total \in Totals, overdue \in BOOLEAN :
          InsertInvoices(owners, total, overdue)
    BY <2>1
  <2>3. ASSUME NEW i \in Invoices, i \in ids
        PROVE  invoice'[i].application = None /\ ~invoice[i].live
    <3>1. owners[i] \notin Applications /\ DOMAIN owners = ids
      BY <2>3, FeesAssumption
    <3>2. PICK o : o = owners[i]
      OBVIOUS
    <3>3. PICK st : st = InvoiceStatus(total, 0, overdue)
      OBVIOUS
    <3>4. PICK sid : sid = IF o \in Students THEN o ELSE None
      OBVIOUS
    <3>5. invoice'[i] = [NoInvoice EXCEPT !.live = TRUE, !.total = total, !.overdue = overdue,
              !.student = sid, !.application = None, !.status = st]
      BY <2>2, <2>3, <3>1, <3>2, <3>3, <3>4 DEF InsertInvoices
    <3>6. invoice'[i].application = None
      BY <3>5 DEF NoInvoice
    <3> QED BY <3>6, <2>3, <2>1 DEF Live
  <2>4. ASSUME NEW i \in Invoices, i \notin ids PROVE invoice'[i] = invoice[i]
    BY <2>2, <2>4 DEF InsertInvoices
  <2>5. None \notin Applications
    BY FeesAssumption
  <2>6. ASSUME NEW a \in Applications, NEW i \in Invoices
        PROVE  /\ invoice'[i].live /\ invoice'[i].application = a
                    <=> invoice[i].live /\ invoice[i].application = a
               /\ invoice[i].live => invoice'[i].student = invoice[i].student
    BY <2>3, <2>4, <2>5
  <2> QED BY <2>6 DEF OfApplications, InvoicesOf, Live
<1>2. ASSUME NEW i \in Invoices, FallDue(i) PROVE OfApplications
  BY <1>0, <1>2 DEF FallDue, TypeOK, InvoiceRow
<1>3. ASSUME NEW r \in Requests, PayCommit(r) \/ RefundCommit(r) PROVE OfApplications
  <2>1. WriteTotals(r) /\ req[r].invoice \in Invoices
    BY <1>3 DEF PayCommit, RefundCommit, IInv, InFlight, Recording, Refunding
  <2>2. PICK i \in Invoices : i = req[r].invoice
    BY <2>1
  <2>3. PICK st : invoice' = [invoice EXCEPT ![i].counted = req[r].counted, ![i].status = st]
    BY <2>1, <2>2 DEF WriteTotals
  <2>4. \A j \in Invoices : /\ invoice'[j].live = invoice[j].live
                            /\ invoice'[j].student = invoice[j].student
                            /\ invoice'[j].application = invoice[j].application
    BY <2>3 DEF TypeOK, InvoiceRow
  <2> QED BY <1>0, <2>4
<1>4. CASE UNCHANGED invoice
  BY <1>0, <1>4
<1>5. ASSUME NEW r \in Requests,
             \/ \E i \in Invoices : PayInsert(r, i)
             \/ \E p \in Payments : RefundCheck(r, p)
             \/ RefundUpdate(r) \/ Abort(r)
      PROVE  UNCHANGED invoice
  BY <1>5 DEF PayInsert, RefundCheck, RefundUpdate, Abort
<1> QED BY <1>1, <1>2, <1>3, <1>4, <1>5 DEF FeeStep, feeVars

LEMMA CrashesGrow ==
  ASSUME IInv, [FeeStep]_feeVars PROVE crashes' \in Nat /\ crashes <= crashes'
<1>1. crashes \in Nat
  BY DEF IInv, TypeOK
<1>2. ASSUME NEW r \in Requests, Abort(r) PROVE crashes' = crashes + 1
  BY <1>2 DEF Abort
<1>3. CASE UNCHANGED crashes
  BY <1>1, <1>3
<1>4. ASSUME NEW r \in Requests,
             \/ \E i \in Invoices : PayInsert(r, i)
             \/ \E p \in Payments : RefundCheck(r, p)
             \/ PayCommit(r) \/ RefundUpdate(r) \/ RefundCommit(r)
      PROVE  UNCHANGED crashes
  BY <1>4 DEF PayInsert, RefundCheck, PayCommit, RefundUpdate, RefundCommit
<1>5. ASSUME NEW S \in SUBSET Students, Generate(S) PROVE UNCHANGED crashes
  BY <1>5 DEF Generate
<1>6. ASSUME NEW i \in Invoices, FallDue(i) PROVE UNCHANGED crashes
  BY <1>6 DEF FallDue
<1>7. (\E r \in Requests : Abort(r)) \/ UNCHANGED crashes
  BY <1>4, <1>5, <1>6 DEF FeeStep, feeVars
<1> QED BY <1>1, <1>2, <1>3, <1>7

\* Steps that leave the pipeline's rows and requests alone.
LEMMA PipelineStill ==
  ASSUME EnrolledAs, HandedOver, OneInvoice, OfApplications,
         \A c \in Clerks : clerk[c].pc # "idle" => clerk[c].app \in Applications,
         UNCHANGED <<students, clerk>>, crashes' = 0 => crashes = 0,
         \A a \in Applications : /\ app'[a].student = app[a].student
                                 /\ app'[a].stage = app[a].stage
                                 /\ app'[a].feeInvoice = app[a].feeInvoice
  PROVE  EnrolledAs' /\ HandedOver' /\ OneInvoice'
<1>1. EnrolledAs'
  BY DEF EnrolledAs
<1>2. HandedOver'
  BY DEF HandedOver, OfApplications
<1>3. ASSUME NEW c \in Clerks, Advancing(c) PROVE Advancing(c)'
  <2>1. PICK k : k = clerk[c] /\ k = clerk'[c]
    OBVIOUS
  <2>2. PICK a : a = k.app
    OBVIOUS
  <2>3. InvoicesOf(clerk[c].app)' = InvoicesOf(a)'
    BY <2>1, <2>2 DEF InvoicesOf
  <2>4. k.pc # "idle" => InvoicesOf(a)' = InvoicesOf(a) /\ app'[a].stage = app[a].stage
    BY <2>1, <2>2 DEF OfApplications
  <2> QED BY <1>3, <2>1, <2>2, <2>3, <2>4 DEF Advancing
<1>4. ASSUME NEW a \in Applications, Invoicing(a) \/ InvoicesOf(a) = DueInvoices(a)
      PROVE  (Invoicing(a) \/ InvoicesOf(a) = DueInvoices(a))'
  BY <1>4 DEF Invoicing, DueInvoices, OfApplications
<1> QED BY <1>1, <1>2, <1>3, <1>4 DEF OneInvoice

LEMMA LedgerSerial ==
  ASSUME ~Overlap, AdmInv, SerialInv, ClerksIdle, [FeeStep]_feeVars, UNCHANGED admVars
  PROVE  SerialInv'
<1>1. IInv /\ Alone /\ \A c \in Clerks : Holds(c)
  BY DEF AdmInv, SerialInv, OneAtATime
<1>2. UNCHANGED <<app, students, clerk>>
  BY DEF admVars
<1>3. Alone' /\ RefundedOnce' /\ AllAccurate'
  BY <1>1, AloneNext, RefundsNext, AccurateNext DEF SerialInv
<1>4. OneAtATime'
  BY <1>2, <1>3 DEF OneAtATime, ClerksIdle
<1>5. OfApplications /\ (crashes' = 0 => crashes = 0)
  <2>1. crashes \in Nat
    BY <1>1 DEF IInv, TypeOK
  <2> QED BY <2>1, <1>1, LedgerOf, CrashesGrow
<1>6. EnrolledAs' /\ HandedOver' /\ OneInvoice'
  BY <1>1, <1>2, <1>5, PipelineStill DEF SerialInv, Holds
<1> QED BY <1>3, <1>4, <1>6 DEF SerialInv

\* A step of one request, started alone: the others are idle before and after.
LEMMA OneMoves ==
  ASSUME ~Overlap, SerialInv, NEW c \in Clerks, Starts(c) \/ clerk[c].pc # "idle",
         UNCHANGED <<payment, req, refunds>>, \A d \in Clerks : d # c => clerk'[d] = clerk[d]
  PROVE  /\ OneAtATime' /\ RefundedOnce'
         /\ \A d \in Clerks : d # c => clerk[d].pc = "idle" /\ clerk'[d].pc = "idle"
<1>1. Quiet /\ \A d \in Clerks : d # c => clerk[d].pc = "idle"
  BY DEF Starts, ClerksIdle, SerialInv, OneAtATime
<1>2. \A d \in Clerks : d # c => clerk'[d].pc = "idle"
  BY <1>1
<1>3. Alone' /\ Quiet'
  BY <1>1 DEF Alone, Quiet
<1>4. OneAtATime'
  BY <1>2, <1>3 DEF OneAtATime
<1>5. RefundedOnce'
  BY DEF SerialInv, RefundedOnce
<1> QED BY <1>1, <1>2, <1>4, <1>5

\* What such a step must show of the one request and of the applications.
LEMMA SerialSplit ==
  ASSUME ~Overlap, SerialInv, NEW c \in Clerks, Starts(c) \/ clerk[c].pc # "idle",
         UNCHANGED <<payment, req, refunds>>, \A d \in Clerks : d # c => clerk'[d] = clerk[d],
         AllAccurate', HandedOver',
         \A a \in Applications : app'[a].student # None =>
           app'[a].student \in students' /\ app'[a].stage = "enrollment",
         \A s \in students' : \E a \in Applications : app'[a].student = s,
         \A a, b \in Applications :
           app'[a].student # None /\ app'[a].student = app'[b].student => a = b,
         clerk'[c].pc # "idle" => app'[clerk'[c].app].student = None,
         clerk'[c].pc \in {"paid?", "enroll"} => app'[clerk'[c].app].stage = "enrollment",
         crashes' = 0 => /\ Advancing(c)'
                         /\ \A a \in Applications : Invoicing(a)' \/ (InvoicesOf(a) = DueInvoices(a))'
  PROVE  SerialInv'
<1>1. /\ OneAtATime' /\ RefundedOnce'
      /\ \A d \in Clerks : d # c => clerk[d].pc = "idle" /\ clerk'[d].pc = "idle"
  BY OneMoves
<1>2. EnrolledAs'
  BY <1>1 DEF EnrolledAs
<1>3. OneInvoice'
  BY <1>1 DEF OneInvoice, Advancing
<1> QED BY <1>1, <1>2, <1>3 DEF SerialInv

\* A step that changes no row at all.
LEMMA RowsStill ==
  ASSUME SerialInv, UNCHANGED <<app, students, feeVars>>
  PROVE  /\ AllAccurate' /\ HandedOver'
         /\ UNCHANGED <<payment, req, refunds, crashes, app, students>>
         /\ \A a : InvoicesOf(a)' = InvoicesOf(a)
         /\ \A a \in Applications : DueInvoices(a)' = DueInvoices(a)
         /\ \A a \in Applications : app'[a].student # None =>
              app'[a].student \in students' /\ app'[a].stage = "enrollment"
         /\ \A s \in students' : \E a \in Applications : app'[a].student = s
         /\ \A a, b \in Applications :
              app'[a].student # None /\ app'[a].student = app'[b].student => a = b
<1>1. UNCHANGED <<invoice, payment, req, refunds, crashes, app, students>>
  BY DEF feeVars
<1>2. AllAccurate' /\ HandedOver' /\ \A a : InvoicesOf(a)' = InvoicesOf(a)
  BY <1>1 DEF SerialInv, AllAccurate, Accurate, Standing, HandedOver, InvoicesOf, Live
<1>3. \A a \in Applications : DueInvoices(a)' = DueInvoices(a)
  BY <1>1 DEF DueInvoices
<1>4. /\ \A a \in Applications : app'[a].student # None =>
           app'[a].student \in students' /\ app'[a].stage = "enrollment"
      /\ \A s \in students' : \E a \in Applications : app'[a].student = s
      /\ \A a, b \in Applications :
           app'[a].student # None /\ app'[a].student = app'[b].student => a = b
  BY <1>1 DEF SerialInv, EnrolledAs
<1> QED BY <1>1, <1>2, <1>3, <1>4

LEMMA CreateSerial ==
  ASSUME AdmInv, SerialInv, NEW a \in Applications,
         CreateInquiry(a) \/ \E d \in Decisions : Decide(a, d)
  PROVE  SerialInv'
<1>1. app \in [Applications -> AppRow] /\ \A c \in Clerks : Holds(c)
  BY AdmTyped DEF AdmInv
<1>2. UNCHANGED <<students, clerk, invoice, payment, req, refunds, crashes>>
  BY DEF CreateInquiry, Decide, feeVars
<1>3. \A b \in Applications : /\ app'[b].student = app[b].student
                              /\ app'[b].stage = app[b].stage
                              /\ app'[b].feeInvoice = app[b].feeInvoice
  <2>1. CASE CreateInquiry(a)
    BY <2>1, <1>1 DEF CreateInquiry, AppRow
  <2>2. ASSUME NEW d \in Decisions, Decide(a, d)
        PROVE  \A b \in Applications : /\ app'[b].student = app[b].student
                                       /\ app'[b].stage = app[b].stage
                                       /\ app'[b].feeInvoice = app[b].feeInvoice
    BY <2>2, <1>1 DEF Decide, AppRow
  <2> QED BY <2>1, <2>2
<1>4. OfApplications /\ (crashes' = 0 => crashes = 0)
  BY <1>2 DEF OfApplications, InvoicesOf, Live
<1>5. EnrolledAs' /\ HandedOver' /\ OneInvoice'
  BY <1>1, <1>2, <1>3, <1>4, PipelineStill DEF SerialInv, Holds
<1>6. OneAtATime' /\ RefundedOnce' /\ AllAccurate'
  BY <1>2 DEF SerialInv, OneAtATime, Alone, Quiet, ClerksIdle, RefundedOnce, AllAccurate,
              Accurate, Standing, Live
<1> QED BY <1>5, <1>6 DEF SerialInv

LEMMA UpdateReadSerial ==
  ASSUME ~Overlap, AdmInv, SerialInv, NEW c \in Clerks, NEW a \in Applications,
         NEW target \in ToSet(StageOrder), UpdateRead(c, a, target)
  PROVE  SerialInv'
<1>1. app \in [Applications -> AppRow] /\ clerk \in [Clerks -> ClerkRow] /\ RowHolds(a)
  BY AdmTyped DEF AdmInv
<1>2. UNCHANGED <<app, students, feeVars>> /\ Starts(c) /\ ClerksIdle /\ Allowed(app[a], target)
  BY DEF UpdateRead, Starts
<1>3. PICK k : k = [pc |-> IF target = "fee_payment" THEN "invoice" ELSE "write",
                    app |-> a, target |-> target, invoice |-> app[a].feeInvoice]
  OBVIOUS
<1>4. clerk' = [clerk EXCEPT ![c] = k]
  BY <1>3 DEF UpdateRead
<1>5. clerk'[c] = k /\ \A d \in Clerks : d # c => clerk'[d] = clerk[d]
  BY <1>1, <1>4
<1>6. /\ k.pc = IF target = "fee_payment" THEN "invoice" ELSE "write"
      /\ k.app = a /\ k.target = target /\ k.invoice = app[a].feeInvoice
  BY <1>3
<1>7. PICK s \in ToSet(StageOrder) : s = app[a].stage
  BY <1>1 DEF AppRow
<1>8. StageIndex(target) = StageIndex(s) + 1
  BY <1>2, <1>7 DEF Allowed
<1>9. s # "enrollment" /\ (target = "fee_payment" => s = "acceptance")
  <2>1. /\ StageIndex(s) \in 1..9 /\ StageIndex(target) \in 1..9
        /\ StageOrder[StageIndex(s)] = s
        /\ StageIndex("fee_payment") = 8 /\ StageIndex("enrollment") = 9
    BY StagePlaces
  <2>2. s # "enrollment" /\ (target = "fee_payment" => StageIndex(s) = 7)
    BY <1>8, <2>1
  <2>3. StageOrder[7] = "acceptance"
    BY StagePlaces
  <2> QED BY <2>1, <2>2, <2>3
<1>10. app[a].student = None
  BY <1>7, <1>9 DEF SerialInv, EnrolledAs
<1>11. ASSUME crashes = 0
       PROVE  /\ \A b \in Applications : InvoicesOf(b) = DueInvoices(b)
              /\ Advancing(c)'
  <2>1. ASSUME NEW b \in Applications PROVE InvoicesOf(b) = DueInvoices(b)
    <3>1. ~Invoicing(b)
      BY <1>2 DEF ClerksIdle, Invoicing
    <3> QED BY <3>1, <1>11 DEF SerialInv, OneInvoice
  <2>2. InvoicesOf(clerk[c].app)' = InvoicesOf(a)
    BY <1>2, <1>5, <1>6 DEF InvoicesOf, Live, feeVars
  <2>3. ASSUME target = "fee_payment" PROVE InvoicesOf(a) = {} /\ app[a].feeInvoice = None
    <3>1. StageIndex(app[a].stage) = 7 /\ StageIndex("fee_payment") = 8
      BY <2>3, <1>7, <1>9, StagePlaces
    <3>2. InvoicesOf(a) = {}
      BY <2>1, <3>1 DEF DueInvoices
    <3> QED BY <3>2, <1>1 DEF RowHolds
  <2>4. app' = app
    BY <1>2
  <2> QED BY <2>1, <2>2, <2>3, <2>4, <1>5, <1>6, <1>7, <1>8, <1>9 DEF Advancing
<1> QED BY <1>2, <1>5, <1>6, <1>10, <1>11, RowsStill, SerialSplit

LEMMA EnrollReadSerial ==
  ASSUME ~Overlap, AdmInv, SerialInv, NEW c \in Clerks, NEW a \in Applications, EnrollRead(c, a)
  PROVE  SerialInv'
<1>1. clerk \in [Clerks -> ClerkRow]
  BY AdmTyped DEF AdmInv
<1>2. /\ UNCHANGED <<app, students, feeVars>> /\ Starts(c) /\ ClerksIdle
      /\ app[a].student = None /\ app[a].stage = "enrollment"
  BY DEF EnrollRead, Starts
<1>3. PICK k : k = [IdleClerk EXCEPT !.pc = "paid?", !.app = a, !.invoice = app[a].feeInvoice]
  OBVIOUS
<1>4. clerk' = [clerk EXCEPT ![c] = k]
  BY <1>3 DEF EnrollRead
<1>5. clerk'[c] = k /\ \A d \in Clerks : d # c => clerk'[d] = clerk[d]
  BY <1>1, <1>4
<1>6. k.pc = "paid?" /\ k.app = a
  BY <1>3 DEF IdleClerk
<1>7. Advancing(c)'
  BY <1>5, <1>6 DEF Advancing
<1>8. ASSUME crashes = 0, NEW b \in Applications PROVE InvoicesOf(b) = DueInvoices(b)
  <2>1. ~Invoicing(b)
    BY <1>2 DEF ClerksIdle, Invoicing
  <2> QED BY <2>1, <1>8 DEF SerialInv, OneInvoice
<1> QED BY <1>2, <1>5, <1>6, <1>7, <1>8, RowsStill, SerialSplit

\* A request that is not about to write an invoice leaves its trace nowhere.
LEMMA NotInvoicing ==
  ASSUME SerialInv, NEW c \in Clerks, clerk[c].pc # "idle", crashes = 0, NEW a \in Applications,
         ~(clerk[c].pc = "write" /\ clerk[c].target = "fee_payment" /\ clerk[c].app = a)
  PROVE  InvoicesOf(a) = DueInvoices(a)
<1>1. ~Invoicing(a)
  BY DEF SerialInv, OneAtATime, Invoicing
<1> QED BY <1>1 DEF SerialInv, OneInvoice

LEMMA CheckPaidSerial ==
  ASSUME ~Overlap, AdmInv, SerialInv, NEW c \in Clerks, EnrollCheckPaid(c)
  PROVE  SerialInv'
<1>1. clerk \in [Clerks -> ClerkRow]
  BY AdmTyped DEF AdmInv
<1>2. UNCHANGED <<app, students, feeVars>> /\ clerk[c].pc = "paid?"
  BY DEF EnrollCheckPaid
<1>3. /\ \/ clerk'[c].pc = "idle"
         \/ clerk'[c].pc = "enroll" /\ clerk'[c].app = clerk[c].app
      /\ \A d \in Clerks : d # c => clerk'[d] = clerk[d]
  <2>1. CASE invoice[clerk[c].invoice].status = "paid"
    <3>1. clerk' = [clerk EXCEPT ![c].pc = "enroll"]
      BY <2>1 DEF EnrollCheckPaid
    <3> QED BY <1>1, <3>1 DEF ClerkRow
  <2>2. CASE invoice[clerk[c].invoice].status # "paid"
    <3>1. clerk' = [clerk EXCEPT ![c] = IdleClerk]
      BY <2>2 DEF EnrollCheckPaid, Answer
    <3>2. clerk'[c] = IdleClerk /\ \A d \in Clerks : d # c => clerk'[d] = clerk[d]
      BY <1>1, <3>1
    <3>3. clerk'[c].pc = "idle"
      BY <3>2 DEF IdleClerk
    <3> QED BY <3>2, <3>3
  <2> QED BY <2>1, <2>2
<1>4. app[clerk[c].app].student = None /\ app[clerk[c].app].stage = "enrollment"
  BY <1>2 DEF SerialInv, EnrolledAs
<1>5. Advancing(c)'
  <2>1. clerk'[c].pc \notin {"invoice", "write"}
    BY <1>3
  <2> QED BY <2>1 DEF Advancing
<1>6. ASSUME crashes = 0, NEW b \in Applications PROVE InvoicesOf(b) = DueInvoices(b)
  BY <1>2, <1>6, NotInvoicing
<1> QED BY <1>2, <1>3, <1>4, <1>5, <1>6, RowsStill, SerialSplit

LEMMA AbortSerial ==
  ASSUME ~Overlap, AdmInv, SerialInv, NEW c \in Clerks, ClerkAbort(c)
  PROVE  SerialInv'
<1>1. clerk \in [Clerks -> ClerkRow] /\ crashes \in Nat
  BY AdmTyped DEF AdmInv, IInv, TypeOK
<1>2. /\ UNCHANGED <<app, students, invoice, payment, req, refunds>> /\ clerk[c].pc # "idle"
      /\ crashes' = crashes + 1
  BY DEF ClerkAbort
<1>3. crashes' # 0
  BY <1>1, <1>2
<1>4. clerk'[c].pc = "idle" /\ \A d \in Clerks : d # c => clerk'[d] = clerk[d]
  BY <1>1 DEF ClerkAbort, Answer, IdleClerk
<1>5. AllAccurate' /\ HandedOver'
  BY <1>2 DEF SerialInv, AllAccurate, Accurate, Standing, HandedOver, InvoicesOf, Live
<1>6. /\ \A a \in Applications : app'[a].student # None =>
           app'[a].student \in students' /\ app'[a].stage = "enrollment"
      /\ \A s \in students' : \E a \in Applications : app'[a].student = s
      /\ \A a, b \in Applications :
           app'[a].student # None /\ app'[a].student = app'[b].student => a = b
  BY <1>2 DEF SerialInv, EnrolledAs
<1> QED BY <1>2, <1>3, <1>4, <1>5, <1>6, SerialSplit

LEMMA WriteSerial ==
  ASSUME ~Overlap, AdmInv, SerialInv, NEW c \in Clerks, UpdateWrite(c)
  PROVE  SerialInv'
<1>1. app \in [Applications -> AppRow] /\ clerk \in [Clerks -> ClerkRow] /\ Holds(c)
  BY AdmTyped DEF AdmInv
<1>2. UNCHANGED <<students, feeVars>> /\ clerk[c].pc = "write" /\ Answer(c)
  BY DEF UpdateWrite
<1>3. PICK a \in Applications : a = clerk[c].app
  BY <1>1, <1>2 DEF Holds
<1>4. PICK s \in ToSet(StageOrder) : s = clerk[c].target
  BY <1>1 DEF ClerkRow
<1>5. PICK i : i = IF s = "fee_payment" THEN clerk[c].invoice ELSE app[a].feeInvoice
  OBVIOUS
<1>6. app' = [app EXCEPT ![a].stage = s, ![a].feeInvoice = i]
  BY <1>1, <1>3, <1>4, <1>5 DEF UpdateWrite, AppRow
<1>7. /\ \A b \in Applications : app'[b].student = app[b].student
      /\ \A b \in Applications : b # a => app'[b] = app[b]
      /\ app'[a].stage = s /\ app'[a].feeInvoice = i
  BY <1>1, <1>6 DEF AppRow
<1>8. clerk'[c].pc = "idle" /\ \A d \in Clerks : d # c => clerk'[d] = clerk[d]
  BY <1>1, <1>2 DEF Answer, IdleClerk
<1>9. app[a].student = None /\ UNCHANGED <<students, invoice, payment, req, refunds, crashes>>
  BY <1>2, <1>3 DEF SerialInv, EnrolledAs, feeVars
<1>10. AllAccurate' /\ HandedOver'
  BY <1>7, <1>9 DEF SerialInv, AllAccurate, Accurate, Standing, HandedOver, InvoicesOf, Live
<1>11. /\ \A b \in Applications : app'[b].student # None =>
            app'[b].student \in students' /\ app'[b].stage = "enrollment"
       /\ \A t \in students' : \E b \in Applications : app'[b].student = t
       /\ \A b, d \in Applications :
            app'[b].student # None /\ app'[b].student = app'[d].student => b = d
  BY <1>7, <1>9 DEF SerialInv, EnrolledAs
<1>12. ASSUME crashes = 0, NEW b \in Applications PROVE (InvoicesOf(b) = DueInvoices(b))'
  <2>1. InvoicesOf(b)' = InvoicesOf(b)
    BY <1>9 DEF InvoicesOf, Live
  <2>2. CASE b # a
    <3>1. InvoicesOf(b) = DueInvoices(b)
      BY <1>2, <1>3, <1>12, <2>2, NotInvoicing
    <3>2. DueInvoices(b)' = DueInvoices(b)
      BY <1>7, <2>2 DEF DueInvoices
    <3> QED BY <2>1, <3>1, <3>2
  <2>3. CASE b = a /\ s = "fee_payment"
    <3>1. InvoicesOf(a) = {i}
      BY <1>2, <1>3, <1>4, <1>5, <1>12, <2>3 DEF SerialInv, OneInvoice, Advancing
    <3>2. DueInvoices(a)' = {i}
      BY <1>7, <2>3, StagePlaces DEF DueInvoices
    <3> QED BY <2>1, <2>3, <3>1, <3>2
  <2>4. CASE b = a /\ s # "fee_payment"
    <3>1. InvoicesOf(a) = DueInvoices(a)
      BY <1>2, <1>3, <1>4, <1>12, <2>4, NotInvoicing
    <3>2. PICK t \in ToSet(StageOrder) : t = app[a].stage
      BY <1>1 DEF AppRow
    <3>3. StageIndex(s) = StageIndex(t) + 1
      BY <1>2, <1>3, <1>4, <1>12, <2>4, <3>2 DEF SerialInv, OneInvoice, Advancing
    <3>4. StageIndex(s) < StageIndex("fee_payment") <=> StageIndex(t) < StageIndex("fee_payment")
      <4>1. /\ StageIndex(s) \in 1..9 /\ StageIndex(t) \in 1..9
            /\ StageOrder[StageIndex(s)] = s /\ StageIndex("fee_payment") = 8
            /\ StageOrder[StageIndex("fee_payment")] = "fee_payment"
        BY StagePlaces
      <4>2. StageIndex(s) # 8
        BY <2>4, <4>1
      <4> QED BY <3>3, <4>1, <4>2
    <3>5. DueInvoices(a)' = DueInvoices(a)
      BY <1>5, <1>7, <2>4, <3>2, <3>4 DEF DueInvoices
    <3> QED BY <2>1, <2>4, <3>1, <3>5
  <2> QED BY <2>2, <2>3, <2>4
<1>13. Advancing(c)'
  BY <1>8 DEF Advancing
<1> QED BY <1>2, <1>8, <1>9, <1>10, <1>11, <1>12, <1>13, SerialSplit

LEMMA AdmissionInvoiceSerial ==
  ASSUME ~Overlap, AdmInv, SerialInv, NEW c \in Clerks, GenerateAdmissionInvoice(c)
  PROVE  SerialInv'
<1>1. clerk \in [Clerks -> ClerkRow] /\ Holds(c) /\ IInv /\ StatusTells
  BY AdmTyped DEF AdmInv
<1>2. /\ UNCHANGED <<app, students, payment, req, refunds, crashes>>
      /\ clerk[c].pc = "invoice" /\ clerk[c].target = "fee_payment"
  BY <1>1 DEF GenerateAdmissionInvoice, Holds
<1>3. PICK a \in Applications : a = clerk[c].app
  BY <1>1, <1>2 DEF Holds
<1>4. app[a].student = None
  BY <1>2, <1>3 DEF SerialInv, EnrolledAs
<1>5. /\ \A b \in Applications : app'[b].student # None =>
           app'[b].student \in students' /\ app'[b].stage = "enrollment"
      /\ \A t \in students' : \E b \in Applications : app'[b].student = t
      /\ \A b, d \in Applications :
           app'[b].student # None /\ app'[b].student = app'[d].student => b = d
  BY <1>2 DEF SerialInv, EnrolledAs
<1>6. ASSUME crashes = 0
      PROVE  /\ app[a].stage = "acceptance" /\ clerk[c].invoice = None /\ InvoicesOf(a) = {}
             /\ \A b \in Applications : InvoicesOf(b) = DueInvoices(b)
  <2>1. Advancing(c)
    BY <1>6 DEF SerialInv, OneInvoice
  <2>2. \A b \in Applications : InvoicesOf(b) = DueInvoices(b)
    BY <1>2, <1>6, NotInvoicing
  <2> QED BY <1>2, <1>3, <2>1, <2>2 DEF Advancing
<1>7. CASE clerk[c].invoice # None /\ clerk' = [clerk EXCEPT ![c].pc = "write"] /\ UNCHANGED invoice
  <2>1. UNCHANGED feeVars /\ crashes # 0
    BY <1>2, <1>6, <1>7 DEF feeVars
  <2>2. /\ clerk'[c].pc = "write" /\ clerk'[c].app = a
        /\ \A d \in Clerks : d # c => clerk'[d] = clerk[d]
    BY <1>1, <1>3, <1>7 DEF ClerkRow
  <2>3. crashes' # 0
    BY <1>2, <2>1
  <2> QED BY <1>2, <1>4, <2>1, <2>2, <2>3, RowsStill, SerialSplit
<1>8. CASE \E i \in Invoices \ Live, total \in Totals :
             /\ InsertInvoices([j \in {i} |-> clerk[c].app], total, TRUE)
             /\ clerk' = [clerk EXCEPT ![c].pc = "write", ![c].invoice = i]
  <2>1. PICK i \in Invoices \ Live, total \in Totals :
             /\ InsertInvoices([j \in {i} |-> a], total, TRUE)
             /\ clerk' = [clerk EXCEPT ![c].pc = "write", ![c].invoice = i]
    BY <1>3, <1>8
  <2>2. /\ \A j \in Invoices : j # i => invoice'[j] = invoice[j]
        /\ invoice'[i].live /\ invoice'[i].application = a /\ invoice'[i].counted = {}
        /\ ~invoice[i].live
    <3>1. /\ \A j \in Invoices : j # i => invoice'[j] = invoice[j]
          /\ invoice'[i].live /\ invoice'[i].application = a /\ invoice'[i].counted = {}
      BY <1>1, <1>2, <2>1, AdmissionInvoiced
    <3>2. ~invoice[i].live
      BY <2>1 DEF Live
    <3> QED BY <3>1, <3>2
  <2>3. /\ clerk'[c].pc = "write" /\ clerk'[c].app = a /\ clerk'[c].target = "fee_payment"
        /\ clerk'[c].invoice = i /\ \A d \in Clerks : d # c => clerk'[d] = clerk[d]
    BY <1>1, <1>2, <1>3, <2>1 DEF ClerkRow
  <2>4. InvoicesOf(a)' = InvoicesOf(a) \cup {i}
    <3>1. i \in Invoices
      BY <2>1
    <3> QED BY <3>1, <2>2 DEF InvoicesOf, Live
  <2>5. ASSUME NEW b \in Applications, b # a PROVE InvoicesOf(b)' = InvoicesOf(b)
    BY <2>1, <2>2, <2>5 DEF InvoicesOf, Live
  <2>6. AllAccurate'
    <3>1. \A j : Standing(j)' = Standing(j)
      BY <1>2 DEF Standing
    <3>2. Standing(i) = {}
      <4>1. ASSUME NEW p \in Payments, payment[p].state = "live" PROVE payment[p].invoice # i
        BY <1>1, <2>2, <4>1 DEF IInv, OnInvoice
      <4> QED BY <4>1 DEF Standing
    <3>3. ASSUME NEW j \in Invoices, invoice'[j].live PROVE invoice'[j].counted = Standing(j)'
      <4>1. CASE j = i
        BY <4>1, <3>1, <3>2, <2>2
      <4>2. CASE j # i
        BY <4>2, <3>1, <3>3, <2>2 DEF SerialInv, AllAccurate, Accurate, Live
      <4> QED BY <4>1, <4>2
    <3> QED BY <3>3 DEF AllAccurate, Accurate, Live
  <2>7. HandedOver'
    <3>1. ASSUME NEW b \in Applications, app[b].student # None, NEW j \in InvoicesOf(b)'
          PROVE  invoice'[j].student = app[b].student
      <4>1. b # a /\ j \in InvoicesOf(b) /\ j # i
        BY <1>4, <2>2, <2>5, <3>1 DEF InvoicesOf, Live
      <4> QED BY <3>1, <4>1, <2>2 DEF SerialInv, HandedOver, InvoicesOf, Live
    <3>2. app' = app
      BY <1>2
    <3> QED BY <3>1, <3>2 DEF HandedOver
  <2>8. ASSUME crashes = 0
        PROVE  /\ Advancing(c)'
               /\ \A b \in Applications : Invoicing(b)' \/ (InvoicesOf(b) = DueInvoices(b))'
    <3>1. InvoicesOf(clerk[c].app)' = InvoicesOf(a)'
      BY <2>3 DEF InvoicesOf
    <3>2. Advancing(c)'
      BY <1>2, <1>6, <2>3, <2>4, <2>8, <3>1 DEF Advancing
    <3>3. Invoicing(a)'
      BY <2>3 DEF Invoicing
    <3>4. ASSUME NEW b \in Applications, b # a PROVE (InvoicesOf(b) = DueInvoices(b))'
      BY <1>2, <1>6, <2>5, <2>8, <3>4 DEF DueInvoices
    <3> QED BY <3>2, <3>3, <3>4
  <2> QED BY <1>2, <1>4, <1>5, <2>3, <2>6, <2>7, <2>8, SerialSplit
<1> QED BY <1>7, <1>8 DEF GenerateAdmissionInvoice

LEMMA EnrollCommitSerial ==
  ASSUME ~Overlap, AdmInv, SerialInv, NEW c \in Clerks, EnrollCommit(c)
  PROVE  SerialInv'
<1>1. /\ app \in [Applications -> AppRow] /\ students \in SUBSET Students
      /\ clerk \in [Clerks -> ClerkRow] /\ Holds(c) /\ IInv /\ StatusTells
  BY AdmTyped DEF AdmInv
<1>2. UNCHANGED <<payment, req, refunds, crashes>> /\ clerk[c].pc = "enroll" /\ Answer(c)
  BY DEF EnrollCommit
<1>3. PICK a \in Applications : a = clerk[c].app
  BY <1>1, <1>2 DEF Holds
<1>4. PICK s \in Students \ students :
       /\ students' = students \cup {s}
       /\ app' = [app EXCEPT ![a].student = s]
       /\ Reconcile(a, s)
  BY <1>3 DEF EnrollCommit
<1>5. \A i \in Invoices :
        /\ invoice'[i].live = invoice[i].live
        /\ invoice'[i].application = invoice[i].application
        /\ invoice'[i].counted = invoice[i].counted
        /\ invoice'[i].student = IF invoice[i].live /\ invoice[i].application = a
                                   THEN s ELSE invoice[i].student
  BY <1>1, <1>2, <1>4, ReconcileKeeps
<1>6. /\ app'[a].student = s /\ \A b \in Applications : b # a => app'[b] = app[b]
      /\ app'[a].stage = app[a].stage /\ app'[a].feeInvoice = app[a].feeInvoice
  BY <1>1, <1>4 DEF AppRow
<1>7. app[a].stage = "enrollment" /\ s # None
  BY <1>2, <1>3, FeesAssumption DEF SerialInv, EnrolledAs
<1>8. /\ \A b \in Applications : app'[b].student # None =>
           app'[b].student \in students' /\ app'[b].stage = "enrollment"
      /\ \A t \in students' : \E b \in Applications : app'[b].student = t
  <2>1. app[a].student = None
    BY <1>2, <1>3 DEF SerialInv, EnrolledAs
  <2>2. \A t \in students : \E b \in Applications : b # a /\ app[b].student = t
    <3>1. None \notin students
      BY <1>1, FeesAssumption
    <3> QED BY <2>1, <3>1 DEF SerialInv, EnrolledAs
  <2> QED BY <1>4, <1>6, <1>7, <2>2 DEF SerialInv, EnrolledAs
<1>9. \A b, d \in Applications :
        app'[b].student # None /\ app'[b].student = app'[d].student => b = d
  <2>1. \A b \in Applications : b # a /\ app[b].student # None => app[b].student # s
    BY <1>4 DEF SerialInv, EnrolledAs
  <2> QED BY <1>6, <1>7, <2>1 DEF SerialInv, EnrolledAs
<1>10. /\ clerk'[c].pc = "idle" /\ \A d \in Clerks : d # c => clerk'[d] = clerk[d]
  BY <1>1, <1>2 DEF Answer, IdleClerk
<1>11. AllAccurate'
  BY <1>2, <1>5 DEF SerialInv, AllAccurate, Accurate, Standing, Live
<1>12. \A b \in Applications : InvoicesOf(b)' = InvoicesOf(b)
  BY <1>5 DEF InvoicesOf, Live
<1>13. HandedOver'
  <2> SUFFICES ASSUME NEW b \in Applications, app'[b].student # None, NEW j \in InvoicesOf(b)
               PROVE  invoice'[j].student = app'[b].student
    BY <1>12 DEF HandedOver
  <2>1. j \in Invoices /\ invoice[j].live /\ invoice[j].application = b
    BY DEF InvoicesOf, Live
  <2>2. CASE b = a
    BY <2>1, <2>2, <1>5, <1>6
  <2>3. CASE b # a
    <3>1. invoice[j].student = app[b].student
      BY <2>3, <1>6 DEF SerialInv, HandedOver
    <3> QED BY <2>1, <2>3, <3>1, <1>5, <1>6
  <2> QED BY <2>2, <2>3
<1>14. ASSUME crashes = 0, NEW b \in Applications PROVE (InvoicesOf(b) = DueInvoices(b))'
  <2>1. InvoicesOf(b) = DueInvoices(b)
    BY <1>2, <1>14, NotInvoicing
  <2>2. app'[b].stage = app[b].stage /\ app'[b].feeInvoice = app[b].feeInvoice
    BY <1>6
  <2>3. DueInvoices(b)' = DueInvoices(b)
    BY <2>2 DEF DueInvoices
  <2> QED BY <1>12, <2>1, <2>3
<1>15. Advancing(c)'
  BY <1>10 DEF Advancing
<1> QED BY <1>2, <1>8, <1>9, <1>10, <1>11, <1>13, <1>14, <1>15, SerialSplit

LEMMA SerialInit == AdmInit => SerialInv
<1> SUFFICES ASSUME AdmInit PROVE SerialInv
  OBVIOUS
<1>1. /\ \A c \in Clerks : clerk[c].pc = "idle"
      /\ \A r \in Requests : req[r].pc = "idle"
  BY DEF AdmInit, Init, IdleClerk, IdleReq
<1>2. OneAtATime
  BY <1>1 DEF OneAtATime, Alone, ClerksIdle
<1>3. RefundedOnce
  BY <1>1 DEF AdmInit, Init, NoPayment, RefundedOnce
<1>4. Live = {}
  BY DEF AdmInit, Init, NoInvoice, Live
<1>5. AllAccurate /\ HandedOver
  BY <1>4 DEF AllAccurate, HandedOver, InvoicesOf
<1>6. \A a \in Applications : app[a].student = None /\ app[a].stage = "inquiry"
  BY DEF AdmInit, NoApplication
<1>7. EnrolledAs
  BY <1>1, <1>6 DEF AdmInit, EnrolledAs
<1>8. OneInvoice
  <2>1. \A c \in Clerks : Advancing(c)
    BY <1>1 DEF Advancing
  <2>2. ASSUME NEW a \in Applications PROVE InvoicesOf(a) = DueInvoices(a)
    <3>1. StageIndex(app[a].stage) = 1 /\ StageIndex("fee_payment") = 8
      BY <1>6, StagePlaces
    <3> QED BY <1>4, <3>1 DEF InvoicesOf, DueInvoices
  <2> QED BY <2>1, <2>2 DEF OneInvoice
<1> QED BY <1>2, <1>3, <1>5, <1>7, <1>8 DEF SerialInv

LEMMA SerialNext ==
  ASSUME ~Overlap, AdmInv, SerialInv, [AdmissionStep \/ LedgerStep]_vars
  PROVE  SerialInv'
<1>1. ASSUME NEW a \in Applications, CreateInquiry(a) \/ \E d \in Decisions : Decide(a, d)
      PROVE  SerialInv'
  BY <1>1, CreateSerial
<1>2. ASSUME NEW c \in Clerks, NEW a \in Applications,
             EnrollRead(c, a) \/ \E s \in ToSet(StageOrder) : UpdateRead(c, a, s)
      PROVE  SerialInv'
  BY <1>2, EnrollReadSerial, UpdateReadSerial
<1>3. ASSUME NEW c \in Clerks,
             \/ GenerateAdmissionInvoice(c) \/ UpdateWrite(c)
             \/ EnrollCheckPaid(c) \/ EnrollCommit(c) \/ ClerkAbort(c)
      PROVE  SerialInv'
  BY <1>3, AdmissionInvoiceSerial, WriteSerial, CheckPaidSerial, EnrollCommitSerial, AbortSerial
<1>4. CASE LedgerStep
  <2>1. students \in SUBSET Students
    BY AdmTyped DEF AdmInv
  <2>2. ClerksIdle
    BY <1>4 DEF LedgerStep
  <2> QED BY <2>1, <2>2, <1>4, LedgerIsFees, LedgerSerial
<1>5. CASE UNCHANGED vars
  <2>1. UNCHANGED <<app, students, clerk, feeVars>>
        /\ UNCHANGED <<invoice, payment, req, refunds, crashes>>
    BY <1>5 DEF vars, admVars, feeVars
  <2>2. \A a \in Applications : /\ app'[a].student = app[a].student
                                /\ app'[a].stage = app[a].stage
                                /\ app'[a].feeInvoice = app[a].feeInvoice
    BY <2>1
  <2>3. OfApplications
    BY <2>1 DEF OfApplications, InvoicesOf, Live
  <2>4. EnrolledAs' /\ HandedOver' /\ OneInvoice'
    BY <2>1, <2>2, <2>3, PipelineStill DEF SerialInv, AdmInv, Holds
  <2>5. OneAtATime' /\ RefundedOnce' /\ AllAccurate'
    BY <2>1 DEF SerialInv, OneAtATime, Alone, Quiet, ClerksIdle, RefundedOnce, AllAccurate,
                Accurate, Standing, Live
  <2> QED BY <2>4, <2>5 DEF SerialInv
<1> QED BY <1>1, <1>2, <1>3, <1>4, <1>5 DEF AdmissionStep

-----------------------------------------------------------------------------
(* The statement of a student                                              *)

LEMMA PaidAddsUp ==
  ASSUME NEW S \in SUBSET Invoices
  PROVE  (CHOOSE iter : iter = [s \in SUBSET S |-> IF s = {} THEN 0
             ELSE PaidAmount(Pick(s)) + iter[s \ {Pick(s)}]])[S]
           = SumFunctionOnSet([i \in Invoices |-> PaidAmount(i)], S)
<1> DEFINE f == [i \in Invoices |-> PaidAmount(i)]
           Iter(g) == g = [s \in SUBSET S |-> IF s = {} THEN 0
                             ELSE PaidAmount(Pick(s)) + g[s \ {Pick(s)}]]
<1>1. IsFiniteSet(S)
  BY FeesAssumption, FS_Subset
<1>2. ASSUME NEW s \in SUBSET S, s # {} PROVE PaidAmount(Pick(s)) = f[Pick(s)]
  BY <1>2, PickIn
<1>3. ASSUME NEW g PROVE Iter(g) <=> Sums(f, S, g)
  <2> HIDE DEF f
  <2> QED BY <1>2 DEF Sums
<1>4. PICK g : Sums(f, S, g)
  <2> HIDE DEF f
  <2> QED BY <1>1, SumsExist
<1>5. Sums(f, S, CHOOSE h : Iter(h))
  <2> HIDE DEF f, Iter
  <2> QED BY <1>3, <1>4
<1>6. SumFunctionOnSet(f, S) = (CHOOSE h : Iter(h))[S]
  <2> HIDE DEF f, Iter
  <2> QED BY <1>1, <1>5, SumIs
<1> QED BY <1>6

LEMMA TotalPaidIs ==
  ASSUME NEW b
  PROVE  TotalPaid(b) = SumFunctionOnSet([i \in Invoices |-> PaidAmount(i)],
                                         {i \in Live : Bucket(i) = b})
<1>1. PICK S \in SUBSET Invoices : S = {i \in Live : Bucket(i) = b}
  BY DEF Live
<1>2. MapThenSumSet(PaidAmount, S) = SumFunctionOnSet([i \in Invoices |-> PaidAmount(i)], S)
  BY PaidAddsUp DEF MapThenSumSet, MapThenFoldSet, Pick
<1> QED BY <1>1, <1>2 DEF TotalPaid

\* What accurate invoices show paid, added up, is the sum of their payments.
LEMMA StandingAddsUp ==
  ASSUME IInv, NEW S \in SUBSET Live, \A i \in S : Accurate(i)
  PROVE  SumFunctionOnSet([i \in Invoices |-> PaidAmount(i)], S)
           = SumOf(UNION {Standing(i) : i \in S})
<1> DEFINE f == [p \in Payments |-> payment[p].amount]
           g == [i \in Invoices |-> PaidAmount(i)]
           A == [i \in S |-> Standing(i)]
           h == [i \in S |-> SumFunctionOnSet(f, A[i])]
<1>1. IsFiniteSet(S) /\ S \subseteq Invoices
  BY FeesAssumption, FS_Subset DEF Live
<1>2. \A p \in Payments : f[p] \in Nat
  BY DEF IInv, TypeOK, PaymentRow
<1>3. \A i \in S : A[i] \in SUBSET Payments /\ IsFiniteSet(A[i]) /\ A[i] = Standing(i)
  BY StandingTyped, FeesAssumption, FS_Subset
<1>4. \A i, j \in S : i # j => A[i] \cap A[j] = {}
  BY DEF Standing
<1>5. ASSUME NEW i \in S PROVE g[i] = h[i]
  <2>1. g[i] = SumOf(Standing(i))
    BY <1>1 DEF PaidAmount, Accurate
  <2>2. SumOf(Standing(i)) = Added(payment, Standing(i))
    BY StandingTyped, SumOfNow
  <2> QED BY <2>1, <2>2 DEF Added
<1>6. SumFunctionOnSet(f, UNION {A[i] : i \in S}) = SumFunctionOnSet(h, S)
  <2>1. \A i \in S : \A p \in A[i] : f[p] \in Nat
    BY <1>2, <1>3
  <2> HIDE DEF f, A
  <2> QED BY <2>1, <1>1, <1>3, <1>4, SumUnion
<1>7. SumFunctionOnSet(g, S) = SumFunctionOnSet(h, S)
  <2> HIDE DEF g, h
  <2> QED BY <1>1, <1>5, SumSame
<1>8. UNION {A[i] : i \in S} = UNION {Standing(i) : i \in S}
  OBVIOUS
<1>9. SumOf(UNION {Standing(i) : i \in S}) = SumFunctionOnSet(f, UNION {Standing(i) : i \in S})
  <2>1. PICK T \in SUBSET Payments : T = UNION {Standing(i) : i \in S}
    BY DEF Standing
  <2>2. SumOf(T) = SumFunctionOnSet(f, T)
    BY SumOfNow DEF Added
  <2> HIDE DEF f
  <2> QED BY <2>1, <2>2
<1> HIDE DEF f, g, h, A
<1>10. SumFunctionOnSet(g, S) = SumOf(UNION {Standing(i) : i \in S})
  BY <1>6, <1>7, <1>8, <1>9
<1> QED BY <1>10 DEF g

LEMMA Statement == ASSUME AdmInv, SerialInv PROVE StatementComplete
<1> SUFFICES ASSUME NEW a \in Applications, app[a].student # None
             PROVE  /\ TotalPaid(app[a].student) =
                         SumOf(UNION {Standing(i) : i \in {j \in Live :
                                        \/ invoice[j].student = app[a].student
                                        \/ invoice[j].application = a}})
                    /\ a \notin Buckets
  BY DEF StatementComplete
<1>1. /\ IInv /\ TypeOK /\ app \in [Applications -> AppRow]
  BY AdmTyped DEF AdmInv, IInv
<1>2. PICK s \in Students : s = app[a].student
  BY <1>1 DEF AppRow
<1>3. \A j \in Live : invoice[j].application = a => invoice[j].student = s
  BY <1>2 DEF SerialInv, HandedOver, InvoicesOf
<1>4. s # None /\ s \notin Applications /\ a \notin Students /\ a # None
  BY FeesAssumption
<1>5. \A j \in Live : /\ invoice[j].student \in Students \cup {None}
                      /\ invoice[j].application \in Applications \cup {None}
  BY <1>1 DEF TypeOK, InvoiceRow, Live
<1>6. \A j \in Live : Bucket(j) = s <=> invoice[j].student = s
  BY <1>4, <1>5 DEF Bucket
<1>7. a \notin Buckets
  BY <1>3, <1>4, <1>5 DEF Buckets, Bucket
<1>8. PICK S \in SUBSET Live : /\ S = {j \in Live : Bucket(j) = s}
                               /\ S = {j \in Live : \/ invoice[j].student = s
                                                    \/ invoice[j].application = a}
  BY <1>3, <1>6
<1>9. TotalPaid(s) = SumFunctionOnSet([i \in Invoices |-> PaidAmount(i)], S)
  BY <1>8, TotalPaidIs
<1>10. SumFunctionOnSet([i \in Invoices |-> PaidAmount(i)], S) = SumOf(UNION {Standing(i) : i \in S})
  BY <1>1, StandingAddsUp DEF SerialInv, AllAccurate
<1> QED BY <1>2, <1>7, <1>8, <1>9, <1>10

-----------------------------------------------------------------------------
(* What stale checks can do at most                                        *)

\* Requests that may still act on a check they have made.
Refunders(p) == {r \in Requests : req[r].pc \in {"refund", "refunding"} /\ req[r].payment = p}
Billers(a) == {c \in Clerks : clerk[c].pc = "invoice" /\ clerk[c].app = a /\ clerk[c].invoice = None}
Billed(a) ==
  {c \in Clerks : clerk[c].pc = "write" /\ clerk[c].target = "fee_payment" /\ clerk[c].app = a}
Enrolling(a) == {c \in Clerks : clerk[c].pc \in {"paid?", "enroll"} /\ clerk[c].app = a}
LateEnrolling ==
  {c \in Clerks : clerk[c].pc \in {"paid?", "enroll"} /\ app[clerk[c].app].student # None}

\* Refunds that were made and those that are still to come; the first of them is what
\* later requests are refused for.
RefundLimit(p) ==
  /\ refunds[p] + Cardinality(Refunders(p)) <= MayMeet(Requests)
  /\ payment[p].state # "live" \/ ~payment[p].refunded => refunds[p] = 0

\* Every invoice of an application that names none is from a request that has yet to
\* write it, or was cut short.  Once it names one, only requests that read it before
\* add to them.
BillLimit(a) ==
  IF app[a].feeInvoice = None
    THEN Cardinality(InvoicesOf(a)) <= Cardinality(Billed(a)) + crashes
    ELSE Cardinality(InvoicesOf(a)) + Cardinality(Billers(a)) <= MayMeet(Clerks) + crashes

\* Students there are, and those that requests past a check that is stale will add.
StudentLimit ==
  /\ IsFiniteSet(students)
  /\ Cardinality(students) + Cardinality(LateEnrolling) <= MayMeet(Clerks) * Cardinality(Enrolled)

\* What the rows of the pipeline show of it.
LimitRows == StudentLimit /\ \A a \in Applications : BillLimit(a)

LimitInv ==
  /\ ~Overlap => SerialInv
  /\ \A p \in Payments : RefundLimit(p)
  /\ LimitRows

LEMMA MayMeetTyped == MayMeet(Clerks) \in Nat /\ MayMeet(Requests) \in Nat
BY AdmissionsAssumption, FS_CardinalityType DEF MayMeet

\* As many requests as may be in flight, and no more.
LEMMA MeetAtMost ==
  ASSUME NEW S, IsFiniteSet(S), NEW X \in SUBSET S, ~Overlap => \A x, y \in X : x = y
  PROVE  IsFiniteSet(X) /\ Cardinality(X) \in Nat /\ Cardinality(X) <= MayMeet(S)
<1>1. IsFiniteSet(X) /\ Cardinality(X) \in Nat /\ Cardinality(X) <= Cardinality(S)
  BY FS_Subset, FS_CardinalityType
<1>2. CASE Overlap
  BY <1>1, <1>2 DEF MayMeet
<1>3. CASE ~Overlap
  <2>1. CASE X = {}
    BY <1>1, <1>3, <2>1, FS_EmptySet DEF MayMeet
  <2>2. ASSUME NEW x \in X PROVE Cardinality(X) = 1
    <3>1. X = {x}
      BY <1>3
    <3> QED BY <3>1, FS_Singleton
  <2> QED BY <1>1, <1>3, <2>1, <2>2 DEF MayMeet
<1> QED BY <1>1, <1>2, <1>3, FeesAssumption

LEMMA Fewer ==
  ASSUME NEW S, IsFiniteSet(S), NEW T \in SUBSET S
  PROVE  /\ IsFiniteSet(T) /\ Cardinality(T) \in Nat /\ Cardinality(S) \in Nat
         /\ Cardinality(T) <= Cardinality(S)
BY FS_Subset, FS_CardinalityType

LEMMA Together ==
  ASSUME NEW S, NEW T, IsFiniteSet(S), IsFiniteSet(T)
  PROVE  /\ IsFiniteSet(S \cup T) /\ Cardinality(S \cup T) \in Nat
         /\ Cardinality(S \cup T) <= Cardinality(S) + Cardinality(T)
         /\ S \cap T = {} => Cardinality(S \cup T) = Cardinality(S) + Cardinality(T)
<1>1. IsFiniteSet(S \cup T) /\ IsFiniteSet(S \cap T)
  BY FS_Union, FS_Subset
<1>2. Cardinality(S \cup T) = Cardinality(S) + Cardinality(T) - Cardinality(S \cap T)
  BY FS_Union
<1>3. PICK x \in Nat, y \in Nat, z \in Nat, u \in Nat :
        /\ x = Cardinality(S) /\ y = Cardinality(T) /\ z = Cardinality(S \cap T)
        /\ u = Cardinality(S \cup T)
  BY <1>1, FS_CardinalityType
<1>4. S \cap T = {} => z = 0
  BY <1>3, FS_EmptySet
<1>5. u <= x + y /\ (z = 0 => u = x + y)
  BY <1>2, <1>3
<1> QED BY <1>1, <1>3, <1>4, <1>5

\* Clerks, their requests and the invoices of an application can be counted.
LEMMA Counted ==
  ASSUME NEW a
  PROVE  /\ IsFiniteSet(Billers(a)) /\ Cardinality(Billers(a)) \in Nat
         /\ IsFiniteSet(Billed(a)) /\ Cardinality(Billed(a)) \in Nat
         /\ IsFiniteSet(Enrolling(a)) /\ IsFiniteSet(LateEnrolling) /\ Cardinality(LateEnrolling) \in Nat
         /\ IsFiniteSet(Refunders(a)) /\ Cardinality(Refunders(a)) \in Nat
         /\ IsFiniteSet(InvoicesOf(a)) /\ Cardinality(InvoicesOf(a)) \in Nat
         /\ IsFiniteSet(Enrolled) /\ Cardinality(Enrolled) \in Nat
<1>1. /\ Billers(a) \in SUBSET Clerks /\ Billed(a) \in SUBSET Clerks /\ Enrolling(a) \in SUBSET Clerks
      /\ LateEnrolling \in SUBSET Clerks /\ Refunders(a) \in SUBSET Requests
  BY DEF Billers, Billed, Enrolling, LateEnrolling, Refunders
<1>2. InvoicesOf(a) \in SUBSET Invoices /\ Enrolled \in SUBSET Applications
  BY DEF InvoicesOf, Live, Enrolled
<1> QED BY <1>1, <1>2, AdmissionsAssumption, FeesAssumption, Fewer

LEMMA CountedNext ==
  ASSUME NEW a
  PROVE  /\ IsFiniteSet(Billers(a)') /\ Cardinality(Billers(a)') \in Nat
         /\ IsFiniteSet(Billed(a)') /\ Cardinality(Billed(a)') \in Nat
         /\ IsFiniteSet(LateEnrolling') /\ Cardinality(LateEnrolling') \in Nat
         /\ IsFiniteSet(Refunders(a)') /\ Cardinality(Refunders(a)') \in Nat
         /\ IsFiniteSet(InvoicesOf(a)') /\ Cardinality(InvoicesOf(a)') \in Nat
         /\ IsFiniteSet(Enrolled') /\ Cardinality(Enrolled') \in Nat
<1>1. /\ Billers(a)' \in SUBSET Clerks /\ Billed(a)' \in SUBSET Clerks
      /\ LateEnrolling' \in SUBSET Clerks /\ Refunders(a)' \in SUBSET Requests
  BY DEF Billers, Billed, LateEnrolling, Refunders
<1>2. InvoicesOf(a)' \in SUBSET Invoices /\ Enrolled' \in SUBSET Applications
  BY DEF InvoicesOf, Live, Enrolled
<1> QED BY <1>1, <1>2, AdmissionsAssumption, FeesAssumption, Fewer

\* A step that adds neither a refund nor a request that may refund.
LEMMA RefundKept ==
  ASSUME IInv, NEW p \in Payments, RefundLimit(p), refunds'[p] = refunds[p],
         Refunders(p)' \subseteq Refunders(p),
         payment'[p].state # "live" \/ ~payment'[p].refunded
           => payment[p].state # "live" \/ ~payment[p].refunded
  PROVE  RefundLimit(p)'
<1>1. /\ Cardinality(Refunders(p)') \in Nat /\ Cardinality(Refunders(p)) \in Nat
      /\ Cardinality(Refunders(p)') <= Cardinality(Refunders(p))
  BY Counted, Fewer
<1>2. refunds[p] \in Nat /\ MayMeet(Requests) \in Nat /\ MayMeet(Requests)' = MayMeet(Requests)
  BY MayMeetTyped DEF IInv, TypeOK, MayMeet
<1> QED BY <1>1, <1>2 DEF RefundLimit

LEMMA RefundsLimited ==
  ASSUME IInv, ~Overlap => Alone', \A p \in Payments : RefundLimit(p), [FeeStep]_feeVars
  PROVE  \A p \in Payments : RefundLimit(p)'
<1> TypeOK
  BY DEF IInv
<1>1. CASE UNCHANGED <<payment, req, refunds>>
  BY <1>1, RefundKept DEF Refunders
<1>2. ASSUME NEW r \in Requests, NEW i \in Invoices, PayInsert(r, i), NEW q \in Payments
      PROVE  RefundLimit(q)'
  <2>1. PICK p \in Payments, amount \in Amounts :
        /\ payment[p].state = "free"
        /\ payment' = [payment EXCEPT ![p] =
             [NoPayment EXCEPT !.state = "uncommitted", !.invoice = i, !.amount = amount]]
        /\ req' = [req EXCEPT ![r] = [IdleReq EXCEPT !.pc = "paying", !.invoice = i,
                     !.payment = p, !.counted = Standing(i) \cup {p}]]
    BY <1>2 DEF PayInsert
  <2>2. /\ q # p => payment'[q] = payment[q]
        /\ \A t \in Requests : IF t = r THEN req'[t].pc = "paying" ELSE req'[t] = req[t]
    BY <2>1 DEF IdleReq, TypeOK
  <2>3. Refunders(q)' \subseteq Refunders(q) /\ refunds'[q] = refunds[q]
    BY <1>2, <2>2 DEF Refunders, PayInsert
  <2> QED BY <2>1, <2>2, <2>3, RefundKept
<1>3. ASSUME NEW r \in Requests, NEW p \in Payments, RefundCheck(r, p), NEW q \in Payments
      PROVE  RefundLimit(q)'
  <2>1. /\ UNCHANGED <<payment, refunds>>
        /\ \A t \in Requests : IF t = r THEN req'[t].payment = p ELSE req'[t] = req[t]
    BY <1>3 DEF RefundCheck, IdleReq, TypeOK
  <2>2. CASE q # p
    <3>1. Refunders(q)' \subseteq Refunders(q)
      BY <2>1, <2>2 DEF Refunders
    <3> QED BY <2>1, <3>1, RefundKept
  <2>3. CASE q = p
    <3>1. refunds'[q] = 0
      BY <1>3, <2>1, <2>3 DEF RefundCheck, RefundLimit
    <3>2. ~Overlap => \A s, t \in Refunders(q)' : s = t
      BY DEF Alone, Refunders
    <3>3. Refunders(q)' \in SUBSET Requests
      BY DEF Refunders
    <3>4. Cardinality(Refunders(q)') \in Nat /\ Cardinality(Refunders(q)') <= MayMeet(Requests)
      BY <3>2, <3>3, MeetAtMost, AdmissionsAssumption
    <3>5. MayMeet(Requests)' = MayMeet(Requests)
      BY DEF MayMeet
    <3> QED BY <3>1, <3>4, <3>5 DEF RefundLimit
  <2> QED BY <2>2, <2>3
<1>4. ASSUME NEW r \in Requests, RefundUpdate(r), NEW q \in Payments PROVE RefundLimit(q)'
  <2>1. req[r].pc = "refund" /\ UNCHANGED <<payment, refunds>>
    BY <1>4 DEF RefundUpdate
  <2>2. \A t \in Requests : /\ req'[t].payment = req[t].payment
                            /\ t # r => req'[t].pc = req[t].pc
    BY <1>4 DEF RefundUpdate, TypeOK, FeeRequest
  <2>3. Refunders(q)' \subseteq Refunders(q)
    BY <2>1, <2>2 DEF Refunders
  <2> QED BY <2>1, <2>3, RefundKept
<1>5. ASSUME NEW r \in Requests, PayCommit(r), NEW q \in Payments PROVE RefundLimit(q)'
  <2>1. PICK p \in Payments : p = req[r].payment /\ payment[p].state = "uncommitted"
    BY <1>5 DEF PayCommit, IInv, InFlight, Recording
  <2>2. q # p => payment'[q] = payment[q]
    BY <1>5, <2>1 DEF PayCommit, TypeOK, PaymentRow
  <2>3. /\ Finish(r) /\ UNCHANGED refunds
    BY <1>5 DEF PayCommit
  <2>4. /\ req'[r] = IdleReq
        /\ \A t \in Requests \ {r} : req'[t].pc = req[t].pc /\ req'[t].payment = req[t].payment
    BY <2>3, FinishMoves
  <2>5. Refunders(q)' \subseteq Refunders(q)
    BY <2>4 DEF Refunders, IdleReq
  <2> QED BY <2>1, <2>2, <2>3, <2>5, RefundKept
<1>6. ASSUME NEW r \in Requests, RefundCommit(r), NEW q \in Payments PROVE RefundLimit(q)'
  <2>1. PICK p \in Payments : p = req[r].payment /\ payment[p].state = "live" /\ req[r].pc = "refunding"
    BY <1>6 DEF RefundCommit, IInv, InFlight, Refunding
  <2>2. /\ Finish(r) /\ refunds' = [refunds EXCEPT ![p] = @ + 1]
        /\ payment' = [payment EXCEPT ![p].refunded = TRUE]
    BY <1>6, <2>1 DEF RefundCommit
  <2>3. /\ req'[r] = IdleReq
        /\ \A t \in Requests \ {r} : req'[t].pc = req[t].pc /\ req'[t].payment = req[t].payment
    BY <2>2, FinishMoves
  <2>4. CASE q # p
    <3>1. refunds'[q] = refunds[q] /\ payment'[q] = payment[q]
      BY <2>2, <2>4 DEF TypeOK
    <3>2. Refunders(q)' \subseteq Refunders(q)
      BY <2>3 DEF Refunders, IdleReq
    <3> QED BY <3>1, <3>2, RefundKept
  <2>5. CASE q = p
    <3>1. refunds[q] \in Nat /\ refunds'[q] = refunds[q] + 1 /\ payment'[q].refunded
          /\ payment'[q].state = "live"
      BY <2>1, <2>2, <2>5 DEF TypeOK, PaymentRow
    <3>2. r \in Refunders(q) /\ Refunders(q)' = Refunders(q) \ {r}
      BY <2>1, <2>3, <2>5 DEF Refunders, IdleReq
    <3>3. /\ Cardinality(Refunders(q)) \in Nat
          /\ Cardinality(Refunders(q)') = Cardinality(Refunders(q)) - 1
      BY <3>2, Counted, FS_RemoveElement
    <3>4. refunds[q] + Cardinality(Refunders(q)) <= MayMeet(Requests)
      BY DEF RefundLimit
    <3>5. MayMeet(Requests) \in Nat /\ MayMeet(Requests)' = MayMeet(Requests)
      BY MayMeetTyped DEF MayMeet
    <3> QED BY <3>1, <3>3, <3>4, <3>5 DEF RefundLimit
  <2> QED BY <2>4, <2>5
<1>7. ASSUME NEW r \in Requests, Abort(r), NEW q \in Payments PROVE RefundLimit(q)'
  <2>1. /\ \A t \in Requests : IF t = r THEN req'[t].pc = "idle" ELSE req'[t] = req[t]
        /\ UNCHANGED refunds
    BY <1>7 DEF Abort, IdleReq, TypeOK
  <2>2. payment'[q].state # "live" \/ ~payment'[q].refunded
          => payment[q].state # "live" \/ ~payment[q].refunded
    <3>1. CASE req[r].pc # "paying"
      BY <1>7, <3>1 DEF Abort
    <3>2. CASE req[r].pc = "paying"
      <4>1. PICK p \in Payments : p = req[r].payment /\ payment[p].state = "uncommitted"
        BY <3>2 DEF IInv, InFlight, Recording
      <4>2. payment' = [payment EXCEPT ![p] = NoPayment]
        BY <1>7, <3>2, <4>1 DEF Abort
      <4> QED BY <4>1, <4>2 DEF TypeOK
    <3> QED BY <3>1, <3>2
  <2>3. Refunders(q)' \subseteq Refunders(q)
    BY <2>1 DEF Refunders
  <2> QED BY <2>1, <2>2, <2>3, RefundKept
<1>8. CASE \/ \E S \in SUBSET Students : S # {} /\ Generate(S)
           \/ \E i \in Invoices : FallDue(i)
           \/ UNCHANGED feeVars
  BY <1>1, <1>8 DEF Generate, FallDue, feeVars
<1> QED BY <1>2, <1>3, <1>4, <1>5, <1>6, <1>7, <1>8 DEF FeeStep

\* A step that leaves an application's invoices alone.
LEMMA BillKept ==
  ASSUME AdmInv, NEW a \in Applications, BillLimit(a), InvoicesOf(a)' = InvoicesOf(a),
         app'[a].feeInvoice = app[a].feeInvoice, crashes' \in Nat, crashes <= crashes',
         app[a].feeInvoice # None => Billers(a)' \subseteq Billers(a), Billed(a) \subseteq Billed(a)'
  PROVE  BillLimit(a)'
<1>1. /\ crashes \in Nat /\ Cardinality(InvoicesOf(a)) \in Nat
      /\ Cardinality(Billers(a)) \in Nat /\ Cardinality(Billers(a)') \in Nat
      /\ Cardinality(Billed(a)) \in Nat /\ Cardinality(Billed(a)') \in Nat
      /\ MayMeet(Clerks) \in Nat /\ MayMeet(Clerks)' = MayMeet(Clerks)
  BY Counted, CountedNext, MayMeetTyped DEF AdmInv, IInv, TypeOK, MayMeet
<1>2. CASE app[a].feeInvoice = None
  <2>1. Cardinality(Billed(a)) <= Cardinality(Billed(a)')
    BY CountedNext, Fewer
  <2> QED BY <1>1, <1>2, <2>1 DEF BillLimit
<1>3. CASE app[a].feeInvoice # None
  <2>1. Cardinality(Billers(a)') <= Cardinality(Billers(a))
    BY <1>3, Counted, Fewer
  <2> QED BY <1>1, <1>3, <2>1 DEF BillLimit
<1> QED BY <1>2, <1>3

\* A step that adds neither a student nor a request that is late.
LEMMA StudentKept ==
  ASSUME StudentLimit, UNCHANGED students, LateEnrolling' \subseteq LateEnrolling,
         \A a \in Applications : app'[a].student = app[a].student
  PROVE  StudentLimit'
<1>1. Enrolled' = Enrolled /\ MayMeet(Clerks)' = MayMeet(Clerks)
  BY DEF Enrolled, MayMeet
<1>2. /\ Cardinality(LateEnrolling) \in Nat /\ Cardinality(LateEnrolling') \in Nat
      /\ Cardinality(LateEnrolling') <= Cardinality(LateEnrolling)
  BY Counted, CountedNext, Fewer
<1>3. Cardinality(students) \in Nat
  BY FS_CardinalityType DEF StudentLimit
<1>4. Cardinality(Enrolled) \in Nat /\ MayMeet(Clerks) \in Nat
  BY Counted, MayMeetTyped
<1>5. PICK n \in Nat : n = MayMeet(Clerks) * Cardinality(Enrolled)
  BY <1>4
<1> QED BY <1>1, <1>2, <1>3, <1>5 DEF StudentLimit

\* A step of one request that bills and enrols nobody.
LEMMA LimitSplit ==
  ASSUME AdmInv, LimitRows, NEW c \in Clerks, \A d \in Clerks : d # c => clerk'[d] = clerk[d],
         UNCHANGED <<students, crashes>>,
         \A a \in Applications : /\ app'[a].feeInvoice = app[a].feeInvoice
                                 /\ app'[a].student = app[a].student
                                 /\ InvoicesOf(a)' = InvoicesOf(a)
                                 /\ app[a].feeInvoice # None /\ c \in Billers(a)' => c \in Billers(a)
                                 /\ c \in Billed(a) => c \in Billed(a)',
         c \in LateEnrolling' => c \in LateEnrolling
  PROVE  LimitRows'
<1>1. ASSUME NEW a \in Applications PROVE BillLimit(a)'
  <2>1. app[a].feeInvoice # None => Billers(a)' \subseteq Billers(a)
    BY DEF Billers
  <2>2. Billed(a) \subseteq Billed(a)'
    BY DEF Billed
  <2>3. BillLimit(a) /\ crashes' \in Nat /\ crashes <= crashes'
    BY DEF LimitRows, AdmInv, IInv, TypeOK
  <2> QED BY <2>1, <2>2, <2>3, BillKept
<1>2. LateEnrolling' \subseteq LateEnrolling
  <2> SUFFICES ASSUME NEW d \in Clerks, d \in LateEnrolling', d # c PROVE d \in LateEnrolling
    BY DEF LateEnrolling
  <2>1. clerk'[d] = clerk[d] /\ Holds(d)
    BY DEF AdmInv
  <2> QED BY <2>1 DEF Holds, LateEnrolling
<1>3. StudentLimit'
  BY <1>2, StudentKept DEF LimitRows
<1> QED BY <1>1, <1>3 DEF LimitRows

LEMMA LedgerLimits ==
  ASSUME AdmInv, LimitRows, OfApplications, UNCHANGED <<students, clerk>>,
         \A a \in Applications : /\ app'[a].feeInvoice = app[a].feeInvoice
                                 /\ app'[a].student = app[a].student,
         crashes' \in Nat, crashes <= crashes'
  PROVE  LimitRows'
<1>1. ASSUME NEW a \in Applications PROVE BillLimit(a)'
  <2>1. Billers(a)' = Billers(a) /\ Billed(a)' = Billed(a)
    BY DEF Billers, Billed
  <2> QED BY <2>1, BillKept DEF LimitRows, OfApplications
<1>2. LateEnrolling' \subseteq LateEnrolling
  BY DEF LateEnrolling, AdmInv, Holds
<1> QED BY <1>1, <1>2, StudentKept DEF LimitRows

LEMMA CreateLimits ==
  ASSUME AdmInv, LimitRows, NEW a \in Applications,
         CreateInquiry(a) \/ \E d \in Decisions : Decide(a, d)
  PROVE  LimitRows'
<1>1. app \in [Applications -> AppRow] /\ crashes \in Nat
  BY AdmTyped DEF AdmInv, IInv, TypeOK
<1>2. UNCHANGED <<students, clerk, invoice, payment, req, refunds, crashes>>
  BY DEF CreateInquiry, Decide, feeVars
<1>3. PICK row : app' = [app EXCEPT ![a] = row] /\ row.feeInvoice = app[a].feeInvoice
                                               /\ row.student = app[a].student
  <2>1. CASE CreateInquiry(a)
    <3>1. app' = [app EXCEPT ![a] = [app[a] EXCEPT !.live = TRUE]]
      BY <2>1 DEF CreateInquiry
    <3>2. PICK row : row = [app[a] EXCEPT !.live = TRUE]
      OBVIOUS
    <3>3. row.feeInvoice = app[a].feeInvoice /\ row.student = app[a].student
      BY <1>1, <3>2 DEF AppRow
    <3> QED BY <3>1, <3>2, <3>3
  <2>2. ASSUME NEW d \in Decisions, Decide(a, d)
        PROVE  \E row : app' = [app EXCEPT ![a] = row] /\ row.feeInvoice = app[a].feeInvoice
                                                      /\ row.student = app[a].student
    <3>1. app' = [app EXCEPT ![a] = [app[a] EXCEPT !.decision = d]]
      BY <2>2 DEF Decide
    <3>2. PICK row : row = [app[a] EXCEPT !.decision = d]
      OBVIOUS
    <3>3. row.feeInvoice = app[a].feeInvoice /\ row.student = app[a].student
      BY <1>1, <3>2 DEF AppRow
    <3> QED BY <3>1, <3>2, <3>3
  <2> QED BY <2>1, <2>2
<1>4. OfApplications
  BY <1>2 DEF OfApplications, InvoicesOf, Live
<1>5. \A b \in Applications : /\ app'[b].feeInvoice = app[b].feeInvoice
                              /\ app'[b].student = app[b].student
  BY <1>1, <1>3
<1> QED BY <1>1, <1>2, <1>4, <1>5, LedgerLimits

LEMMA ReadLimits ==
  ASSUME AdmInv, LimitRows, NEW c \in Clerks, NEW a \in Applications,
         EnrollRead(c, a) \/ \E s \in ToSet(StageOrder) : UpdateRead(c, a, s)
  PROVE  LimitRows'
<1>1. clerk \in [Clerks -> ClerkRow]
  BY AdmTyped DEF AdmInv
<1>2. UNCHANGED <<app, students, feeVars>> /\ clerk[c].pc = "idle"
  BY DEF EnrollRead, UpdateRead, Starts
<1>3. PICK k : /\ clerk' = [clerk EXCEPT ![c] = k] /\ k.app = a
               /\ k.invoice = app[a].feeInvoice
               /\ k.pc \in {"paid?", "enroll"} => app[a].student = None
  <2>1. CASE EnrollRead(c, a)
    <3>1. PICK k : k = [IdleClerk EXCEPT !.pc = "paid?", !.app = a, !.invoice = app[a].feeInvoice]
      OBVIOUS
    <3>2. k.app = a /\ k.invoice = app[a].feeInvoice
      BY <3>1 DEF IdleClerk
    <3> QED BY <2>1, <3>1, <3>2 DEF EnrollRead
  <2>2. ASSUME NEW s \in ToSet(StageOrder), UpdateRead(c, a, s)
        PROVE  \E k : /\ clerk' = [clerk EXCEPT ![c] = k] /\ k.app = a
                      /\ k.invoice = app[a].feeInvoice /\ k.pc \notin {"paid?", "enroll"}
    <3>1. PICK k : k = [pc |-> IF s = "fee_payment" THEN "invoice" ELSE "write",
                        app |-> a, target |-> s, invoice |-> app[a].feeInvoice]
      OBVIOUS
    <3>2. k.pc \notin {"paid?", "enroll"} /\ k.app = a /\ k.invoice = app[a].feeInvoice
      BY <3>1
    <3> QED BY <2>2, <3>1, <3>2 DEF UpdateRead
  <2> QED BY <2>1, <2>2
<1>4. clerk'[c] = k /\ \A d \in Clerks : d # c => clerk'[d] = clerk[d]
  BY <1>1, <1>3
<1>5. \A b \in Applications :
        /\ app[b].feeInvoice # None => c \notin Billers(b)'
        /\ c \notin Billed(b)
  BY <1>2, <1>3, <1>4 DEF Billers, Billed
<1>6. c \notin LateEnrolling'
  BY <1>2, <1>3, <1>4 DEF LateEnrolling
<1>7. \A b \in Applications : InvoicesOf(b)' = InvoicesOf(b)
  BY <1>2 DEF InvoicesOf, Live, feeVars
<1>8. UNCHANGED <<app, students, crashes>>
  BY <1>2 DEF feeVars
<1> QED BY <1>4, <1>5, <1>6, <1>7, <1>8, LimitSplit

LEMMA CheckPaidLimits ==
  ASSUME AdmInv, LimitRows, NEW c \in Clerks, EnrollCheckPaid(c)
  PROVE  LimitRows'
<1>1. clerk \in [Clerks -> ClerkRow]
  BY AdmTyped DEF AdmInv
<1>2. UNCHANGED <<app, students, feeVars>> /\ clerk[c].pc = "paid?"
  BY DEF EnrollCheckPaid
<1>3. /\ \A d \in Clerks : d # c => clerk'[d] = clerk[d]
      /\ \/ clerk'[c].pc = "idle"
         \/ clerk'[c].pc = "enroll" /\ clerk'[c].app = clerk[c].app
  BY <1>1 DEF EnrollCheckPaid, Answer, IdleClerk, ClerkRow
<1>4. /\ c \in LateEnrolling' => c \in LateEnrolling
      /\ \A b : c \notin Billers(b)' /\ c \notin Billed(b)
  BY <1>2, <1>3 DEF LateEnrolling, Billers, Billed
<1>5. (\A b \in Applications : InvoicesOf(b)' = InvoicesOf(b)) /\ UNCHANGED <<app, students, crashes>>
  BY <1>2 DEF InvoicesOf, Live, feeVars
<1> QED BY <1>3, <1>4, <1>5, LimitSplit

\* The requests that bill an application are no more than may be in flight.
LEMMA BillersMeet ==
  ASSUME ~Overlap => SerialInv, NEW a
  PROVE  Cardinality(Billers(a)) + Cardinality(Billed(a)) <= MayMeet(Clerks)
<1>1. Billers(a) \cup Billed(a) \in SUBSET Clerks /\ Billers(a) \cap Billed(a) = {}
  BY DEF Billers, Billed
<1>2. ~Overlap => \A c, d \in Billers(a) \cup Billed(a) : c = d
  BY DEF SerialInv, OneAtATime, Billers, Billed
<1>3. Cardinality(Billers(a) \cup Billed(a)) <= MayMeet(Clerks)
  BY <1>1, <1>2, MeetAtMost, AdmissionsAssumption
<1>4. Cardinality(Billers(a) \cup Billed(a)) = Cardinality(Billers(a)) + Cardinality(Billed(a))
  BY <1>1, Counted, Together
<1> QED BY <1>3, <1>4

\* The one invoice more is from a request that had none and now has.
LEMMA AdmissionInvoiceLimits ==
  ASSUME AdmInv, LimitRows, NEW c \in Clerks, GenerateAdmissionInvoice(c)
  PROVE  LimitRows'
<1>1. clerk \in [Clerks -> ClerkRow] /\ Holds(c) /\ IInv /\ StatusTells /\ crashes \in Nat
  BY AdmTyped DEF AdmInv, IInv, TypeOK
<1>2. UNCHANGED <<app, students, payment, req, refunds, crashes>> /\ clerk[c].pc = "invoice"
      /\ clerk[c].target = "fee_payment"
  BY <1>1 DEF GenerateAdmissionInvoice, Holds
<1>3. PICK a \in Applications : a = clerk[c].app
  BY <1>1, <1>2 DEF Holds
<1>4. CASE clerk[c].invoice # None /\ clerk' = [clerk EXCEPT ![c].pc = "write"] /\ UNCHANGED invoice
  <2>1. clerk'[c].pc = "write" /\ \A d \in Clerks : d # c => clerk'[d] = clerk[d]
    BY <1>1, <1>4 DEF ClerkRow
  <2>2. /\ c \notin LateEnrolling'
        /\ \A b : c \notin Billers(b)' /\ c \notin Billed(b)
    BY <1>2, <2>1 DEF LateEnrolling, Billers, Billed
  <2>3. \A b \in Applications : InvoicesOf(b)' = InvoicesOf(b)
    BY <1>4 DEF InvoicesOf, Live
  <2> QED BY <1>2, <2>1, <2>2, <2>3, LimitSplit
<1>5. CASE /\ clerk[c].invoice = None
           /\ \E i \in Invoices \ Live, total \in Totals :
                /\ InsertInvoices([j \in {i} |-> clerk[c].app], total, TRUE)
                /\ clerk' = [clerk EXCEPT ![c].pc = "write", ![c].invoice = i]
  <2>1. PICK i \in Invoices \ Live, total \in Totals :
             /\ InsertInvoices([j \in {i} |-> a], total, TRUE)
             /\ clerk' = [clerk EXCEPT ![c].pc = "write", ![c].invoice = i]
    BY <1>3, <1>5
  <2>2. /\ \A j \in Invoices : j # i => invoice'[j] = invoice[j]
        /\ invoice'[i].live /\ invoice'[i].application = a /\ ~invoice[i].live
    <3>1. /\ \A j \in Invoices : j # i => invoice'[j] = invoice[j]
          /\ invoice'[i].live /\ invoice'[i].application = a
      BY <1>1, <1>2, <2>1, AdmissionInvoiced
    <3> QED BY <2>1, <3>1 DEF Live
  <2>3. /\ clerk'[c].pc = "write" /\ clerk'[c].app = a /\ clerk'[c].target = "fee_payment"
        /\ \A d \in Clerks : d # c => clerk'[d] = clerk[d]
    BY <1>1, <1>2, <1>3, <2>1 DEF ClerkRow
  <2>4. StudentLimit'
    <3>1. LateEnrolling' \subseteq LateEnrolling
      BY <1>2, <2>3 DEF LateEnrolling
    <3> QED BY <1>2, <3>1, StudentKept DEF LimitRows
  <2>5. ASSUME NEW b \in Applications, b # a PROVE BillLimit(b)'
    <3>1. Billers(b)' \subseteq Billers(b) /\ Billed(b) \subseteq Billed(b)'
      BY <1>2, <1>3, <2>3, <2>5 DEF Billers, Billed
    <3>2. InvoicesOf(b)' = InvoicesOf(b)
      BY <2>1, <2>2, <2>5 DEF InvoicesOf, Live
    <3> QED BY <1>1, <1>2, <3>1, <3>2, BillKept DEF LimitRows
  <2>6. BillLimit(a)'
    <3>1. InvoicesOf(a)' = InvoicesOf(a) \cup {i} /\ i \notin InvoicesOf(a)
      <4>1. i \in Invoices
        BY <2>1
      <4> QED BY <4>1, <2>2 DEF InvoicesOf, Live
    <3>2. /\ Billers(a)' = Billers(a) \ {c} /\ c \in Billers(a)
          /\ Billed(a)' = Billed(a) \cup {c} /\ c \notin Billed(a)
      BY <1>2, <1>3, <1>5, <2>3 DEF Billers, Billed
    <3>3. Cardinality(InvoicesOf(a)') = Cardinality(InvoicesOf(a)) + 1
      BY <3>1, Counted, FS_AddElement
    <3>4. Cardinality(Billers(a)') = Cardinality(Billers(a)) - 1
      BY <3>2, Counted, FS_RemoveElement
    <3>5. Cardinality(Billed(a)') = Cardinality(Billed(a)) + 1
      BY <3>2, Counted, FS_AddElement
    <3>6. /\ Cardinality(InvoicesOf(a)) \in Nat /\ Cardinality(Billers(a)) \in Nat
          /\ Cardinality(Billed(a)) \in Nat /\ MayMeet(Clerks) \in Nat
          /\ MayMeet(Clerks)' = MayMeet(Clerks)
      BY Counted, MayMeetTyped DEF MayMeet
    <3>7. BillLimit(a)
      BY DEF LimitRows
    <3>8. app'[a].feeInvoice = app[a].feeInvoice /\ crashes' = crashes
      BY <1>2
    <3> QED BY <1>1, <3>3, <3>4, <3>5, <3>6, <3>7, <3>8 DEF BillLimit
  <2> QED BY <2>4, <2>5, <2>6 DEF LimitRows
<1> QED BY <1>4, <1>5 DEF GenerateAdmissionInvoice

\* The row's first invoice ends the billing: what requests may still add is counted.
LEMMA WriteLimits ==
  ASSUME AdmInv, LimitRows, ~Overlap => SerialInv, NEW c \in Clerks, UpdateWrite(c)
  PROVE  LimitRows'
<1>1. app \in [Applications -> AppRow] /\ clerk \in [Clerks -> ClerkRow] /\ Holds(c) /\ crashes \in Nat
  BY AdmTyped DEF AdmInv, IInv, TypeOK
<1>2. UNCHANGED <<students, feeVars>> /\ clerk[c].pc = "write" /\ Answer(c)
  BY DEF UpdateWrite
<1>3. PICK a \in Applications : a = clerk[c].app
  BY <1>1, <1>2 DEF Holds
<1>4. PICK i : i = IF clerk[c].target = "fee_payment" THEN clerk[c].invoice ELSE app[a].feeInvoice
  OBVIOUS
<1>5. app' = [app EXCEPT ![a].stage = clerk[c].target, ![a].feeInvoice = i]
  BY <1>1, <1>3, <1>4 DEF UpdateWrite, AppRow
<1>6. /\ \A b \in Applications : app'[b].student = app[b].student
      /\ \A b \in Applications : b # a => app'[b] = app[b]
      /\ app'[a].feeInvoice = i
  BY <1>1, <1>5 DEF AppRow
<1>7. clerk'[c].pc = "idle" /\ \A d \in Clerks : d # c => clerk'[d] = clerk[d]
  BY <1>1, <1>2 DEF Answer, IdleClerk
<1>8. (\A b \in Applications : InvoicesOf(b)' = InvoicesOf(b)) /\ UNCHANGED <<students, crashes>>
  BY <1>2 DEF InvoicesOf, Live, feeVars
<1>9. c \notin LateEnrolling' /\ \A b : c \notin Billers(b)' /\ c \notin Billers(b)
  BY <1>2, <1>7 DEF LateEnrolling, Billers
<1>10. CASE clerk[c].target # "fee_payment"
  <2>1. \A b \in Applications : app'[b].feeInvoice = app[b].feeInvoice
    BY <1>4, <1>6, <1>10
  <2>2. \A b : c \notin Billed(b)
    BY <1>10 DEF Billed
  <2> QED BY <1>6, <1>7, <1>8, <1>9, <2>1, <2>2, LimitSplit
<1>11. CASE clerk[c].target = "fee_payment"
  <2>1. StudentLimit'
    <3>1. LateEnrolling' \subseteq LateEnrolling
      <4> SUFFICES ASSUME NEW d \in Clerks, d \in LateEnrolling', d # c PROVE d \in LateEnrolling
        BY <1>9 DEF LateEnrolling
      <4>1. clerk'[d] = clerk[d] /\ Holds(d)
        BY <1>7 DEF AdmInv
      <4> QED BY <1>6, <4>1 DEF Holds, LateEnrolling
    <3> QED BY <1>6, <1>8, <3>1, StudentKept DEF LimitRows
  <2>2. ASSUME NEW b \in Applications, b # a PROVE BillLimit(b)'
    <3>1. Billers(b)' \subseteq Billers(b) /\ Billed(b) \subseteq Billed(b)'
      BY <1>2, <1>3, <1>7, <2>2 DEF Billers, Billed
    <3> QED BY <1>1, <1>6, <1>8, <2>2, <3>1, BillKept DEF LimitRows
  <2>3. BillLimit(a)'
    <3>1. app'[a].feeInvoice # None
      <4>1. i \in Invoices
        BY <1>1, <1>2, <1>3, <1>4, <1>11 DEF Holds, InvoicesOf, Live
      <4> QED BY <1>6, <4>1, FeesAssumption
    <3>2. Billers(a)' = Billers(a)
      BY <1>7, <1>9 DEF Billers
    <3>3. Cardinality(InvoicesOf(a)) + Cardinality(Billers(a)) <= MayMeet(Clerks) + crashes
      <4>1. /\ Cardinality(InvoicesOf(a)) \in Nat /\ Cardinality(Billers(a)) \in Nat
            /\ Cardinality(Billed(a)) \in Nat /\ MayMeet(Clerks) \in Nat
        BY Counted, MayMeetTyped
      <4>2. Cardinality(Billers(a)) + Cardinality(Billed(a)) <= MayMeet(Clerks)
        BY BillersMeet
      <4>3. BillLimit(a)
        BY DEF LimitRows
      <4> QED BY <1>1, <4>1, <4>2, <4>3 DEF BillLimit
    <3> QED BY <1>8, <3>1, <3>2, <3>3 DEF BillLimit, MayMeet
  <2> QED BY <2>1, <2>2, <2>3 DEF LimitRows
<1> QED BY <1>10, <1>11

\* The first student makes late what is past the check; the others were counted.
LEMMA EnrollCommitLimits ==
  ASSUME AdmInv, LimitRows, ~Overlap => SerialInv, NEW c \in Clerks, EnrollCommit(c)
  PROVE  LimitRows'
<1>1. /\ app \in [Applications -> AppRow] /\ clerk \in [Clerks -> ClerkRow] /\ Holds(c)
      /\ IInv /\ StatusTells /\ crashes \in Nat
  BY AdmTyped DEF AdmInv, IInv, TypeOK
<1>2. UNCHANGED <<payment, req, refunds, crashes>> /\ clerk[c].pc = "enroll" /\ Answer(c)
  BY DEF EnrollCommit
<1>3. PICK a \in Applications : a = clerk[c].app
  BY <1>1, <1>2 DEF Holds
<1>4. PICK s \in Students \ students :
       /\ students' = students \cup {s}
       /\ app' = [app EXCEPT ![a].student = s]
       /\ Reconcile(a, s)
  BY <1>3 DEF EnrollCommit
<1>5. \A b \in Applications : InvoicesOf(b)' = InvoicesOf(b)
  <2>1. \A i \in Invoices : /\ invoice'[i].live = invoice[i].live
                            /\ invoice'[i].application = invoice[i].application
    BY <1>1, <1>2, <1>4, ReconcileKeeps
  <2> QED BY <2>1 DEF InvoicesOf, Live
<1>6. /\ app'[a].student = s /\ s # None
      /\ \A b \in Applications : b # a => app'[b] = app[b]
      /\ app'[a].feeInvoice = app[a].feeInvoice
  BY <1>1, <1>4, FeesAssumption DEF AppRow
<1>7. clerk'[c].pc = "idle" /\ \A d \in Clerks : d # c => clerk'[d] = clerk[d]
  BY <1>1, <1>2 DEF Answer, IdleClerk
<1>8. ASSUME NEW b \in Applications PROVE BillLimit(b)'
  <2>1. Billers(b)' \subseteq Billers(b) /\ Billed(b) \subseteq Billed(b)'
    BY <1>2, <1>7 DEF Billers, Billed
  <2>2. app'[b].feeInvoice = app[b].feeInvoice
    BY <1>6
  <2> QED BY <1>1, <1>2, <1>5, <2>1, <2>2, BillKept DEF LimitRows
<1>9. /\ IsFiniteSet(students') /\ Cardinality(students) \in Nat
      /\ Cardinality(students') = Cardinality(students) + 1
  BY <1>4, FS_AddElement, FS_CardinalityType DEF LimitRows, StudentLimit
<1>10. PICK m \in Nat, n \in Nat : m = MayMeet(Clerks) /\ n = Cardinality(Enrolled)
  BY Counted, MayMeetTyped
<1>11. MayMeet(Clerks)' = m
  BY <1>10 DEF MayMeet
<1>12. Cardinality(students) + Cardinality(LateEnrolling) <= m * n
  BY <1>10 DEF LimitRows, StudentLimit
<1>13. /\ Cardinality(LateEnrolling) \in Nat /\ Cardinality(LateEnrolling') \in Nat
       /\ IsFiniteSet(LateEnrolling)
  BY Counted, CountedNext
<1>14. c \notin LateEnrolling'
  BY <1>7 DEF LateEnrolling
<1>15. ASSUME NEW d \in Clerks, d \in LateEnrolling', d \notin LateEnrolling
       PROVE  d \in Enrolling(a) \ {c}
  <2>1. d # c /\ clerk'[d] = clerk[d] /\ Holds(d)
    BY <1>7, <1>14, <1>15 DEF AdmInv
  <2> QED BY <1>6, <1>15, <2>1 DEF Holds, LateEnrolling, Enrolling
<1>16. CASE app[a].student # None
  <2>1. Enrolled' = Enrolled
    BY <1>6, <1>16 DEF Enrolled
  <2>2. LateEnrolling' \subseteq LateEnrolling \ {c} /\ c \in LateEnrolling
    BY <1>2, <1>3, <1>7, <1>14, <1>15, <1>16 DEF LateEnrolling, Enrolling
  <2>3. Cardinality(LateEnrolling \ {c}) = Cardinality(LateEnrolling) - 1
        /\ IsFiniteSet(LateEnrolling \ {c})
    BY <1>13, <2>2, FS_RemoveElement
  <2>4. Cardinality(LateEnrolling') <= Cardinality(LateEnrolling) - 1
    BY <2>2, <2>3, Fewer
  <2>5. PICK x \in Nat : x = m * n
    OBVIOUS
  <2>6. Cardinality(students') + Cardinality(LateEnrolling') <= x
    BY <1>9, <1>12, <1>13, <2>4, <2>5
  <2>7. StudentLimit'
    BY <1>9, <1>10, <1>11, <2>1, <2>5, <2>6 DEF StudentLimit
  <2> QED BY <1>8, <2>7 DEF LimitRows
<1>17. CASE app[a].student = None
  <2>1. Enrolled' = Enrolled \cup {a} /\ a \notin Enrolled
    BY <1>6, <1>17 DEF Enrolled
  <2>2. Cardinality(Enrolled') = n + 1
    BY <1>10, <2>1, Counted, FS_AddElement
  <2>3. Enrolling(a) \in SUBSET Clerks /\ c \in Enrolling(a)
    BY <1>2, <1>3 DEF Enrolling
  <2>4. ~Overlap => \A x, y \in Enrolling(a) : x = y
    BY DEF SerialInv, OneAtATime, Enrolling
  <2>5. /\ IsFiniteSet(Enrolling(a)) /\ Cardinality(Enrolling(a)) \in Nat
        /\ Cardinality(Enrolling(a)) <= m
    BY <1>10, <2>3, <2>4, MeetAtMost, AdmissionsAssumption
  <2>6. /\ IsFiniteSet(Enrolling(a) \ {c})
        /\ Cardinality(Enrolling(a) \ {c}) = Cardinality(Enrolling(a)) - 1
    BY <2>3, <2>5, FS_RemoveElement
  <2>7. LateEnrolling' \subseteq LateEnrolling \cup (Enrolling(a) \ {c})
    BY <1>15 DEF LateEnrolling
  <2>8. /\ IsFiniteSet(LateEnrolling \cup (Enrolling(a) \ {c}))
        /\ Cardinality(LateEnrolling \cup (Enrolling(a) \ {c}))
             <= Cardinality(LateEnrolling) + Cardinality(Enrolling(a)) - 1
    <3>1. PICK T : T = Enrolling(a) \ {c}
      OBVIOUS
    <3>2. /\ IsFiniteSet(LateEnrolling \cup T)
          /\ Cardinality(LateEnrolling \cup T) <= Cardinality(LateEnrolling) + Cardinality(T)
      BY <1>13, <2>6, <3>1, Together
    <3>3. Cardinality(T) = Cardinality(Enrolling(a)) - 1
      BY <2>6, <3>1
    <3>4. Cardinality(LateEnrolling \cup T) \in Nat /\ Cardinality(T) \in Nat
      BY <2>6, <3>1, <3>2, FS_CardinalityType
    <3> QED BY <1>13, <2>5, <3>1, <3>2, <3>3, <3>4
  <2>9. Cardinality(LateEnrolling') <= Cardinality(LateEnrolling) + Cardinality(Enrolling(a)) - 1
    <3>1. /\ Cardinality(LateEnrolling') <= Cardinality(LateEnrolling \cup (Enrolling(a) \ {c}))
          /\ Cardinality(LateEnrolling \cup (Enrolling(a) \ {c})) \in Nat
      BY <2>7, <2>8, Fewer
    <3> QED BY <1>13, <2>5, <2>8, <3>1
  <2>10. PICK x \in Nat : x = m * n
    OBVIOUS
  <2>11. m * (n + 1) = x + m
    BY <2>10
  <2>12. Cardinality(students') + Cardinality(LateEnrolling') <= x + m
    BY <1>9, <1>12, <1>13, <2>5, <2>9, <2>10
  <2>13. StudentLimit'
    BY <1>9, <1>11, <2>2, <2>11, <2>12 DEF StudentLimit
  <2> QED BY <1>8, <2>13 DEF LimitRows
<1> QED BY <1>16, <1>17

\* A request cut short leaves at most one invoice that no row names.
LEMMA AbortLimits ==
  ASSUME AdmInv, LimitRows, NEW c \in Clerks, ClerkAbort(c)
  PROVE  LimitRows'
<1>1. clerk \in [Clerks -> ClerkRow] /\ crashes \in Nat
  BY AdmTyped DEF AdmInv, IInv, TypeOK
<1>2. /\ UNCHANGED <<app, students, invoice>> /\ crashes' = crashes + 1
      /\ clerk'[c].pc = "idle" /\ \A d \in Clerks : d # c => clerk'[d] = clerk[d]
  BY <1>1 DEF ClerkAbort, Answer, IdleClerk
<1>3. ASSUME NEW a \in Applications PROVE BillLimit(a)'
  <2>1. /\ Billers(a)' \subseteq Billers(a) /\ Billed(a) \ {c} \subseteq Billed(a)'
        /\ InvoicesOf(a)' = InvoicesOf(a)
    BY <1>2 DEF Billers, Billed, InvoicesOf, Live
  <2>2. /\ Cardinality(InvoicesOf(a)) \in Nat /\ MayMeet(Clerks) \in Nat
        /\ Cardinality(Billers(a)) \in Nat /\ Cardinality(Billers(a)') \in Nat
        /\ Cardinality(Billed(a)) \in Nat /\ Cardinality(Billed(a)') \in Nat
        /\ MayMeet(Clerks)' = MayMeet(Clerks)
    BY Counted, CountedNext, MayMeetTyped DEF MayMeet
  <2>3. Cardinality(Billers(a)') <= Cardinality(Billers(a))
    BY <2>1, Counted, Fewer
  <2>4. Cardinality(Billed(a)) <= Cardinality(Billed(a)') + 1
    <3>1. Cardinality(Billed(a) \ {c}) <= Cardinality(Billed(a)')
      BY <2>1, CountedNext, Fewer
    <3>2. \/ Cardinality(Billed(a) \ {c}) = Cardinality(Billed(a)) - 1
          \/ Cardinality(Billed(a) \ {c}) = Cardinality(Billed(a))
      BY Counted, FS_RemoveElement
    <3> QED BY <2>2, <3>1, <3>2
  <2>5. BillLimit(a)
    BY DEF LimitRows
  <2> QED BY <1>1, <1>2, <2>1, <2>2, <2>3, <2>4, <2>5 DEF BillLimit
<1>4. LateEnrolling' \subseteq LateEnrolling
  BY <1>2 DEF LateEnrolling
<1> QED BY <1>2, <1>3, <1>4, StudentKept DEF LimitRows

LEMMA LimitInit == AdmInit => LimitInv
<1> SUFFICES ASSUME AdmInit PROVE LimitInv
  OBVIOUS
<1>1. SerialInv /\ AdmInv
  BY SerialInit, AdmInvInit
<1>2. /\ \A c \in Clerks : clerk[c].pc = "idle"
      /\ \A r \in Requests : req[r].pc = "idle"
      /\ crashes = 0 /\ students = {} /\ Live = {}
      /\ \A p \in Payments : refunds[p] = 0
      /\ \A a \in Applications : app[a].feeInvoice = None
  BY DEF AdmInit, Init, IdleClerk, IdleReq, NoInvoice, NoApplication, Live
<1>3. MayMeet(Clerks) \in Nat /\ MayMeet(Requests) \in Nat /\ Cardinality(Enrolled) \in Nat
  BY MayMeetTyped, Counted
<1>4. ASSUME NEW p \in Payments PROVE RefundLimit(p)
  <2>1. Refunders(p) = {}
    BY <1>2 DEF Refunders
  <2> QED BY <1>2, <1>3, <2>1, FS_EmptySet DEF RefundLimit
<1>5. ASSUME NEW a \in Applications PROVE BillLimit(a)
  <2>1. InvoicesOf(a) = {} /\ Billed(a) = {}
    BY <1>2 DEF InvoicesOf, Billed
  <2> QED BY <1>2, <2>1, FS_EmptySet DEF BillLimit
<1>6. StudentLimit
  <2>1. LateEnrolling = {}
    BY <1>2 DEF LateEnrolling
  <2>2. MayMeet(Clerks) * Cardinality(Enrolled) \in Nat
    BY <1>3
  <2> QED BY <1>2, <2>1, <2>2, FS_EmptySet DEF StudentLimit
<1> QED BY <1>1, <1>4, <1>5, <1>6 DEF LimitInv, LimitRows

LEMMA LimitNext ==
  ASSUME AdmInv, LimitInv, [AdmissionStep \/ LedgerStep]_vars
  PROVE  LimitInv'
<1>1. /\ LimitRows /\ IInv /\ students \in SUBSET Students
      /\ ~Overlap => SerialInv /\ SerialInv'
      /\ \A p \in Payments : RefundLimit(p)
  BY SerialNext, AdmTyped DEF LimitInv, AdmInv
<1>2. LimitRows' /\ [FeeStep]_feeVars => LimitInv'
  BY <1>1, RefundsLimited DEF SerialInv, OneAtATime, LimitInv
<1>3. LimitRows' /\ UNCHANGED <<payment, req, refunds>> => LimitInv'
  <2>1. ASSUME UNCHANGED <<payment, req, refunds>>, NEW p \in Payments PROVE RefundLimit(p)'
    <3>1. Refunders(p)' = Refunders(p)
      BY <2>1 DEF Refunders
    <3> QED BY <1>1, <2>1, <3>1, RefundKept
  <2> QED BY <1>1, <2>1 DEF LimitInv
<1>4. ASSUME NEW a \in Applications, CreateInquiry(a) \/ \E d \in Decisions : Decide(a, d)
      PROVE  LimitInv'
  <2>1. UNCHANGED <<payment, req, refunds>>
    BY <1>4 DEF CreateInquiry, Decide, feeVars
  <2> QED BY <1>1, <1>3, <1>4, <2>1, CreateLimits
<1>5. ASSUME NEW c \in Clerks, NEW a \in Applications,
             EnrollRead(c, a) \/ \E s \in ToSet(StageOrder) : UpdateRead(c, a, s)
      PROVE  LimitInv'
  <2>1. UNCHANGED <<payment, req, refunds>>
    BY <1>5 DEF EnrollRead, UpdateRead, feeVars
  <2> QED BY <1>1, <1>3, <1>5, <2>1, ReadLimits
<1>6. ASSUME NEW c \in Clerks,
             \/ GenerateAdmissionInvoice(c) \/ UpdateWrite(c)
             \/ EnrollCheckPaid(c) \/ EnrollCommit(c) \/ ClerkAbort(c)
      PROVE  LimitInv'
  <2>1. UNCHANGED <<payment, req, refunds>>
    BY <1>6 DEF GenerateAdmissionInvoice, UpdateWrite, EnrollCheckPaid, EnrollCommit,
                ClerkAbort, feeVars
  <2>2. LimitRows'
    BY <1>1, <1>6, AdmissionInvoiceLimits, WriteLimits, CheckPaidLimits, EnrollCommitLimits,
       AbortLimits
  <2> QED BY <1>3, <2>1, <2>2
<1>7. CASE LedgerStep
  <2>1. FeeStep /\ UNCHANGED admVars
    BY <1>1, <1>7, LedgerIsFees
  <2>2. OfApplications /\ crashes' \in Nat /\ crashes <= crashes'
    BY <1>1, <2>1, LedgerOf, CrashesGrow
  <2>3. LimitRows'
    BY <1>1, <2>1, <2>2, LedgerLimits DEF admVars
  <2> QED BY <1>2, <2>1, <2>3
<1>8. CASE UNCHANGED vars
  <2>1. UNCHANGED <<app, students, clerk, feeVars>>
    BY <1>8 DEF vars, admVars
  <2>2. OfApplications /\ crashes' \in Nat /\ crashes <= crashes'
    BY <1>1, <2>1, LedgerOf, CrashesGrow
  <2>3. LimitRows'
    BY <1>1, <2>1, <2>2, LedgerLimits
  <2> QED BY <1>2, <2>1, <2>3
<1> QED BY <1>4, <1>5, <1>6, <1>7, <1>8 DEF AdmissionStep

\* What is still to come counts nothing less than nothing.
LEMMA LimitsMeanAtMost == ASSUME AdmInv, LimitInv PROVE DoubledAtMost
<1>1. ASSUME NEW p \in Payments PROVE refunds[p] <= MayMeet(Requests)
  <2>1. /\ refunds[p] \in Nat /\ Cardinality(Refunders(p)) \in Nat /\ MayMeet(Requests) \in Nat
    BY Counted, MayMeetTyped DEF AdmInv, IInv, TypeOK
  <2> QED BY <2>1 DEF LimitInv, RefundLimit
<1>2. ASSUME NEW a \in Applications
      PROVE  Cardinality(InvoicesOf(a)) <= MayMeet(Clerks) + crashes
  <2>1. /\ Cardinality(InvoicesOf(a)) \in Nat /\ Cardinality(Billers(a)) \in Nat
        /\ Cardinality(Billed(a)) \in Nat /\ MayMeet(Clerks) \in Nat /\ crashes \in Nat
    BY Counted, MayMeetTyped DEF AdmInv, IInv, TypeOK
  <2>2. BillLimit(a) /\ Cardinality(Billers(a)) + Cardinality(Billed(a)) <= MayMeet(Clerks)
    BY BillersMeet DEF LimitInv, LimitRows
  <2> QED BY <2>1, <2>2 DEF BillLimit
<1>3. Cardinality(students) <= MayMeet(Clerks) * Cardinality(Enrolled)
  <2>1. PICK x \in Nat : x = MayMeet(Clerks) * Cardinality(Enrolled)
    BY Counted, MayMeetTyped
  <2>2. Cardinality(students) \in Nat /\ Cardinality(LateEnrolling) \in Nat
    BY Counted, FS_CardinalityType DEF LimitInv, LimitRows, StudentLimit
  <2> QED BY <2>1, <2>2 DEF LimitInv, LimitRows, StudentLimit
<1> QED BY <1>1, <1>2, <1>3 DEF DoubledAtMost

LEMMA Twice == ASSUME ~Overlap, AdmInv, LimitInv PROVE NothingTwice
<1> SerialInv
  BY DEF LimitInv
<1>1. \A p \in Payments : refunds[p] <= 1
  BY DEF SerialInv, RefundedOnce
<1>2. ASSUME NEW s \in students PROVE Cardinality({a \in Applications : app[a].student = s}) = 1
  <2>1. s # None
    BY FeesAssumption, AdmTyped DEF AdmInv
  <2>2. PICK a \in Applications : app[a].student = s
    BY DEF SerialInv, EnrolledAs
  <2>3. {b \in Applications : app[b].student = s} = {a}
    BY <2>1, <2>2 DEF SerialInv, EnrolledAs
  <2> QED BY <2>3, FS_Singleton
<1>3. ASSUME crashes = 0, ClerksIdle, NEW a \in Applications PROVE InvoicesOf(a) = DueInvoices(a)
  BY <1>3 DEF SerialInv, OneInvoice, Invoicing, ClerksIdle
<1>4. MayMeet(Clerks) = 1
  BY DEF MayMeet
<1>5. \A a \in Applications : Cardinality(InvoicesOf(a)) <= 1 + crashes
  BY <1>4, LimitsMeanAtMost DEF DoubledAtMost
<1> QED BY <1>1, <1>2, <1>3, <1>5 DEF NothingTwice, DueInvoices

-----------------------------------------------------------------------------
(* The theorems                                                            *)

\* Every variable keeps its type.
THEOREM AdmissionsTyped == AdmSpec => []AdmTypeOK
<1>1. AdmInv => AdmTypeOK
  BY DEF AdmInv
<1> QED BY <1>1, AdmInvInit, AdmInvNext, PTL DEF AdmSpec

\* Whatever interleaves and whatever is cut short, an application is enrolled only
\* after payments that cover an admission invoice of it were made.
THEOREM EnrolledArePaid == AdmSpec => []PaidBeforeEnrolled
<1>1. AdmInv => PaidBeforeEnrolled
  BY DEF AdmInv, RowHolds, PaidFor, Made, PaidBeforeEnrolled
<1> QED BY <1>1, AdmInvInit, AdmInvNext, PTL DEF AdmSpec

\* One request at a time, failed ones included: a payment is refunded at most once, and a
\* student is exactly one application's.  Until something fails an application has one
\* admission invoice, the one it names; each request that fails may bill it once more.
THEOREM TwiceNever == ASSUME ~Overlap PROVE AdmSpec => []NothingTwice
<1>1. AdmInv /\ LimitInv /\ [AdmissionStep \/ LedgerStep]_vars => (AdmInv /\ LimitInv)'
  BY AdmInvNext, LimitNext
<1> QED BY <1>1, AdmInvInit, LimitInit, Twice, PTL DEF AdmSpec

\* Whatever interleaves and whatever is cut short: a payment is refunded, an application
\* billed and a student created for it at most once for each request that may be in
\* flight, and billed once more for each that was cut short.
THEOREM DoublingLimited == AdmSpec => []DoubledAtMost
<1>1. AdmInv /\ LimitInv /\ [AdmissionStep \/ LedgerStep]_vars => (AdmInv /\ LimitInv)'
  BY AdmInvNext, LimitNext
<1> QED BY <1>1, AdmInvInit, LimitInit, LimitsMeanAtMost, PTL DEF AdmSpec

\* One request at a time, failed ones included: the balance of an enrolled student
\* shows all that stands paid on the student's and on the application's invoices.
THEOREM StatementsAreComplete == ASSUME ~Overlap PROVE AdmSpec => []StatementComplete
<1>1. AdmInv /\ SerialInv /\ [AdmissionStep \/ LedgerStep]_vars => (AdmInv /\ SerialInv)'
  BY AdmInvNext, SerialNext
<1> QED BY <1>1, AdmInvInit, SerialInit, Statement, PTL DEF AdmSpec

\* Under the pipeline too nothing is counted that was not paid.
THEOREM StillRealMoney == AdmSpec => []OnlyRealMoney
<1>1. AdmInv => OnlyRealMoney
  BY DEF AdmInv, IInv
<1> QED BY <1>1, AdmInvInit, AdmInvNext, PTL DEF AdmSpec

\* Under the pipeline too, one request at a time, paidAmount is the sum of the
\* payments that stand, and "paid" means that they cover the total.
THEOREM StillAccurate == ASSUME ~Overlap PROVE AdmSpec => []PaidAmountAccurate
<1>1. AdmInv /\ SerialInv /\ [AdmissionStep \/ LedgerStep]_vars => (AdmInv /\ SerialInv)'
  BY AdmInvNext, SerialNext
<1>2. AdmInv /\ SerialInv => PaidAmountAccurate
  BY AccurateAndTold DEF AdmInv, SerialInv
<1> QED BY <1>1, <1>2, AdmInvInit, SerialInit, PTL DEF AdmSpec

\* Under the pipeline too, a payment or refund that no other commit on its invoice
\* came in between leaves paidAmount equal to what stands paid.
THEOREM StillRepairs == AdmSpec => NextOneRepairs
<1>1. ASSUME AdmInv, [AdmissionStep \/ LedgerStep]_vars
      PROVE  [\A r \in Requests, i \in Invoices :
               /\ req[r].pc \in {"paying", "refunding"} /\ req[r].fresh /\ req[r].invoice = i
               /\ req'[r].pc = "idle" /\ crashes' = crashes
               => Accurate(i)']_feeVars
  <2> SUFFICES ASSUME AdmissionStep \/ LedgerStep, NEW r \in Requests, NEW i \in Invoices,
                      req[r].pc \in {"paying", "refunding"}, req[r].fresh, req[r].invoice = i,
                      req'[r].pc = "idle", crashes' = crashes
               PROVE  Accurate(i)'
    BY <1>1 DEF vars
  <2>1. ~AdmissionStep
    <3>1. UNCHANGED req => FALSE
      OBVIOUS
    <3>2. ASSUME NEW a \in Applications, CreateInquiry(a) \/ \E d \in Decisions : Decide(a, d)
          PROVE  UNCHANGED req
      BY <3>2 DEF CreateInquiry, Decide, feeVars
    <3>3. ASSUME NEW c \in Clerks, NEW a \in Applications,
                 EnrollRead(c, a) \/ \E s \in ToSet(StageOrder) : UpdateRead(c, a, s)
          PROVE  UNCHANGED req
      BY <3>3 DEF EnrollRead, UpdateRead, feeVars
    <3>4. ASSUME NEW c \in Clerks,
                 \/ GenerateAdmissionInvoice(c) \/ UpdateWrite(c)
                 \/ EnrollCheckPaid(c) \/ EnrollCommit(c) \/ ClerkAbort(c)
          PROVE  UNCHANGED req
      BY <3>4 DEF GenerateAdmissionInvoice, UpdateWrite, EnrollCheckPaid, EnrollCommit,
                  ClerkAbort, feeVars
    <3> QED BY <3>1, <3>2, <3>3, <3>4 DEF AdmissionStep
  <2>2. IInv /\ FeeStep
    BY <1>1, <2>1, AdmTyped, LedgerIsFees DEF AdmInv
  <2>3. PayCommit(r) \/ RefundCommit(r)
    BY <2>2, Committed
  <2> QED BY <2>2, <2>3, PayCommitCounts, RefundCommitCounts
<1> QED BY <1>1, AdmInvInit, AdmInvNext, PTL DEF AdmSpec, NextOneRepairs
=============================================================================
