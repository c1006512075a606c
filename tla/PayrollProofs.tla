---------------------------- MODULE PayrollProofs ----------------------------
(***************************************************************************)
(* Theorems about Payroll, for any number of employees, leave requests,    *)
(* periods and requests in flight.                                         *)
(***************************************************************************)
EXTENDS Payroll, SumTheorems

Running == {"employees", "leave", "generate"}

\* A request in flight names a row that is there, of the table its handler writes.
RowsKnown ==
  \A r \in Requests :
    /\ req[r].pc = "review" => req[r].row \in Leaves /\ leave[req[r].row].status # "none"
    /\ req[r].pc = "lifecycle" => req[r].row \in Employees /\ req[r].type \in LifecycleTypes
    /\ req[r].pc \in Running \cup {"approve"} =>
         req[r].row \in Periods /\ period[req[r].row].status # "none"

\* A leave request that was submitted has its employee and its dates.
LeaveFilled ==
  \A l \in Leaves : leave[l].status # "none" =>
    leave[l].employee \in Employees /\ leave[l].dates \in LeaveDates

\* The inductive invariant behind the types and the payslips of a draft.
PayInv == PayTypeOK /\ RowsKnown /\ LeaveFilled /\ DraftHasNoPayslips

\* With one request at a time, a run that has checked its period still finds it
\* a draft: nobody else can have moved it.
SerialInv ==
  ~overlap => /\ \A r, q \in Requests : req[r].pc # "idle" /\ req[q].pc # "idle" => r = q
              /\ \A r \in Requests : req[r].pc \in Running => period[req[r].row].status = "draft"

-----------------------------------------------------------------------------
(* Types                                                                    *)

LEMMA IdleTyped == IdleReq \in RequestState
BY DEF IdleReq, RequestState, Nobody

\* A request whose record is replaced by one of the type.
LEMMA ReqTyped ==
  ASSUME PayTypeOK, NEW r \in Requests, NEW q \in RequestState, req' = [req EXCEPT ![r] = q]
  PROVE  req' \in [Requests -> RequestState]
BY DEF PayTypeOK

LEMMA EndsTyped ==
  ASSUME PayTypeOK, NEW r \in Requests, Ends(r)
  PROVE  req' \in [Requests -> RequestState]
BY IdleTyped, ReqTyped DEF Ends

\* The days of a leave are never less than one.
LEMMA DaysTyped ==
  ASSUME NEW dates \in LeaveDates
  PROVE  DaysInclusive(dates) \in Nat
<1>1. dates[1] \in Nat /\ dates[2] \in Nat
  BY PayrollAssumption
<1> DEFINE n == dates[2] - dates[1] + 1
<1>2. n \in Int
  BY <1>1
<1>3. \E x \in {1, n} : \A y \in {1, n} : x >= y
  BY <1>2
<1>4. Max({1, n}) \in {1, n} /\ \A y \in {1, n} : Max({1, n}) >= y
  BY <1>3 DEF Max
<1>5. Max({1, n}) \in Nat
  BY <1>2, <1>4
<1> QED BY <1>5 DEF DaysInclusive

LEMMA TypeInit == Init => PayTypeOK
<1> SUFFICES ASSUME Init PROVE PayTypeOK
  OBVIOUS
<1>1. leave \in [Leaves -> LeaveRow] /\ period \in [Periods -> PeriodRow]
  BY DEF Init, LeaveRow, PeriodRow, LeaveTypes
<1>2. events \in [Employees -> Seq(LifecycleTypes)]
  BY DEF Init
<1>3. payslip \in [Periods -> [Employees -> PayslipRow \cup {None}]]
  BY DEF Init, Nobody
<1> QED BY <1>1, <1>2, <1>3, IdleTyped DEF Init, PayTypeOK, Statuses, Nobody

LEMMA PayInit == Init => PayInv /\ SerialInv
<1> SUFFICES ASSUME Init PROVE PayInv /\ SerialInv
  OBVIOUS
<1>1. \A r \in Requests : req[r].pc = "idle"
  BY DEF Init, IdleReq
<1> QED BY <1>1, TypeInit DEF Init, PayInv, RowsKnown, LeaveFilled, DraftHasNoPayslips, SerialInv, Running

\* Statements that only read: the rows stay, and the request's record is typed.
LEMMA StartsTyped ==
  ASSUME PayTypeOK, NEW r \in Requests, NEW pc \in {"review", "employees", "approve"},
         NEW row \in Leaves \cup Periods, Starts(r, pc, row)
  PROVE  PayTypeOK' /\ UNCHANGED rows
<1>1. [IdleReq EXCEPT !.pc = pc, !.row = row] \in RequestState
  BY IdleTyped DEF RequestState
<1> QED BY <1>1, ReqTyped DEF Starts, PayTypeOK, rows

LEMMA LifecycleReadTyped ==
  ASSUME PayTypeOK, NEW r \in Requests, NEW e \in Employees, LifecycleRead(r, e)
  PROVE  PayTypeOK' /\ UNCHANGED rows
<1>1. PICK type \in LifecycleTypes : req' = [req EXCEPT ![r] =
        [IdleReq EXCEPT !.pc = "lifecycle", !.row = e, !.type = type]]
  BY DEF LifecycleRead
<1>2. [IdleReq EXCEPT !.pc = "lifecycle", !.row = e, !.type = type] \in RequestState
  BY IdleTyped DEF RequestState
<1>3. UNCHANGED rows
  BY DEF LifecycleRead
<1> QED BY <1>1, <1>2, <1>3, ReqTyped DEF PayTypeOK, rows

LEMMA RunReadsTyped ==
  ASSUME PayTypeOK, NEW r \in Requests, RunReadEmployees(r) \/ RunReadLeave(r) \/ CutShort(r)
  PROVE  PayTypeOK' /\ UNCHANGED rows
<1>1. UNCHANGED rows
  BY DEF RunReadEmployees, RunReadLeave, CutShort
<1>2. CASE RunReadEmployees(r)
  <2> DEFINE pays == [e \in Employees |-> IF status[e] = "active" THEN structure[e] ELSE None]
  <2>1. pays \in [Employees -> Structures \cup {None}]
    BY DEF PayTypeOK
  <2>2. [req[r] EXCEPT !.pc = "leave", !.pays = pays] \in RequestState
    BY <2>1 DEF PayTypeOK, RequestState
  <2>3. req' = [req EXCEPT ![r] = [req[r] EXCEPT !.pc = "leave", !.pays = pays]]
    BY <1>2 DEF RunReadEmployees, PayTypeOK
  <2> QED BY <1>1, <2>2, <2>3, ReqTyped DEF PayTypeOK, rows
<1>3. CASE RunReadLeave(r)
  <2> DEFINE unpaid == [e \in Employees |-> {l \in UnpaidLeave(e) :
               OverlapDays(leave[l].dates, period[req[r].row].dates) > 0}]
  <2>1. unpaid \in [Employees -> SUBSET Leaves]
    BY DEF UnpaidLeave
  <2>2. [req[r] EXCEPT !.pc = "generate", !.unpaid = unpaid] \in RequestState
    BY <2>1 DEF PayTypeOK, RequestState
  <2>3. req' = [req EXCEPT ![r] = [req[r] EXCEPT !.pc = "generate", !.unpaid = unpaid]]
    BY <1>3 DEF RunReadLeave, PayTypeOK
  <2> QED BY <1>1, <2>2, <2>3, ReqTyped DEF PayTypeOK, rows
<1>4. CASE CutShort(r)
  BY <1>1, <1>4, EndsTyped DEF CutShort, PayTypeOK, rows
<1> QED BY <1>2, <1>3, <1>4

LEMMA ReviewCommitTyped ==
  ASSUME PayInv, NEW r \in Requests, ReviewCommit(r)
  PROVE  PayTypeOK'
<1> DEFINE l == req[r].row
<1>1. l \in Leaves /\ leave[l].employee \in Employees /\ leave[l].dates \in LeaveDates
  BY DEF ReviewCommit, PayInv, RowsKnown, LeaveFilled
<1>2. leave[l].type \in LeaveTypes
  BY <1>1 DEF PayInv, PayTypeOK, LeaveRow
<1>3. ASSUME NEW s \in {"approved", "rejected"}
      PROVE  [leave EXCEPT ![l].status = s] \in [Leaves -> LeaveRow]
  <2>1. ASSUME NEW row \in LeaveRow PROVE [row EXCEPT !.status = s] \in LeaveRow
    BY DEF LeaveRow
  <2> QED BY <2>1, <1>1 DEF PayInv, PayTypeOK
<1>4. leave' \in [Leaves -> LeaveRow]
  BY <1>3 DEF ReviewCommit
<1>5. Charged(l) \in [Employees -> [LeaveTypes -> Nat]]
  <2>1. used[leave[l].employee][leave[l].type] + DaysInclusive(leave[l].dates) \in Nat
    BY <1>1, <1>2, DaysTyped DEF PayInv, PayTypeOK
  <2> QED BY <1>1, <1>2, <2>1 DEF Charged, PayInv, PayTypeOK
<1>6. used' \in [Employees -> [LeaveTypes -> Nat]]
  BY <1>5 DEF ReviewCommit, PayInv, PayTypeOK
<1> QED BY <1>4, <1>6, EndsTyped DEF ReviewCommit, PayInv, PayTypeOK

LEMMA LifecycleCommitTyped ==
  ASSUME PayInv, NEW r \in Requests, LifecycleCommit(r)
  PROVE  PayTypeOK'
<1> DEFINE e == req[r].row
<1>1. e \in Employees /\ req[r].type \in LifecycleTypes
  BY DEF LifecycleCommit, PayInv, RowsKnown
<1>2. StatusAfter(req[r].type, status[e]) \in Statuses
  BY <1>1 DEF StatusAfter, LifecycleTypes, Statuses, PayInv, PayTypeOK
<1>3. status' \in [Employees -> Statuses]
  BY <1>1, <1>2 DEF LifecycleCommit, PayInv, PayTypeOK
<1>4. Append(events[e], req[r].type) \in Seq(LifecycleTypes)
  BY <1>1 DEF PayInv, PayTypeOK
<1>5. events' \in [Employees -> Seq(LifecycleTypes)]
  BY <1>1, <1>4 DEF LifecycleCommit, PayInv, PayTypeOK
<1> QED BY <1>3, <1>5, EndsTyped DEF LifecycleCommit, PayInv, PayTypeOK

LEMMA PeriodMoves ==
  ASSUME PayTypeOK, NEW p, NEW s \in {"generated", "approved"}
  PROVE  [period EXCEPT ![p].status = s] \in [Periods -> PeriodRow]
<1>1. ASSUME NEW row \in PeriodRow PROVE [row EXCEPT !.status = s] \in PeriodRow
  BY DEF PeriodRow
<1> QED BY <1>1 DEF PayTypeOK

LEMMA RunCommitTyped ==
  ASSUME PayInv, NEW r \in Requests, RunCommit(r)
  PROVE  PayTypeOK'
<1> DEFINE p == req[r].row
<1>1. p \in Periods
  BY DEF RunCommit, PayInv, RowsKnown, Running
<1>2. req[r].pays \in [Employees -> Structures \cup {None}]
      /\ req[r].unpaid \in [Employees -> SUBSET Leaves]
  BY DEF PayInv, PayTypeOK, RequestState
<1>3. payslip[p] \in [Employees -> PayslipRow \cup {None}]
  BY <1>1 DEF PayInv, PayTypeOK
<1>4. Generated(payslip[p], req[r]) \in [Employees -> PayslipRow \cup {None}]
  BY <1>2, <1>3 DEF Generated, PayslipRow
<1>5. payslip' \in [Periods -> [Employees -> PayslipRow \cup {None}]]
  BY <1>1, <1>4 DEF RunCommit, PayInv, PayTypeOK
<1>6. period' \in [Periods -> PeriodRow]
  BY PeriodMoves DEF RunCommit, PayInv
<1> QED BY <1>5, <1>6, EndsTyped DEF RunCommit, PayInv, PayTypeOK

LEMMA SingleWritesTyped ==
  ASSUME PayTypeOK,
         \/ \E e \in Employees : \/ CreateEmployee(e) \/ UpsertStructure(e)
                                 \/ \E l \in Leaves : Submit(l, e)
         \/ \E p \in Periods : CreatePeriod(p)
  PROVE  PayTypeOK'
<1>1. ASSUME NEW e \in Employees, CreateEmployee(e) PROVE PayTypeOK'
  BY <1>1 DEF CreateEmployee, PayTypeOK, Statuses
<1>2. ASSUME NEW e \in Employees, UpsertStructure(e) PROVE PayTypeOK'
  BY <1>2 DEF UpsertStructure, PayTypeOK
<1>3. ASSUME NEW e \in Employees, NEW l \in Leaves, Submit(l, e) PROVE PayTypeOK'
  <2>1. PICK t \in LeaveTypes, dates \in LeaveDates : leave' = [leave EXCEPT ![l] =
          [status |-> "pending", employee |-> e, type |-> t, dates |-> dates]]
    BY <1>3 DEF Submit
  <2>2. [status |-> "pending", employee |-> e, type |-> t, dates |-> dates] \in LeaveRow
    BY DEF LeaveRow
  <2> QED BY <1>3, <2>1, <2>2 DEF Submit, PayTypeOK
<1>4. ASSUME NEW p \in Periods, CreatePeriod(p) PROVE PayTypeOK'
  <2>1. PICK dates \in PeriodDates :
          period' = [period EXCEPT ![p] = [status |-> "draft", dates |-> dates]]
    BY <1>4 DEF CreatePeriod
  <2>2. [status |-> "draft", dates |-> dates] \in PeriodRow
    BY DEF PeriodRow
  <2> QED BY <1>4, <2>1, <2>2 DEF CreatePeriod, PayTypeOK
<1> QED BY <1>1, <1>2, <1>3, <1>4

LEMMA TypeNext == PayInv /\ [Next]_vars => PayTypeOK'
<1> SUFFICES ASSUME PayInv, [Next]_vars PROVE PayTypeOK'
  OBVIOUS
<1>0. PayTypeOK
  BY DEF PayInv
<1>1. CASE UNCHANGED vars
  BY <1>0, <1>1 DEF vars, rows, PayTypeOK
<1>2. ASSUME NEW r \in Requests, RequestStep(r) PROVE PayTypeOK'
  <2>1. ASSUME NEW l \in Leaves, ReviewRead(r, l) PROVE PayTypeOK'
    BY <1>0, <2>1, StartsTyped DEF ReviewRead
  <2>2. ASSUME NEW e \in Employees, LifecycleRead(r, e) PROVE PayTypeOK'
    BY <1>0, <2>2, LifecycleReadTyped
  <2>3. ASSUME NEW p \in Periods, RunRead(r, p) \/ ApproveRead(r, p) PROVE PayTypeOK'
    BY <1>0, <2>3, StartsTyped DEF RunRead, ApproveRead
  <2>4. CASE ReviewCommit(r)
    BY <2>4, ReviewCommitTyped
  <2>5. CASE LifecycleCommit(r)
    BY <2>5, LifecycleCommitTyped
  <2>6. CASE RunReadEmployees(r) \/ RunReadLeave(r) \/ CutShort(r)
    BY <1>0, <2>6, RunReadsTyped
  <2>7. CASE RunCommit(r)
    BY <2>7, RunCommitTyped
  <2>8. CASE ApproveWrite(r)
    BY <1>0, <2>8, PeriodMoves, EndsTyped DEF ApproveWrite, PayTypeOK
  <2> QED BY <1>2, <2>1, <2>2, <2>3, <2>4, <2>5, <2>6, <2>7, <2>8 DEF RequestStep
<1> QED BY <1>0, <1>1, <1>2, SingleWritesTyped DEF Next

-----------------------------------------------------------------------------
(* The rest of the invariant                                                *)

\* A row that is there stays, and a period that has left draft does not go back.
LEMMA RowsStay ==
  ASSUME PayInv, [Next]_vars
  PROVE  /\ \A l \in Leaves : leave[l].status # "none" => leave'[l].status # "none"
         /\ \A p \in Periods : period[p].status # "none" => period'[p].status # "none"
<1>1. leave \in [Leaves -> LeaveRow] /\ period \in [Periods -> PeriodRow]
  BY DEF PayInv, PayTypeOK
<1>2. CASE UNCHANGED vars
  BY <1>2 DEF vars, rows
<1>3. ASSUME NEW r \in Requests, ReviewCommit(r)
      PROVE  \A l \in Leaves : leave[l].status # "none" => leave'[l].status # "none"
  BY <1>1, <1>3 DEF ReviewCommit, LeaveRow
<1>4. ASSUME NEW r \in Requests, RunCommit(r) \/ ApproveWrite(r)
      PROVE  \A p \in Periods : period[p].status # "none" => period'[p].status # "none"
  BY <1>1, <1>4 DEF RunCommit, ApproveWrite, PeriodRow
<1>5. ASSUME NEW r \in Requests, RequestStep(r)
      PROVE  /\ UNCHANGED leave \/ ReviewCommit(r)
             /\ UNCHANGED period \/ RunCommit(r) \/ ApproveWrite(r)
  BY <1>5 DEF RequestStep, ReviewRead, LifecycleRead, RunRead, ApproveRead, Starts, rows,
     ReviewCommit, LifecycleCommit, RunReadEmployees, RunReadLeave, RunCommit, ApproveWrite, CutShort
<1>6. ASSUME NEW r \in Requests, RequestStep(r)
      PROVE  /\ \A l \in Leaves : leave[l].status # "none" => leave'[l].status # "none"
             /\ \A p \in Periods : period[p].status # "none" => period'[p].status # "none"
  BY <1>3, <1>4, <1>5, <1>6
<1>7. ASSUME NEW e \in Employees, NEW l \in Leaves, Submit(l, e)
      PROVE  /\ \A k \in Leaves : leave[k].status # "none" => leave'[k].status # "none"
             /\ UNCHANGED period
  BY <1>1, <1>7 DEF Submit
<1>8. ASSUME NEW p \in Periods, CreatePeriod(p)
      PROVE  /\ \A q \in Periods : period[q].status # "none" => period'[q].status # "none"
             /\ UNCHANGED leave
  BY <1>1, <1>8 DEF CreatePeriod
<1>9. ASSUME NEW e \in Employees, CreateEmployee(e) \/ UpsertStructure(e)
      PROVE  UNCHANGED <<leave, period>>
  BY <1>9 DEF CreateEmployee, UpsertStructure
<1> QED BY <1>2, <1>6, <1>7, <1>8, <1>9 DEF Next

\* Only the request that steps changes, and only to something that names a row.
LEMMA RowsKnownNext == PayInv /\ [Next]_vars => RowsKnown'
<1> SUFFICES ASSUME PayInv, [Next]_vars, NEW q \in Requests
    PROVE  /\ req'[q].pc = "review" => req'[q].row \in Leaves /\ leave'[req'[q].row].status # "none"
           /\ req'[q].pc = "lifecycle" =>
                req'[q].row \in Employees /\ req'[q].type \in LifecycleTypes
           /\ req'[q].pc \in Running \cup {"approve"} =>
                req'[q].row \in Periods /\ period'[req'[q].row].status # "none"
  BY DEF RowsKnown
<1>1. req \in [Requests -> RequestState]
  BY DEF PayInv, PayTypeOK
<1>2. CASE req'[q] = req[q]
  BY <1>2, RowsStay DEF PayInv, RowsKnown
<1>3. CASE RequestStep(q)
  <2>1. ASSUME NEW l \in Leaves, ReviewRead(q, l)
        PROVE  /\ req'[q].pc = "review" /\ req'[q].row = l
               /\ leave[l].status # "none" /\ UNCHANGED leave
    BY <1>1, <2>1 DEF ReviewRead, Starts, IdleReq, rows
  <2>2. ASSUME NEW e \in Employees, LifecycleRead(q, e)
        PROVE  req'[q].pc = "lifecycle" /\ req'[q].row = e /\ req'[q].type \in LifecycleTypes
    BY <1>1, <2>2 DEF LifecycleRead, IdleReq
  <2>3. ASSUME NEW p \in Periods, RunRead(q, p) \/ ApproveRead(q, p)
        PROVE  /\ req'[q].pc \in {"employees", "approve"} /\ req'[q].row = p
               /\ period[p].status # "none" /\ UNCHANGED period
    BY <1>1, <2>3 DEF RunRead, ApproveRead, Starts, IdleReq, rows
  <2>4. ASSUME \/ ReviewCommit(q) \/ LifecycleCommit(q) \/ RunCommit(q)
               \/ ApproveWrite(q) \/ CutShort(q)
        PROVE  req'[q].pc = "idle"
    BY <1>1, <2>4 DEF ReviewCommit, LifecycleCommit, RunCommit, ApproveWrite, CutShort, Ends, IdleReq
  <2>5. ASSUME RunReadEmployees(q) \/ RunReadLeave(q)
        PROVE  /\ req[q].pc \in Running /\ req'[q].pc \in Running
               /\ req'[q].row = req[q].row /\ UNCHANGED period
    BY <1>1, <2>5 DEF RunReadEmployees, RunReadLeave, Running, RequestState, rows
  <2>6. CASE RunReadEmployees(q) \/ RunReadLeave(q)
    BY <2>5, <2>6 DEF PayInv, RowsKnown, Running
  <2> QED BY <1>3, <2>1, <2>2, <2>3, <2>4, <2>6 DEF RequestStep, Running
<1>4. ASSUME NEW r \in Requests, r # q, RequestStep(r) PROVE req'[q] = req[q]
  BY <1>1, <1>4 DEF RequestStep, ReviewRead, LifecycleRead, RunRead, ApproveRead, Starts, Ends,
     ReviewCommit, LifecycleCommit, RunReadEmployees, RunReadLeave, RunCommit, ApproveWrite, CutShort
<1>5. ASSUME UNCHANGED vars \/ ~\E r \in Requests : RequestStep(r) PROVE req'[q] = req[q]
  BY <1>5 DEF Next, vars, CreateEmployee, UpsertStructure, Submit, CreatePeriod
<1> QED BY <1>2, <1>3, <1>4, <1>5

LEMMA LeaveFilledNext == PayInv /\ [Next]_vars => LeaveFilled'
<1> SUFFICES ASSUME PayInv, [Next]_vars, NEW k \in Leaves, leave'[k].status # "none"
    PROVE  leave'[k].employee \in Employees /\ leave'[k].dates \in LeaveDates
  BY DEF LeaveFilled
<1>1. leave \in [Leaves -> LeaveRow]
  BY DEF PayInv, PayTypeOK
<1>2. CASE leave' = leave
  BY <1>2 DEF PayInv, LeaveFilled
<1>3. ASSUME NEW e \in Employees, NEW l \in Leaves, Submit(l, e)
      PROVE  leave'[k].employee \in Employees /\ leave'[k].dates \in LeaveDates
  BY <1>1, <1>3 DEF Submit, PayInv, LeaveFilled
<1>4. ASSUME NEW r \in Requests, ReviewCommit(r)
      PROVE  leave'[k].employee \in Employees /\ leave'[k].dates \in LeaveDates
  <2>1. leave[req[r].row].status # "none"
    BY <1>4 DEF ReviewCommit, PayInv, RowsKnown
  <2>2. /\ leave'[k].employee = leave[k].employee /\ leave'[k].dates = leave[k].dates
        /\ leave[k].status # "none"
    BY <1>1, <1>4, <2>1 DEF ReviewCommit, LeaveRow
  <2> QED BY <2>2 DEF PayInv, LeaveFilled
<1>5. ASSUME leave' # leave
      PROVE  \/ \E e \in Employees, l \in Leaves : Submit(l, e)
             \/ \E r \in Requests : ReviewCommit(r)
  BY <1>5 DEF Next, vars, rows, RequestStep, ReviewRead, LifecycleRead, RunRead, ApproveRead, Starts,
     LifecycleCommit, RunReadEmployees, RunReadLeave, RunCommit, ApproveWrite, CutShort,
     CreateEmployee, UpsertStructure, CreatePeriod
<1> QED BY <1>2, <1>3, <1>4, <1>5

\* The steps that touch periods or payslips.
LEMMA PeriodSteps ==
  ASSUME [Next]_vars, UNCHANGED <<period, payslip>> => FALSE
  PROVE  \/ \E p \in Periods : CreatePeriod(p)
         \/ \E r \in Requests : RunCommit(r) \/ ApproveWrite(r)
BY DEF Next, vars, rows, RequestStep, ReviewRead, LifecycleRead, RunRead, ApproveRead, Starts,
     LifecycleCommit, ReviewCommit, RunReadEmployees, RunReadLeave, CutShort,
     CreateEmployee, UpsertStructure, Submit

LEMMA DraftNext == PayInv /\ [Next]_vars => DraftHasNoPayslips'
<1> SUFFICES ASSUME PayInv, [Next]_vars, NEW p \in Periods, period'[p].status \in {"none", "draft"}
    PROVE  payslip'[p] = Nobody
  BY DEF DraftHasNoPayslips, Nobody
<1>1. /\ period \in [Periods -> PeriodRow]
      /\ payslip \in [Periods -> [Employees -> PayslipRow \cup {None}]]
  BY DEF PayInv, PayTypeOK
<1>2. CASE UNCHANGED <<period, payslip>>
  BY <1>2 DEF PayInv, DraftHasNoPayslips
<1>3. ASSUME NEW q \in Periods, CreatePeriod(q) PROVE payslip'[p] = Nobody
  BY <1>1, <1>3 DEF CreatePeriod, PayInv, DraftHasNoPayslips
<1>4. ASSUME NEW r \in Requests, RunCommit(r) PROVE payslip'[p] = Nobody
  <2>1. p # req[r].row
    BY <1>1, <1>4 DEF RunCommit, PeriodRow
  <2>2. period'[p] = period[p] /\ payslip'[p] = payslip[p]
    BY <1>1, <1>4, <2>1 DEF RunCommit
  <2> QED BY <2>2 DEF PayInv, DraftHasNoPayslips
<1>5. ASSUME NEW r \in Requests, ApproveWrite(r) PROVE payslip'[p] = Nobody
  <2>1. p # req[r].row
    BY <1>1, <1>5 DEF ApproveWrite, PeriodRow
  <2>2. period'[p] = period[p] /\ payslip'[p] = payslip[p]
    BY <1>1, <1>5, <2>1 DEF ApproveWrite
  <2> QED BY <2>2 DEF PayInv, DraftHasNoPayslips
<1> QED BY <1>2, <1>3, <1>4, <1>5, PeriodSteps

LEMMA PayNext == PayInv /\ [Next]_vars => PayInv'
BY TypeNext, RowsKnownNext, LeaveFilledNext, DraftNext DEF PayInv

-----------------------------------------------------------------------------
(* One request at a time                                                    *)

LEMMA SerialNext == PayInv /\ SerialInv /\ [Next]_vars => SerialInv'
<1> SUFFICES ASSUME PayInv, SerialInv, [Next]_vars, ~overlap'
    PROVE  /\ \A r, q \in Requests : req'[r].pc # "idle" /\ req'[q].pc # "idle" => r = q
           /\ \A r \in Requests : req'[r].pc \in Running => period'[req'[r].row].status = "draft"
  BY DEF SerialInv
<1>0. req \in [Requests -> RequestState] /\ period \in [Periods -> PeriodRow]
  BY DEF PayInv, PayTypeOK
<1>1. ~overlap
  BY DEF Next, vars, rows, RequestStep, ReviewRead, LifecycleRead, RunRead, ApproveRead, Starts,
     ReviewCommit, LifecycleCommit, RunReadEmployees, RunReadLeave, RunCommit, ApproveWrite, CutShort,
     CreateEmployee, UpsertStructure, Submit, CreatePeriod
<1>2. ASSUME NEW r \in Requests, RequestStep(r)
      PROVE  \A q \in Requests : q # r => req'[q] = req[q] /\ req[q].pc = "idle"
  <2>1. \A q \in Requests : q # r => req[q].pc = "idle"
    BY <1>1, <1>2 DEF SerialInv, RequestStep, ReviewRead, LifecycleRead, RunRead, ApproveRead, Starts,
     MayStart, ReviewCommit, LifecycleCommit, RunReadEmployees, RunReadLeave, RunCommit, ApproveWrite,
     CutShort
  <2>2. \A q \in Requests : q # r => req'[q] = req[q]
    BY <1>0, <1>2 DEF RequestStep, ReviewRead, LifecycleRead, RunRead, ApproveRead, Starts, Ends,
     ReviewCommit, LifecycleCommit, RunReadEmployees, RunReadLeave, RunCommit, ApproveWrite, CutShort
  <2> QED BY <2>1, <2>2
<1>3. ASSUME NEW r \in Requests, RequestStep(r), req'[r].pc \in Running
      PROVE  period'[req'[r].row].status = "draft"
  <2>1. ASSUME NEW p \in Periods, RunRead(r, p)
        PROVE  req'[r].row = p /\ period[p].status = "draft" /\ UNCHANGED period
    BY <1>0, <2>1 DEF RunRead, Starts, IdleReq, rows
  <2>2. ASSUME RunReadEmployees(r) \/ RunReadLeave(r)
        PROVE  req[r].pc \in Running /\ req'[r].row = req[r].row /\ UNCHANGED period
    BY <1>0, <2>2 DEF RunReadEmployees, RunReadLeave, Running, RequestState, rows
  <2>3. ASSUME NEW l, ReviewRead(r, l) \/ ApproveRead(r, l) PROVE req'[r].pc \notin Running
    BY <1>0, <2>3 DEF ReviewRead, ApproveRead, Starts, IdleReq, Running
  <2>4. ASSUME NEW e, LifecycleRead(r, e) PROVE req'[r].pc \notin Running
    BY <1>0, <2>4 DEF LifecycleRead, IdleReq, Running
  <2>5. ASSUME \/ ReviewCommit(r) \/ LifecycleCommit(r) \/ RunCommit(r)
               \/ ApproveWrite(r) \/ CutShort(r)
        PROVE  req'[r].pc \notin Running
    BY <1>0, <2>5 DEF ReviewCommit, LifecycleCommit, RunCommit, ApproveWrite, CutShort, Ends,
       IdleReq, Running
  <2>6. CASE RunReadEmployees(r) \/ RunReadLeave(r)
    BY <1>1, <2>2, <2>6 DEF SerialInv
  <2> QED BY <1>3, <2>1, <2>3, <2>4, <2>5, <2>6 DEF RequestStep
<1>4. CASE \E r \in Requests : RequestStep(r)
  BY <1>2, <1>3, <1>4 DEF Running
<1>5. ASSUME UNCHANGED vars \/ ~\E r \in Requests : RequestStep(r)
      PROVE  /\ UNCHANGED req
             /\ \A p \in Periods : period[p].status = "draft" => period'[p].status = "draft"
  BY <1>0, <1>5 DEF Next, vars, rows, CreateEmployee, UpsertStructure, Submit, CreatePeriod
<1>6. ASSUME UNCHANGED vars \/ ~\E r \in Requests : RequestStep(r),
             NEW r \in Requests, req'[r].pc \in Running
      PROVE  period'[req'[r].row].status = "draft"
  BY <1>1, <1>5, <1>6 DEF SerialInv, PayInv, RowsKnown
<1> QED BY <1>1, <1>4, <1>5, <1>6 DEF SerialInv

Stands(p) == ~overlap /\ period[p].status = "approved" =>
               period'[p] = period[p] /\ payslip'[p] = payslip[p]

LEMMA StandsNext ==
  ASSUME PayInv, SerialInv, [Next]_vars, NEW p \in Periods
  PROVE  Stands(p)
<1> SUFFICES ASSUME ~overlap, period[p].status = "approved"
    PROVE  period'[p] = period[p] /\ payslip'[p] = payslip[p]
  BY DEF Stands
<1>1. /\ period \in [Periods -> PeriodRow]
      /\ payslip \in [Periods -> [Employees -> PayslipRow \cup {None}]]
  BY DEF PayInv, PayTypeOK
<1>2. ASSUME NEW q \in Periods, CreatePeriod(q)
      PROVE  period'[p] = period[p] /\ payslip'[p] = payslip[p]
  BY <1>1, <1>2 DEF CreatePeriod
<1>3. ASSUME NEW r \in Requests, RunCommit(r)
      PROVE  period'[p] = period[p] /\ payslip'[p] = payslip[p]
  <2>1. p # req[r].row
    BY <1>3 DEF RunCommit, SerialInv, Running
  <2> QED BY <1>1, <1>3, <2>1 DEF RunCommit
<1>4. ASSUME NEW r \in Requests, ApproveWrite(r)
      PROVE  period'[p] = period[p] /\ payslip'[p] = payslip[p]
  <2>1. \A row \in PeriodRow : row.status = "approved" => [row EXCEPT !.status = "approved"] = row
    BY DEF PeriodRow
  <2>2. period[p] \in PeriodRow
    BY <1>1
  <2> QED BY <1>1, <1>4, <2>1, <2>2 DEF ApproveWrite
<1> QED BY <1>2, <1>3, <1>4, PeriodSteps

-----------------------------------------------------------------------------

LEMMA Invariance == Spec => [](PayInv /\ SerialInv)
<1>1. Init => PayInv /\ SerialInv
  BY PayInit
<1>2. PayInv /\ SerialInv /\ [Next]_vars => (PayInv /\ SerialInv)'
  BY PayNext, SerialNext
<1> QED BY <1>1, <1>2, PTL DEF Spec

\* Every variable keeps its type, in any interleaving and wherever handlers are
\* cut short.
THEOREM TypeCorrect == Spec => []PayTypeOK
<1>1. PayInv => PayTypeOK
  BY DEF PayInv
<1> QED BY <1>1, Invariance, PTL

\* However runs interleave and die, a period that can still be run has no
\* payslips: PayrollPeriodsService.run writes all of them or none.
THEOREM NoStrayPayslips == Spec => []DraftHasNoPayslips
<1>1. PayInv => DraftHasNoPayslips
  BY DEF PayInv
<1> QED BY <1>1, Invariance, PTL

\* One request at a time, an approved period and the payslips employees see in it
\* never change again.
THEOREM PublishedForGood == Spec => PublishedStands
<1>1. PayInv /\ SerialInv /\ [Next]_vars => [\A p \in Periods : Stands(p)]_vars
  BY StandsNext
<1>2. Spec => [][\A p \in Periods : Stands(p)]_vars
  BY <1>1, Invariance, PTL DEF Spec
<1> QED BY <1>2 DEF PublishedStands, Stands

-----------------------------------------------------------------------------
(* The history of an employee                                               *)

\* Nothing happens to somebody who was never hired, and who is about to be
\* recorded as leaving is employed: as the handler saw, if nobody came between.
HistoryInv ==
  /\ HistoryTellsStatus
  /\ \A e \in Employees : status[e] = "none" => events[e] = <<>>
  /\ \A r \in Requests : req[r].pc = "lifecycle" =>
       /\ status[req[r].row] # "none"
       /\ ~overlap => status[req[r].row] = "active"

\* What HistoryTellsStatus says of one history and one status.
Tells(s, now) ==
  \/ (\A i \in DOMAIN s : s[i] = "transfer") /\ now = "active"
  \/ \E i \in DOMAIN s : /\ s[i] # "transfer"
                         /\ \A j \in DOMAIN s : s[j] # "transfer" => j <= i
                         /\ now = StatusAfter(s[i], "active")

AtMostLast(s) == \A i \in DOMAIN s : s[i] # "transfer" => i = Len(s)

LEMMA HistoryRestated ==
  HistoryTellsStatus <=> \A e \in Employees : /\ status[e] # "none" => Tells(events[e], status[e])
                                              /\ ~overlap => AtMostLast(events[e])
BY DEF HistoryTellsStatus, Leavings, Tells, AtMostLast

LEMMA HistoryRestatedNext ==
  HistoryTellsStatus' <=>
    \A e \in Employees : /\ status'[e] # "none" => Tells(events'[e], status'[e])
                         /\ ~overlap' => AtMostLast(events'[e])
BY DEF HistoryTellsStatus, Leavings, Tells, AtMostLast

\* One more event, and the status it leads to.
LEMMA TellsAppend ==
  ASSUME NEW s \in Seq(LifecycleTypes), NEW type \in LifecycleTypes, NEW now, Tells(s, now)
  PROVE  Tells(Append(s, type), StatusAfter(type, now))
<1> DEFINE u == Append(s, type)
           n == Len(s) + 1
<1>1. /\ DOMAIN s = 1 .. Len(s) /\ DOMAIN u = 1 .. n /\ n \in Nat
      /\ u[n] = type /\ \A i \in 1 .. Len(s) : u[i] = s[i]
  OBVIOUS
<1>2. CASE type = "transfer"
  <2>1. StatusAfter(type, now) = now
    BY <1>2 DEF StatusAfter
  <2>2. CASE (\A i \in DOMAIN s : s[i] = "transfer") /\ now = "active"
    <3>1. \A i \in DOMAIN u : u[i] = "transfer"
      BY <1>1, <1>2, <2>2
    <3> QED BY <2>1, <2>2, <3>1 DEF Tells
  <2>3. CASE \E i \in DOMAIN s : /\ s[i] # "transfer"
                                 /\ \A j \in DOMAIN s : s[j] # "transfer" => j <= i
                                 /\ now = StatusAfter(s[i], "active")
    <3>1. PICK i \in DOMAIN s : /\ s[i] # "transfer"
                                /\ \A j \in DOMAIN s : s[j] # "transfer" => j <= i
                                /\ now = StatusAfter(s[i], "active")
      BY <2>3
    <3>2. i \in DOMAIN u /\ u[i] = s[i] /\ \A j \in DOMAIN u : u[j] # "transfer" => j <= i
      BY <1>1, <1>2, <3>1
    <3> QED BY <2>1, <3>1, <3>2 DEF Tells
  <2> QED BY <2>2, <2>3 DEF Tells
<1>3. CASE type # "transfer"
  <2>1. StatusAfter(type, now) = StatusAfter(type, "active")
    BY <1>3 DEF StatusAfter, LifecycleTypes
  <2>2. n \in DOMAIN u /\ u[n] = type /\ \A j \in DOMAIN u : j <= n
    BY <1>1
  <2> QED BY <1>3, <2>1, <2>2 DEF Tells
<1> QED BY <1>2, <1>3

\* A history that ended with a leaving has a status that is not active.
LEMMA ActiveNeverLeft ==
  ASSUME NEW s \in Seq(LifecycleTypes), Tells(s, "active")
  PROVE  \A i \in DOMAIN s : s[i] = "transfer"
<1>1. \A i \in DOMAIN s : s[i] # "transfer" => StatusAfter(s[i], "active") # "active"
  BY DEF StatusAfter, LifecycleTypes
<1> QED BY <1>1 DEF Tells

LEMMA LastAppend ==
  ASSUME NEW s \in Seq(LifecycleTypes), NEW type \in LifecycleTypes,
         \A i \in DOMAIN s : s[i] = "transfer"
  PROVE  AtMostLast(Append(s, type))
BY DEF AtMostLast

LEMMA OverlapStays == [Next]_vars => overlap' = overlap
BY DEF Next, vars, rows, RequestStep, ReviewRead, LifecycleRead, RunRead, ApproveRead, Starts,
   ReviewCommit, LifecycleCommit, RunReadEmployees, RunReadLeave, RunCommit, ApproveWrite, CutShort,
   CreateEmployee, UpsertStructure, Submit, CreatePeriod

\* The two handlers that write what HistoryInv is about.
LEMMA HistoryWriters ==
  ASSUME PayInv, [Next]_vars
  PROVE  \/ UNCHANGED <<status, events>>
         \/ \E e \in Employees : CreateEmployee(e)
         \/ \E r \in Requests : LifecycleCommit(r)
BY DEF Next, vars, rows, RequestStep, ReviewRead, LifecycleRead, RunRead, ApproveRead, Starts,
   ReviewCommit, LifecycleCommit, RunReadEmployees, RunReadLeave, RunCommit, ApproveWrite, CutShort,
   CreateEmployee, UpsertStructure, Submit, CreatePeriod

\* A lifecycle action that is pending was so before, or has just read.
LEMMA LifecyclePending ==
  ASSUME PayInv, [Next]_vars, NEW q \in Requests, req'[q].pc = "lifecycle"
  PROVE  \/ req'[q] = req[q]
         \/ status[req'[q].row] = "active" /\ UNCHANGED status
<1>1. req \in [Requests -> RequestState]
  BY DEF PayInv, PayTypeOK
<1>2. CASE RequestStep(q)
  <2>1. ASSUME NEW l, ReviewRead(q, l) \/ RunRead(q, l) \/ ApproveRead(q, l)
        PROVE  req'[q].pc # "lifecycle"
    BY <1>1, <2>1 DEF ReviewRead, RunRead, ApproveRead, Starts, IdleReq
  <2>2. ASSUME NEW e \in Employees, LifecycleRead(q, e)
        PROVE  status[req'[q].row] = "active" /\ UNCHANGED status
    BY <1>1, <2>2 DEF LifecycleRead, IdleReq, rows
  <2>3. ASSUME \/ ReviewCommit(q) \/ LifecycleCommit(q) \/ RunCommit(q)
               \/ ApproveWrite(q) \/ CutShort(q)
        PROVE  req'[q].pc = "idle"
    BY <1>1, <2>3 DEF ReviewCommit, LifecycleCommit, RunCommit, ApproveWrite, CutShort, Ends, IdleReq
  <2>4. ASSUME RunReadEmployees(q) \/ RunReadLeave(q) PROVE req'[q].pc # "lifecycle"
    BY <1>1, <2>4 DEF RunReadEmployees, RunReadLeave, RequestState
  <2> QED BY <1>2, <2>1, <2>2, <2>3, <2>4 DEF RequestStep
<1>3. ASSUME NEW r \in Requests, r # q, RequestStep(r) PROVE req'[q] = req[q]
  BY <1>1, <1>3 DEF RequestStep, ReviewRead, LifecycleRead, RunRead, ApproveRead, Starts, Ends,
     ReviewCommit, LifecycleCommit, RunReadEmployees, RunReadLeave, RunCommit, ApproveWrite, CutShort
<1>4. ASSUME UNCHANGED vars \/ ~\E r \in Requests : RequestStep(r) PROVE req'[q] = req[q]
  BY <1>4 DEF Next, vars, CreateEmployee, UpsertStructure, Submit, CreatePeriod
<1> QED BY <1>2, <1>3, <1>4

LEMMA HistoryNext ==
  ASSUME PayInv, PayInv', SerialInv, HistoryInv, [Next]_vars
  PROVE  HistoryInv'
<1>1. /\ status \in [Employees -> Statuses]
      /\ events \in [Employees -> Seq(LifecycleTypes)]
      /\ req \in [Requests -> RequestState]
      /\ overlap' = overlap
  BY OverlapStays DEF PayInv, PayTypeOK
<1>2. ASSUME NEW q \in Requests, req'[q].pc = "lifecycle", UNCHANGED status
      PROVE  status'[req'[q].row] # "none" /\ (~overlap' => status'[req'[q].row] = "active")
  BY <1>1, <1>2, LifecyclePending DEF HistoryInv
<1>3. CASE UNCHANGED <<status, events>>
  BY <1>1, <1>2, <1>3, HistoryRestated, HistoryRestatedNext DEF HistoryInv
<1>4. ASSUME NEW e \in Employees, CreateEmployee(e) PROVE HistoryInv'
  <2>1. /\ status' = [status EXCEPT ![e] = "active"] /\ UNCHANGED <<events, req>>
        /\ events[e] = <<>>
    BY <1>4 DEF CreateEmployee, HistoryInv
  <2>2. Tells(<<>>, "active")
    BY DEF Tells
  <2>3. HistoryTellsStatus'
    BY <1>1, <2>1, <2>2, HistoryRestated, HistoryRestatedNext DEF HistoryInv
  <2>4. \A r \in Requests : req[r].pc = "lifecycle" => req[r].row \in Employees
    BY DEF PayInv, RowsKnown
  <2> QED BY <1>1, <2>1, <2>3, <2>4 DEF HistoryInv
<1>5. ASSUME NEW r \in Requests, LifecycleCommit(r) PROVE HistoryInv'
  <2>1. PICK e, type : e = req[r].row /\ type = req[r].type
    OBVIOUS
  <2>2. /\ e \in Employees /\ type \in LifecycleTypes /\ status[e] # "none"
        /\ ~overlap => status[e] = "active"
    BY <1>5, <2>1 DEF LifecycleCommit, PayInv, RowsKnown, HistoryInv
  <2>3. /\ events' = [events EXCEPT ![e] = Append(@, type)]
        /\ status' = [status EXCEPT ![e] = StatusAfter(type, @)]
    BY <1>5, <2>1 DEF LifecycleCommit
  <2>4. Tells(events'[e], status'[e])
    BY <1>1, <2>2, <2>3, TellsAppend, HistoryRestated DEF HistoryInv
  <2>5. ~overlap => AtMostLast(events'[e])
    BY <1>1, <2>2, <2>3, ActiveNeverLeft, LastAppend, HistoryRestated DEF HistoryInv
  <2>6. HistoryTellsStatus'
    BY <1>1, <2>2, <2>3, <2>4, <2>5, HistoryRestated, HistoryRestatedNext DEF HistoryInv
  <2>7. status'[e] # "none"
    BY <1>1, <2>2, <2>3 DEF StatusAfter, LifecycleTypes
  <2>8. ASSUME NEW q \in Requests, req'[q].pc = "lifecycle"
        PROVE  status'[req'[q].row] # "none" /\ (~overlap' => status'[req'[q].row] = "active")
    <3>1. q # r /\ req'[q] = req[q]
      BY <1>1, <1>5, <2>8 DEF LifecycleCommit, Ends, IdleReq
    <3>2. overlap
      BY <1>5, <2>8, <3>1 DEF SerialInv, LifecycleCommit
    <3>3. req[q].row \in Employees /\ status[req[q].row] # "none"
      BY <2>8, <3>1 DEF PayInv, RowsKnown, HistoryInv
    <3> QED BY <1>1, <2>3, <2>7, <3>1, <3>2, <3>3
  <2> QED BY <1>1, <2>2, <2>3, <2>6, <2>7, <2>8 DEF HistoryInv
<1> QED BY <1>3, <1>4, <1>5, HistoryWriters

LEMMA HistoryInit == Init => HistoryInv
BY DEF Init, HistoryInv, HistoryTellsStatus, Leavings, IdleReq

\* However lifecycle actions interleave, an employee's status is the one the
\* latest resignation or termination on record left; one request at a time,
\* nobody leaves twice and nothing is recorded of who has left.
THEOREM HistoryTells == Spec => []HistoryTellsStatus
<1>1. PayInv /\ PayInv' /\ SerialInv /\ HistoryInv /\ [Next]_vars => HistoryInv'
  BY HistoryNext
<1>2. HistoryInv => HistoryTellsStatus
  BY DEF HistoryInv
<1> QED BY Invariance, HistoryInit, <1>1, <1>2, PTL DEF Spec

-----------------------------------------------------------------------------
(* Leave and its balances                                                   *)

Submitted == {l \in Leaves : leave[l].status # "none"}

\* The leave that counts against a balance.
Approved(e, t) ==
  {l \in Leaves : leave[l].status = "approved" /\ leave[l].employee = e /\ leave[l].type = t}

\* The days of the leaves of a set, added up from rows `asked`.
Days(asked, S) == SumFunctionOnSet([l \in Leaves |-> DaysInclusive(asked[l].dates)], S)

\* Beside LeaveAccounted: the sums are finite, and a review that has checked its
\* request still finds it pending when nothing interleaves.
LeaveInv ==
  /\ IsFiniteSet(Submitted)
  /\ ~overlap => \A r \in Requests : req[r].pc = "review" => leave[req[r].row].status = "pending"
  /\ LeaveAccounted

LEMMA DaysAre ==
  ASSUME NEW asked, NEW S \in SUBSET Leaves, IsFiniteSet(S)
  PROVE  (CHOOSE iter : iter = [s \in SUBSET S |-> IF s = {} THEN 0
             ELSE DaysInclusive(asked[Pick(s)].dates) + iter[s \ {Pick(s)}]])[S] = Days(asked, S)
<1> DEFINE f == [l \in Leaves |-> DaysInclusive(asked[l].dates)]
           Iter(g) == g = [s \in SUBSET S |-> IF s = {} THEN 0
                             ELSE DaysInclusive(asked[Pick(s)].dates) + g[s \ {Pick(s)}]]
<1>2. ASSUME NEW s \in SUBSET S, s # {} PROVE DaysInclusive(asked[Pick(s)].dates) = f[Pick(s)]
  BY <1>2, PickIn
<1>3. ASSUME NEW g PROVE Iter(g) <=> Sums(f, S, g)
  <2> HIDE DEF f
  <2> QED BY <1>2 DEF Sums
<1>4. PICK g : Sums(f, S, g)
  <2> HIDE DEF f
  <2> QED BY SumsExist
<1>5. Sums(f, S, CHOOSE h : Iter(h))
  <2> HIDE DEF f, Iter
  <2> QED BY <1>3, <1>4
<1>6. SumFunctionOnSet(f, S) = (CHOOSE h : Iter(h))[S]
  <2> HIDE DEF f, Iter
  <2> QED BY <1>5, SumIs
<1> QED BY <1>6 DEF Days

LEMMA ApprovedDaysNow ==
  ASSUME NEW e, NEW t, IsFiniteSet(Submitted)
  PROVE  /\ Approved(e, t) \in SUBSET Leaves /\ IsFiniteSet(Approved(e, t))
         /\ ApprovedDays(e, t) = Days(leave, Approved(e, t))
<1>1. Approved(e, t) \in SUBSET Leaves /\ Approved(e, t) \subseteq Submitted
  BY DEF Approved, Submitted
<1>2. IsFiniteSet(Approved(e, t))
  BY <1>1, FS_Subset
<1> DEFINE S == Approved(e, t)
<1>3. ApprovedDays(e, t) = (CHOOSE iter : iter = [s \in SUBSET S |-> IF s = {} THEN 0
             ELSE DaysInclusive(leave[Pick(s)].dates) + iter[s \ {Pick(s)}]])[S]
  BY DEF ApprovedDays, MapThenSumSet, MapThenFoldSet, Pick, Approved
<1> HIDE DEF S
<1>4. S \in SUBSET Leaves /\ IsFiniteSet(S)
  BY <1>1, <1>2 DEF S
<1>5. ApprovedDays(e, t) = Days(leave, S)
  BY <1>3, <1>4, DaysAre
<1> QED BY <1>1, <1>2, <1>5 DEF S

LEMMA ApprovedDaysNext ==
  ASSUME NEW e, NEW t, IsFiniteSet(Submitted')
  PROVE  ApprovedDays(e, t)' = Days(leave', Approved(e, t)')
<1>1. Approved(e, t)' \in SUBSET Leaves /\ Approved(e, t)' \subseteq Submitted'
  BY DEF Approved, Submitted
<1>2. IsFiniteSet(Approved(e, t)')
  BY <1>1, FS_Subset
<1>3. PICK S : S = Approved(e, t)'
  OBVIOUS
<1>4. ApprovedDays(e, t)' = (CHOOSE iter : iter = [s \in SUBSET S |-> IF s = {} THEN 0
             ELSE DaysInclusive(leave'[Pick(s)].dates) + iter[s \ {Pick(s)}]])[S]
  BY <1>3 DEF ApprovedDays, MapThenSumSet, MapThenFoldSet, Pick, Approved
<1>5. S \in SUBSET Leaves /\ IsFiniteSet(S)
  BY <1>1, <1>2, <1>3
<1>6. ApprovedDays(e, t)' = Days(leave', S)
  BY <1>4, <1>5, DaysAre
<1> QED BY <1>3, <1>6

\* Leaves with the same dates come to the same days.
LEMMA DaysSame ==
  ASSUME NEW asked, NEW then, NEW S \in SUBSET Leaves, IsFiniteSet(S),
         \A l \in S : then[l].dates = asked[l].dates
  PROVE  Days(then, S) = Days(asked, S)
<1> DEFINE f == [l \in Leaves |-> DaysInclusive(asked[l].dates)]
           g == [l \in Leaves |-> DaysInclusive(then[l].dates)]
<1>1. \A l \in S : g[l] = f[l]
  OBVIOUS
<1> HIDE DEF f, g
<1>2. SumFunctionOnSet(g, S) = SumFunctionOnSet(f, S)
  BY <1>1, SumSame
<1> QED BY <1>2 DEF Days, f, g

\* One leave more adds its days; one less leaves no more than there was.
LEMMA DaysAdd ==
  ASSUME NEW asked, NEW S \in SUBSET Leaves, IsFiniteSet(S), NEW l \in Leaves,
         \A k \in S \cup {l} : asked[k].dates \in LeaveDates
  PROVE  /\ Days(asked, S) \in Nat
         /\ l \notin S => Days(asked, S \cup {l}) = Days(asked, S) + DaysInclusive(asked[l].dates)
         /\ Days(asked, S \ {l}) \in Nat /\ Days(asked, S \ {l}) <= Days(asked, S)
<1> DEFINE f == [k \in Leaves |-> DaysInclusive(asked[k].dates)]
<1>1. \A k \in S \cup {l} : f[k] \in Nat
  BY DaysTyped
<1>2. f[l] = DaysInclusive(asked[l].dates)
  OBVIOUS
<1> HIDE DEF f
<1>3. ASSUME l \notin S
      PROVE  SumFunctionOnSet(f, S \cup {l}) = f[l] + SumFunctionOnSet(f, S)
  <2>1. \A k \in S \cup {l} : f[k] \in Int
    BY <1>1
  <2> QED BY <1>3, <2>1, SumAdd
<1>4. PICK T \in SUBSET S : T = S \ {l}
  OBVIOUS
<1>5. /\ SumFunctionOnSet(f, S) \in Nat
      /\ SumFunctionOnSet(f, T) \in Nat /\ SumFunctionOnSet(f, T) <= SumFunctionOnSet(f, S)
  BY <1>1, SumMonotone
<1>6. f[l] \in Nat
  BY <1>1
<1>7. ASSUME l \notin S
      PROVE  SumFunctionOnSet(f, S \cup {l}) = SumFunctionOnSet(f, S) + f[l]
  BY <1>3, <1>5, <1>6, <1>7
<1> QED BY <1>2, <1>4, <1>5, <1>7 DEF Days, f

\* The handlers that write leaves or balances.
LEMMA LeaveWriters ==
  ASSUME PayInv, [Next]_vars
  PROVE  \/ UNCHANGED <<leave, used>>
         \/ \E l \in Leaves, e \in Employees : Submit(l, e)
         \/ \E r \in Requests : ReviewCommit(r)
BY DEF Next, vars, rows, RequestStep, ReviewRead, LifecycleRead, RunRead, ApproveRead, Starts,
   ReviewCommit, LifecycleCommit, RunReadEmployees, RunReadLeave, RunCommit, ApproveWrite, CutShort,
   CreateEmployee, UpsertStructure, Submit, CreatePeriod

LEMMA SubmittedNext ==
  ASSUME PayInv, IsFiniteSet(Submitted), [Next]_vars PROVE IsFiniteSet(Submitted')
<1>1. leave \in [Leaves -> LeaveRow]
  BY DEF PayInv, PayTypeOK
<1>2. CASE UNCHANGED <<leave, used>>
  <2>1. Submitted' = Submitted
    BY <1>2 DEF Submitted
  <2> QED BY <2>1
<1>3. ASSUME NEW l \in Leaves, NEW e \in Employees, Submit(l, e) PROVE IsFiniteSet(Submitted')
  <2>1. Submitted' \subseteq Submitted \cup {l}
    BY <1>1, <1>3 DEF Submit, Submitted
  <2>2. IsFiniteSet(Submitted \cup {l})
    BY FS_AddElement
  <2> QED BY <2>1, <2>2, FS_Subset
<1>4. ASSUME NEW r \in Requests, ReviewCommit(r) PROVE IsFiniteSet(Submitted')
  <2>1. PICK l : l = req[r].row
    OBVIOUS
  <2>2. l \in Leaves /\ leave[l].status # "none"
    BY <1>4, <2>1 DEF ReviewCommit, PayInv, RowsKnown
  <2>3. PICK s : leave' = [leave EXCEPT ![l].status = s]
    BY <1>4, <2>1 DEF ReviewCommit
  <2>4. Submitted' \subseteq Submitted
    BY <1>1, <2>2, <2>3 DEF Submitted
  <2> QED BY <2>4, FS_Subset
<1> QED BY <1>2, <1>3, <1>4, LeaveWriters

\* A review that is pending was so before, or has just read its request.
LEMMA ReviewPending ==
  ASSUME PayInv, [Next]_vars, NEW q \in Requests, req'[q].pc = "review"
  PROVE  \/ req'[q] = req[q]
         \/ leave[req'[q].row].status = "pending" /\ UNCHANGED leave
<1>1. req \in [Requests -> RequestState]
  BY DEF PayInv, PayTypeOK
<1>2. CASE RequestStep(q)
  <2>1. ASSUME NEW p, RunRead(q, p) \/ ApproveRead(q, p) PROVE req'[q].pc # "review"
    BY <1>1, <2>1 DEF RunRead, ApproveRead, Starts, IdleReq
  <2>2. ASSUME NEW l \in Leaves, ReviewRead(q, l)
        PROVE  leave[req'[q].row].status = "pending" /\ UNCHANGED leave
    BY <1>1, <2>2 DEF ReviewRead, Starts, IdleReq, rows
  <2>3. ASSUME \/ ReviewCommit(q) \/ LifecycleCommit(q) \/ RunCommit(q)
               \/ ApproveWrite(q) \/ CutShort(q)
        PROVE  req'[q].pc = "idle"
    BY <1>1, <2>3 DEF ReviewCommit, LifecycleCommit, RunCommit, ApproveWrite, CutShort, Ends, IdleReq
  <2>4. ASSUME RunReadEmployees(q) \/ RunReadLeave(q) PROVE req'[q].pc # "review"
    BY <1>1, <2>4 DEF RunReadEmployees, RunReadLeave, RequestState
  <2>5. ASSUME NEW e \in Employees, LifecycleRead(q, e) PROVE req'[q].pc # "review"
    BY <1>1, <2>5 DEF LifecycleRead, IdleReq
  <2> QED BY <1>2, <2>1, <2>2, <2>3, <2>4, <2>5 DEF RequestStep
<1>3. ASSUME NEW r \in Requests, r # q, RequestStep(r) PROVE req'[q] = req[q]
  BY <1>1, <1>3 DEF RequestStep, ReviewRead, LifecycleRead, RunRead, ApproveRead, Starts, Ends,
     ReviewCommit, LifecycleCommit, RunReadEmployees, RunReadLeave, RunCommit, ApproveWrite, CutShort
<1>4. ASSUME UNCHANGED vars \/ ~\E r \in Requests : RequestStep(r) PROVE req'[q] = req[q]
  BY <1>4 DEF Next, vars, CreateEmployee, UpsertStructure, Submit, CreatePeriod
<1> QED BY <1>2, <1>3, <1>4

LEMMA StillPending ==
  ASSUME PayInv, SerialInv, LeaveInv, [Next]_vars, ~overlap',
         NEW q \in Requests, req'[q].pc = "review"
  PROVE  leave'[req'[q].row].status = "pending"
<1>1. ~overlap /\ req \in [Requests -> RequestState]
  BY OverlapStays DEF PayInv, PayTypeOK
<1>2. CASE leave[req'[q].row].status = "pending" /\ UNCHANGED leave
  BY <1>2
<1>3. CASE req'[q] = req[q]
  <2>1. leave[req[q].row].status = "pending"
    BY <1>1, <1>3 DEF LeaveInv
  <2>2. ASSUME NEW l \in Leaves, NEW e \in Employees, Submit(l, e) PROVE FALSE
    BY <1>1, <1>3, <2>2 DEF Submit, MayStart
  <2>3. ASSUME NEW r \in Requests, ReviewCommit(r) PROVE FALSE
    <3>1. r = q
      BY <1>1, <1>3, <2>3 DEF SerialInv, ReviewCommit
    <3> QED BY <1>1, <2>3, <3>1 DEF ReviewCommit, Ends, IdleReq
  <2>4. UNCHANGED leave
    BY <2>2, <2>3, LeaveWriters
  <2> QED BY <1>3, <2>1, <2>4
<1> QED BY <1>2, <1>3, ReviewPending

\* What a review does to a balance and to the leave that counts against it.
LEMMA ReviewCounts ==
  ASSUME PayInv, LeaveInv, NEW r \in Requests, ReviewCommit(r), NEW e \in Employees, NEW t \in LeaveTypes
  PROVE  \E l \in Leaves :
           /\ l = req[r].row /\ leave[l].dates \in LeaveDates
           /\ \A k \in Leaves : leave'[k].dates = leave[k].dates
           /\ \/ Approved(e, t)' = Approved(e, t) /\ used'[e][t] = used[e][t]
              \/ /\ Approved(e, t)' = Approved(e, t) \cup {l}
                 /\ used'[e][t] = used[e][t] + DaysInclusive(leave[l].dates)
              \/ Approved(e, t)' = Approved(e, t) \ {l} /\ used'[e][t] = used[e][t]
<1>0. leave \in [Leaves -> LeaveRow] /\ used \in [Employees -> [LeaveTypes -> Nat]]
  BY DEF PayInv, PayTypeOK
<1>1. PICK l : l = req[r].row
  OBVIOUS
<1>2. l \in Leaves /\ leave[l].employee \in Employees /\ leave[l].dates \in LeaveDates
  BY <1>1 DEF ReviewCommit, PayInv, RowsKnown, LeaveFilled
<1>3. PICK s \in {"approved", "rejected"} :
        /\ leave' = [leave EXCEPT ![l].status = s]
        /\ s = "approved" => used' = Charged(l)
        /\ s = "rejected" => used' = used
  BY <1>1 DEF ReviewCommit
<1>4. \A k \in Leaves : /\ leave'[k].dates = leave[k].dates
                        /\ leave'[k].employee = leave[k].employee
                        /\ leave'[k].type = leave[k].type
                        /\ leave'[k].status = IF k = l THEN s ELSE leave[k].status
  BY <1>0, <1>2, <1>3 DEF LeaveRow
<1>5. CASE s = "rejected"
  <2>1. Approved(e, t)' = Approved(e, t) \ {l}
    BY <1>4, <1>5 DEF Approved
  <2> QED BY <1>1, <1>2, <1>3, <1>4, <1>5, <2>1
<1>6. CASE s = "approved" /\ leave[l].employee = e /\ leave[l].type = t
  <2>1. Approved(e, t)' = Approved(e, t) \cup {l}
    BY <1>2, <1>4, <1>6 DEF Approved
  <2>2. used'[e][t] = used[e][t] + DaysInclusive(leave[l].dates)
    BY <1>0, <1>3, <1>6 DEF Charged
  <2> QED BY <1>1, <1>2, <1>4, <2>1, <2>2
<1>7. CASE s = "approved" /\ ~(leave[l].employee = e /\ leave[l].type = t)
  <2>1. Approved(e, t)' = Approved(e, t)
    BY <1>4, <1>7 DEF Approved
  <2>2. used'[e][t] = used[e][t]
    BY <1>0, <1>2, <1>3, <1>7 DEF Charged
  <2> QED BY <1>1, <1>2, <1>4, <2>1, <2>2
<1> QED BY <1>5, <1>6, <1>7

Accounted(e, t) == /\ ApprovedDays(e, t) <= used[e][t]
                   /\ ~overlap => ApprovedDays(e, t) = used[e][t]

LEMMA ReviewAccounted ==
  ASSUME PayInv, LeaveInv, IsFiniteSet(Submitted'), overlap' = overlap,
         NEW r \in Requests, ReviewCommit(r), NEW e \in Employees, NEW t \in LeaveTypes
  PROVE  Accounted(e, t)'
<1>1. PICK l \in Leaves :
         /\ l = req[r].row /\ leave[l].dates \in LeaveDates
         /\ \A k \in Leaves : leave'[k].dates = leave[k].dates
         /\ \/ Approved(e, t)' = Approved(e, t) /\ used'[e][t] = used[e][t]
            \/ /\ Approved(e, t)' = Approved(e, t) \cup {l}
               /\ used'[e][t] = used[e][t] + DaysInclusive(leave[l].dates)
            \/ Approved(e, t)' = Approved(e, t) \ {l} /\ used'[e][t] = used[e][t]
  BY ReviewCounts
<1>2. PICK S \in SUBSET Leaves : S = Approved(e, t) /\ IsFiniteSet(S)
  BY ApprovedDaysNow DEF LeaveInv
<1>3. PICK T : T = Approved(e, t)'
  OBVIOUS
<1>4. T \in SUBSET Leaves /\ IsFiniteSet(T)
  <2>1. IsFiniteSet(S \cup {l}) /\ IsFiniteSet(S \ {l})
    BY <1>2, FS_AddElement, FS_RemoveElement
  <2> QED BY <1>1, <1>2, <1>3, <2>1
<1>15. PICK used0 \in Nat : used0 = used[e][t]
  BY DEF PayInv, PayTypeOK
<1>5. PICK used1 : used1 = used'[e][t]
  OBVIOUS
<1>6. PICK d \in Nat : d = DaysInclusive(leave[l].dates)
  BY <1>1, DaysTyped
<1>7. ApprovedDays(e, t) = Days(leave, S) /\ ApprovedDays(e, t)' = Days(leave', T)
  BY <1>2, <1>3, ApprovedDaysNow, ApprovedDaysNext DEF LeaveInv
<1>8. Days(leave', T) = Days(leave, T)
  BY <1>1, <1>4, DaysSame
<1>9. /\ Days(leave, S) \in Nat
      /\ l \notin S => Days(leave, S \cup {l}) = Days(leave, S) + d
      /\ Days(leave, S \ {l}) \in Nat /\ Days(leave, S \ {l}) <= Days(leave, S)
  <2>1. \A k \in S \cup {l} : leave[k].dates \in LeaveDates
    BY <1>1, <1>2 DEF Approved, PayInv, LeaveFilled
  <2> QED BY <1>2, <1>6, <2>1, DaysAdd
<1>10. Days(leave, S) <= used0 /\ (~overlap => Days(leave, S) = used0)
  BY <1>15, <1>7 DEF LeaveInv, LeaveAccounted
<1>11. ~overlap => l \notin S
  BY <1>1, <1>2 DEF LeaveInv, ReviewCommit, Approved
<1>12. ASSUME l \in S PROVE S \cup {l} = S
  BY <1>12
<1>13. ASSUME l \notin S PROVE S \ {l} = S
  BY <1>13
<1>14. Days(leave, T) <= used1 /\ (~overlap => Days(leave, T) = used1)
  <2>1. CASE T = S /\ used1 = used0
    BY <1>10, <2>1
  <2>2. CASE T = S \cup {l} /\ used1 = used0 + d
    <3>1. CASE l \in S
      <4>1. Days(leave, T) = Days(leave, S)
        BY <1>12, <2>2, <3>1
      <4> QED BY <1>9, <1>10, <1>11, <2>2, <3>1, <4>1
    <3>2. CASE l \notin S
      <4>1. Days(leave, T) = Days(leave, S) + d
        BY <1>9, <2>2, <3>2
      <4> QED BY <1>9, <1>10, <2>2, <4>1
    <3> QED BY <3>1, <3>2
  <2>3. CASE T = S \ {l} /\ used1 = used0
    <3>1. Days(leave, T) \in Nat /\ Days(leave, T) <= Days(leave, S)
      BY <1>9, <2>3
    <3>2. ~overlap => Days(leave, T) = Days(leave, S)
      BY <1>11, <1>13, <2>3
    <3> QED BY <1>9, <1>10, <2>3, <3>1, <3>2
  <2> QED BY <1>1, <1>2, <1>3, <1>15, <1>5, <1>6, <2>1, <2>2, <2>3
<1> QED BY <1>5, <1>7, <1>8, <1>14 DEF Accounted

\* Steps that touch neither a balance nor a leave that is approved.
LEMMA AccountedKept ==
  ASSUME LeaveInv, IsFiniteSet(Submitted'), overlap' = overlap, UNCHANGED used,
         \A l \in Leaves : leave'[l] = leave[l] \/ (leave[l].status # "approved"
                                                    /\ leave'[l].status # "approved"),
         NEW e \in Employees, NEW t \in LeaveTypes
  PROVE  Accounted(e, t)'
<1>1. PICK S \in SUBSET Leaves : S = Approved(e, t) /\ IsFiniteSet(S)
  BY ApprovedDaysNow DEF LeaveInv
<1>2. Approved(e, t)' = S
  BY <1>1 DEF Approved
<1>3. \A l \in S : leave'[l].dates = leave[l].dates
  BY <1>1 DEF Approved
<1>4. ApprovedDays(e, t) = Days(leave, S) /\ ApprovedDays(e, t)' = Days(leave', S)
  BY <1>1, <1>2, ApprovedDaysNow, ApprovedDaysNext DEF LeaveInv
<1>5. Days(leave', S) = Days(leave, S)
  BY <1>1, <1>3, DaysSame
<1> QED BY <1>4, <1>5 DEF Accounted, LeaveInv, LeaveAccounted

LEMMA LeaveNext ==
  ASSUME PayInv, SerialInv, LeaveInv, [Next]_vars PROVE LeaveInv'
<1>1. IsFiniteSet(Submitted') /\ overlap' = overlap
  BY SubmittedNext, OverlapStays DEF LeaveInv
<1>2. ASSUME NEW e \in Employees, NEW t \in LeaveTypes PROVE Accounted(e, t)'
  <2>1. CASE UNCHANGED <<leave, used>>
    BY <1>1, <2>1, AccountedKept
  <2>2. ASSUME NEW l \in Leaves, NEW c \in Employees, Submit(l, c) PROVE Accounted(e, t)'
    <3>1. /\ UNCHANGED used
          /\ \A k \in Leaves : leave'[k] = leave[k] \/ (leave[k].status # "approved"
                                                        /\ leave'[k].status # "approved")
      BY <2>2 DEF Submit, PayInv, PayTypeOK
    <3> QED BY <1>1, <3>1, AccountedKept
  <2>3. ASSUME NEW r \in Requests, ReviewCommit(r) PROVE Accounted(e, t)'
    BY <1>1, <2>3, ReviewAccounted
  <2> QED BY <2>1, <2>2, <2>3, LeaveWriters
<1>3. LeaveAccounted'
  BY <1>2 DEF LeaveAccounted, Accounted
<1> QED BY <1>1, <1>3, StillPending DEF LeaveInv

LEMMA LeaveInit == Init => LeaveInv
<1> SUFFICES ASSUME Init PROVE LeaveInv
  OBVIOUS
<1>1. Submitted = {}
  BY DEF Init, Submitted
<1>2. IsFiniteSet(Submitted)
  BY <1>1, FS_EmptySet
<1>3. ASSUME NEW e \in Employees, NEW t \in LeaveTypes
      PROVE  ApprovedDays(e, t) = 0 /\ used[e][t] = 0
  <2>1. Approved(e, t) = {}
    BY DEF Init, Approved
  <2>2. ApprovedDays(e, t) = Days(leave, {})
    BY <1>2, <2>1, ApprovedDaysNow
  <2>3. Days(leave, {}) = 0
    BY SumEmpty DEF Days
  <2> QED BY <2>2, <2>3 DEF Init
<1>4. LeaveAccounted
  BY <1>3 DEF LeaveAccounted
<1> QED BY <1>2, <1>4 DEF LeaveInv, Init, IdleReq

\* However reviews interleave and die, the leave that is approved has been
\* charged to its employee's balance; one review at a time, the balance is
\* exactly the approved days.
THEOREM LeaveIsAccounted == Spec => []LeaveAccounted
<1>1. PayInv /\ SerialInv /\ LeaveInv /\ [Next]_vars => LeaveInv'
  BY LeaveNext
<1>2. LeaveInv => LeaveAccounted
  BY DEF LeaveInv
<1> QED BY Invariance, LeaveInit, <1>1, <1>2, PTL DEF Spec

-----------------------------------------------------------------------------
(* A run, one request at a time                                             *)

PaysNow == [e \in Employees |-> IF status[e] = "active" THEN structure[e] ELSE None]

\* The unpaid leave of an employee that has days in a period.
Deducted(e, dates) == {l \in UnpaidLeave(e) : OverlapDays(leave[l].dates, dates) > 0}

\* What a run has read so far is still so.
ReadsCurrent(r) ==
  /\ req[r].pc \in {"leave", "generate"} => req[r].pays = PaysNow
  /\ req[r].pc = "generate" =>
       req[r].unpaid = [e \in Employees |-> Deducted(e, period[req[r].row].dates)]

RunInv ==
  /\ \A p \in Periods : period[p].status # "none" => period[p].dates \in PeriodDates
  /\ ~overlap => \A r \in Requests : ReadsCurrent(r)

LEMMA PeriodFilledNext ==
  ASSUME PayInv, RunInv, [Next]_vars, NEW p \in Periods, period'[p].status # "none"
  PROVE  period'[p].dates \in PeriodDates
<1>1. period \in [Periods -> PeriodRow]
  BY DEF PayInv, PayTypeOK
<1>2. ASSUME NEW q \in Periods, CreatePeriod(q) PROVE period'[p].dates \in PeriodDates
  BY <1>1, <1>2 DEF CreatePeriod, RunInv
<1>3. ASSUME NEW r \in Requests, RunCommit(r) \/ ApproveWrite(r)
      PROVE  period'[p].dates \in PeriodDates
  <2>1. period[req[r].row].status # "none"
    BY <1>3 DEF RunCommit, ApproveWrite, PayInv, RowsKnown, Running
  <2>2. PICK s : period' = [period EXCEPT ![req[r].row].status = s]
    BY <1>3 DEF RunCommit, ApproveWrite
  <2>3. period'[p].dates = period[p].dates /\ period[p].status # "none"
    BY <1>1, <2>1, <2>2 DEF PeriodRow
  <2> QED BY <2>3 DEF RunInv
<1>4. CASE UNCHANGED <<period, payslip>>
  BY <1>4 DEF RunInv
<1> QED BY <1>2, <1>3, <1>4, PeriodSteps

\* Nothing but the request itself moves while it is in flight.
LEMMA SerialStep ==
  ASSUME SerialInv, ~overlap, [Next]_vars, NEW q \in Requests, req[q].pc # "idle"
  PROVE  RequestStep(q) \/ UNCHANGED vars
<1>1. ASSUME NEW r \in Requests, RequestStep(r) PROVE r = q
  BY <1>1 DEF SerialInv, RequestStep, ReviewRead, LifecycleRead, RunRead, ApproveRead, Starts,
     MayStart, ReviewCommit, LifecycleCommit, RunReadEmployees, RunReadLeave, RunCommit,
     ApproveWrite, CutShort
<1>2. ASSUME \/ \E e \in Employees : \/ CreateEmployee(e) \/ UpsertStructure(e)
                                     \/ \E l \in Leaves : Submit(l, e)
             \/ \E p \in Periods : CreatePeriod(p)
      PROVE  FALSE
  BY <1>2 DEF CreateEmployee, UpsertStructure, Submit, CreatePeriod, MayStart
<1> QED BY <1>1, <1>2 DEF Next

LEMMA ReadsCurrentNext ==
  ASSUME PayInv, SerialInv, RunInv, [Next]_vars, ~overlap', NEW q \in Requests
  PROVE  ReadsCurrent(q)'
<1> SUFFICES ASSUME req'[q].pc \in {"leave", "generate"} PROVE ReadsCurrent(q)'
  BY DEF ReadsCurrent
<1>1. ~overlap /\ req \in [Requests -> RequestState]
  BY OverlapStays DEF PayInv, PayTypeOK
<1>2. ReadsCurrent(q)
  BY <1>1 DEF RunInv
<1>3. CASE UNCHANGED vars
  <2>1. UNCHANGED <<req, status, structure, leave, period>>
    BY <1>3 DEF vars, rows
  <2> QED BY <1>2, <2>1 DEF ReadsCurrent, PaysNow, Deducted, UnpaidLeave
<1>4. CASE RequestStep(q)
  <2>1. ASSUME NEW l, ReviewRead(q, l) \/ RunRead(q, l) \/ ApproveRead(q, l) PROVE FALSE
    BY <1>1, <2>1 DEF ReviewRead, RunRead, ApproveRead, Starts, IdleReq
  <2>2. ASSUME NEW e \in Employees, LifecycleRead(q, e) PROVE FALSE
    BY <1>1, <2>2 DEF LifecycleRead, IdleReq
  <2>3. ASSUME \/ ReviewCommit(q) \/ LifecycleCommit(q) \/ RunCommit(q)
               \/ ApproveWrite(q) \/ CutShort(q)
        PROVE  FALSE
    BY <1>1, <2>3 DEF ReviewCommit, LifecycleCommit, RunCommit, ApproveWrite, CutShort, Ends, IdleReq
  <2>4. CASE RunReadEmployees(q)
    <3>1. UNCHANGED <<status, structure>>
      BY <2>4 DEF RunReadEmployees, rows
    <3>2. req'[q].pc = "leave" /\ req'[q].pays = PaysNow
      BY <1>1, <2>4 DEF RunReadEmployees, RequestState, PaysNow
    <3> QED BY <3>1, <3>2 DEF ReadsCurrent, PaysNow
  <2>5. CASE RunReadLeave(q)
    <3>1. UNCHANGED <<status, structure, leave, period>>
      BY <2>5 DEF RunReadLeave, rows
    <3>2. /\ req[q].pc = "leave" /\ req'[q].pays = req[q].pays /\ req'[q].row = req[q].row
          /\ req'[q].unpaid = [e \in Employees |-> Deducted(e, period[req[q].row].dates)]
      BY <1>1, <2>5 DEF RunReadLeave, RequestState, Deducted
    <3>3. req'[q].pays = PaysNow
      BY <1>2, <3>2 DEF ReadsCurrent
    <3> QED BY <3>1, <3>2, <3>3 DEF ReadsCurrent, PaysNow, Deducted, UnpaidLeave
  <2> QED BY <1>4, <2>1, <2>2, <2>3, <2>4, <2>5 DEF RequestStep
<1>5. CASE req[q].pc = "idle" /\ ~RequestStep(q)
  <2>1. ASSUME NEW r \in Requests, r # q, RequestStep(r) PROVE req'[q] = req[q]
    BY <1>1, <2>1 DEF RequestStep, ReviewRead, LifecycleRead, RunRead, ApproveRead, Starts, Ends,
       ReviewCommit, LifecycleCommit, RunReadEmployees, RunReadLeave, RunCommit, ApproveWrite, CutShort
  <2>2. ASSUME UNCHANGED vars \/ ~\E r \in Requests : RequestStep(r) PROVE req'[q] = req[q]
    BY <2>2 DEF Next, vars, CreateEmployee, UpsertStructure, Submit, CreatePeriod
  <2> QED BY <1>5, <2>1, <2>2
<1> QED BY <1>1, <1>3, <1>4, <1>5, SerialStep

LEMMA RunInvNext == ASSUME PayInv, SerialInv, RunInv, [Next]_vars PROVE RunInv'
BY PeriodFilledNext, ReadsCurrentNext DEF RunInv

-----------------------------------------------------------------------------
(* Days of leave in a period                                                *)

LEMMA OfTwo ==
  ASSUME NEW a \in Int, NEW b \in Int
  PROVE  /\ Max({a, b}) = IF a >= b THEN a ELSE b
         /\ Min({a, b}) = IF a <= b THEN a ELSE b
<1>1. PICK m : m = (IF a >= b THEN a ELSE b)
  OBVIOUS
<1>2. m \in {a, b} /\ (\A y \in {a, b} : m >= y) /\ \A x \in {a, b} : (\A y \in {a, b} : x >= y) => x = m
  BY <1>1
<1>3. PICK n : n = (IF a <= b THEN a ELSE b)
  OBVIOUS
<1>4. n \in {a, b} /\ (\A y \in {a, b} : n <= y) /\ \A x \in {a, b} : (\A y \in {a, b} : x <= y) => x = n
  BY <1>3
<1>5. Max({a, b}) = m
  BY <1>2 DEF Max
<1>6. Min({a, b}) = n
  BY <1>4 DEF Min
<1> QED BY <1>1, <1>3, <1>5, <1>6

LEMMA OverlapCounts ==
  ASSUME NEW a \in Nat \X Nat, NEW b \in Nat \X Nat
  PROVE  /\ IsFiniteSet(DaysOf(a) \cap DaysOf(b))
         /\ Cardinality(DaysOf(a) \cap DaysOf(b)) = OverlapDays(a, b)
<1>1. PICK first, last : /\ first = (IF a[1] >= b[1] THEN a[1] ELSE b[1])
                         /\ last = (IF a[2] <= b[2] THEN a[2] ELSE b[2])
  OBVIOUS
<1>2. first \in Int /\ last \in Int /\ a[1] \in Int /\ a[2] \in Int /\ b[1] \in Int /\ b[2] \in Int
  BY <1>1
<1>3. DaysOf(a) \cap DaysOf(b) = first .. last
  BY <1>1, <1>2 DEF DaysOf
<1>4. Max({a[1], b[1]}) = first /\ Min({a[2], b[2]}) = last
  BY <1>1, <1>2, OfTwo
<1>5. PICK n \in Int : n = last - first + 1
  BY <1>2
<1>6. OverlapDays(a, b) = Max({0, n})
  BY <1>4, <1>5 DEF OverlapDays
<1>7. Max({0, n}) = IF 0 >= n THEN 0 ELSE n
  BY OfTwo
<1>8. IsFiniteSet(first .. last) /\ Cardinality(first .. last) = IF first > last THEN 0 ELSE n
  BY <1>2, <1>5, FS_Interval
<1>9. (IF first > last THEN 0 ELSE n) = (IF 0 >= n THEN 0 ELSE n)
  BY <1>2, <1>5
<1>10. Cardinality(first .. last) = OverlapDays(a, b)
  BY <1>6, <1>7, <1>8, <1>9
<1> QED BY <1>3, <1>8, <1>10

LEMMA DeductedDays ==
  ASSUME NEW T \in SUBSET Leaves, IsFiniteSet(T), NEW dates \in PeriodDates,
         \A l \in T : leave[l].dates \in LeaveDates
  PROVE  (CHOOSE iter : iter = [s \in SUBSET T |-> IF s = {} THEN 0
             ELSE OverlapDays(leave[Pick(s)].dates, dates) + iter[s \ {Pick(s)}]])[T]
           = Cardinality({absence \in T \X DaysOf(dates) :
                            absence[2] \in DaysOf(leave[absence[1]].dates)})
<1> DEFINE D == [l \in T |-> DaysOf(leave[l].dates) \cap DaysOf(dates)]
           f == [l \in T |-> Cardinality(D[l])]
           Iter(g) == g = [s \in SUBSET T |-> IF s = {} THEN 0
                   ELSE OverlapDays(leave[Pick(s)].dates, dates) + g[s \ {Pick(s)}]]
           Pairs == UNION {{l} \X D[l] : l \in T}
<1>1. ASSUME NEW l \in T
      PROVE  IsFiniteSet(D[l]) /\ f[l] = OverlapDays(leave[l].dates, dates)
  <2>1. leave[l].dates \in Nat \X Nat /\ dates \in Nat \X Nat
    BY PayrollAssumption
  <2> QED BY <2>1, OverlapCounts
<1>2. ASSUME NEW s \in SUBSET T, s # {}
      PROVE  OverlapDays(leave[Pick(s)].dates, dates) = f[Pick(s)]
  <2>1. Pick(s) \in T
    BY <1>2, PickIn
  <2> HIDE DEF f, D
  <2> QED BY <1>1, <2>1
<1>3. ASSUME NEW g PROVE Iter(g) <=> Sums(f, T, g)
  <2> HIDE DEF f, D
  <2> QED BY <1>2 DEF Sums
<1>4. PICK g : Sums(f, T, g)
  <2> HIDE DEF f, D
  <2> QED BY SumsExist
<1>5. Sums(f, T, CHOOSE h : Iter(h))
  <2> HIDE DEF f, D, Iter
  <2> QED BY <1>3, <1>4
<1>6. SumFunctionOnSet(f, T) = (CHOOSE h : Iter(h))[T]
  <2> HIDE DEF f, D, Iter
  <2> QED BY <1>5, SumIs
<1>7. Cardinality(Pairs) = SumFunctionOnSet(f, T)
  <2> HIDE DEF D
  <2> QED BY <1>1, CountPairs
<1>8. Pairs = {absence \in T \X DaysOf(dates) : absence[2] \in DaysOf(leave[absence[1]].dates)}
  OBVIOUS
<1> QED BY <1>6, <1>7, <1>8

\* What a payslip takes off for its leave, in pairs of a leave and a day of it.
LEMMA AbsenceCounts ==
  ASSUME NEW slip, NEW basic, slip.structure.basic = basic,
         NEW T \in SUBSET Leaves, slip.leave = T, IsFiniteSet(T),
         NEW dates \in PeriodDates, \A l \in T : leave[l].dates \in LeaveDates
  PROVE  PayslipBreakdown(slip, dates).absence
           = (2 * basic * Cardinality({absence \in T \X DaysOf(dates) :
                            absence[2] \in DaysOf(leave[absence[1]].dates)}) + 30) \div 60
<1>1. PICK days : days = (CHOOSE iter : iter = [s \in SUBSET T |-> IF s = {} THEN 0
                ELSE OverlapDays(leave[Pick(s)].dates, dates) + iter[s \ {Pick(s)}]])[T]
  OBVIOUS
<1>2. days = Cardinality({absence \in T \X DaysOf(dates) :
                            absence[2] \in DaysOf(leave[absence[1]].dates)})
  BY <1>1, DeductedDays
<1>3. PayslipBreakdown(slip, dates).absence = (2 * basic * days + 30) \div 60
  BY <1>1 DEF PayslipBreakdown, MapThenSumSet, MapThenFoldSet, Pick
<1> QED BY <1>2, <1>3

\* A leave without days in a period adds none to the employee's absence.
LEMMA DeductedCovers ==
  ASSUME PayInv, NEW p \in Periods, period[p].dates \in PeriodDates, NEW e \in Employees,
         NEW T, T = Deducted(e, period[p].dates)
  PROVE  {absence \in T \X DaysOf(period[p].dates) :
             absence[2] \in DaysOf(leave[absence[1]].dates)}
           = {absence \in UnpaidLeave(e) \X DaysOf(period[p].dates) :
                absence[2] \in DaysOf(leave[absence[1]].dates)}
<1>1. ASSUME NEW l \in UnpaidLeave(e), NEW day \in DaysOf(period[p].dates),
             day \in DaysOf(leave[l].dates)
      PROVE  OverlapDays(leave[l].dates, period[p].dates) > 0
  <2>1. leave[l].dates \in LeaveDates
    BY <1>1 DEF UnpaidLeave, PayInv, LeaveFilled
  <2>2. PICK a, b : a = leave[l].dates /\ b = period[p].dates
    OBVIOUS
  <2>3. a \in Nat \X Nat /\ b \in Nat \X Nat
    BY <2>1, <2>2, PayrollAssumption
  <2>4. PICK D : D = DaysOf(a) \cap DaysOf(b)
    OBVIOUS
  <2>5. IsFiniteSet(D) /\ Cardinality(D) = OverlapDays(a, b)
    BY <2>3, <2>4, OverlapCounts
  <2>6. D # {}
    BY <1>1, <2>2, <2>4
  <2>7. Cardinality(D) \in Nat /\ Cardinality(D) # 0
    BY <2>5, <2>6, FS_CardinalityType, FS_EmptySet
  <2> QED BY <2>2, <2>5, <2>7
<1>2. T \subseteq UnpaidLeave(e)
  BY DEF Deducted
<1>3. \A l \in UnpaidLeave(e) : \A day \in DaysOf(period[p].dates) :
        day \in DaysOf(leave[l].dates) => l \in T
  BY <1>1 DEF Deducted
<1> QED BY <1>2, <1>3

LEMMA DeductedSlip ==
  ASSUME PayInv, LeaveInv, NEW p \in Periods, period[p].dates \in PeriodDates,
         NEW e \in Employees, NEW slip, slip.structure = structure[e],
         slip.leave = Deducted(e, period[p].dates)
  PROVE  PayslipBreakdown(slip, period[p].dates).absence
           = (2 * structure[e].basic * AbsentDays(p, e) + 30) \div 60
<1>1. PICK T : T = Deducted(e, period[p].dates)
  OBVIOUS
<1>2. T \in SUBSET Leaves /\ T \subseteq Submitted
  BY <1>1 DEF Deducted, UnpaidLeave, Submitted
<1>3. IsFiniteSet(T)
  BY <1>2, FS_Subset DEF LeaveInv
<1>4. \A l \in T : leave[l].dates \in LeaveDates
  BY <1>2 DEF PayInv, LeaveFilled, Submitted
<1>5. PICK basic : basic = structure[e].basic
  OBVIOUS
<1>6. PayslipBreakdown(slip, period[p].dates).absence
        = (2 * basic * Cardinality({absence \in T \X DaysOf(period[p].dates) :
                            absence[2] \in DaysOf(leave[absence[1]].dates)}) + 30) \div 60
  BY <1>1, <1>2, <1>3, <1>4, <1>5, AbsenceCounts
<1>7. AbsentDays(p, e) = Cardinality({absence \in T \X DaysOf(period[p].dates) :
                            absence[2] \in DaysOf(leave[absence[1]].dates)})
  BY <1>1, DeductedCovers DEF AbsentDays
<1> QED BY <1>5, <1>6, <1>7

-----------------------------------------------------------------------------
(* What a run leaves                                                        *)

RunLeaves(p) ==
  ~overlap /\ period'[p].status = "generated" /\ period[p].status # "generated" =>
    \A e \in Employees :
      IF status[e] = "active" /\ structure[e] # None
        THEN /\ payslip'[p][e].structure = structure[e]
             /\ PayslipBreakdown(payslip'[p][e], period[p].dates).absence
                  = (2 * structure[e].basic * AbsentDays(p, e) + 30) \div 60
        ELSE payslip'[p][e] = None

LEMMA RunLeavesNext ==
  ASSUME PayInv, SerialInv, LeaveInv, RunInv, [Next]_vars, NEW p \in Periods
  PROVE  RunLeaves(p)
<1> SUFFICES ASSUME ~overlap, period'[p].status = "generated", period[p].status # "generated",
                    NEW e \in Employees
    PROVE  IF status[e] = "active" /\ structure[e] # None
             THEN /\ payslip'[p][e].structure = structure[e]
                  /\ PayslipBreakdown(payslip'[p][e], period[p].dates).absence
                       = (2 * structure[e].basic * AbsentDays(p, e) + 30) \div 60
             ELSE payslip'[p][e] = None
  BY DEF RunLeaves
<1>0. /\ period \in [Periods -> PeriodRow]
      /\ payslip \in [Periods -> [Employees -> PayslipRow \cup {None}]]
      /\ structure \in [Employees -> Structures \cup {None}]
  BY DEF PayInv, PayTypeOK
<1>1. PICK r \in Requests : RunCommit(r) /\ req[r].row = p
  <2>1. ASSUME NEW q \in Periods, CreatePeriod(q) PROVE FALSE
    BY <1>0, <2>1 DEF CreatePeriod
  <2>2. ASSUME NEW r \in Requests, ApproveWrite(r) PROVE FALSE
    BY <1>0, <2>2 DEF ApproveWrite, PeriodRow
  <2>3. ASSUME NEW r \in Requests, RunCommit(r) PROVE req[r].row = p
    BY <1>0, <2>3 DEF RunCommit
  <2> QED BY <2>1, <2>2, <2>3, PeriodSteps
<1>2. /\ period[p].status = "draft" /\ payslip[p] = Nobody /\ period[p].dates \in PeriodDates
      /\ req[r].pays = PaysNow
      /\ req[r].unpaid = [c \in Employees |-> Deducted(c, period[p].dates)]
  BY <1>1 DEF RunCommit, SerialInv, Running, PayInv, DraftHasNoPayslips, RunInv, ReadsCurrent
<1>3. payslip'[p] = Generated(Nobody, req[r])
  BY <1>0, <1>1, <1>2 DEF RunCommit
<1>4. payslip'[p][e] = IF req[r].pays[e] = None THEN None
                       ELSE [structure |-> req[r].pays[e], leave |-> req[r].unpaid[e]]
  BY <1>3 DEF Generated, Nobody
<1>5. CASE status[e] = "active" /\ structure[e] # None
  <2>1. PICK slip : slip = [structure |-> structure[e],
                            leave |-> Deducted(e, period[p].dates)]
    OBVIOUS
  <2>2. payslip'[p][e] = slip
    BY <1>2, <1>4, <1>5, <2>1 DEF PaysNow
  <2>3. slip.structure = structure[e] /\ slip.leave = Deducted(e, period[p].dates)
    BY <2>1
  <2>4. PayslipBreakdown(slip, period[p].dates).absence
          = (2 * structure[e].basic * AbsentDays(p, e) + 30) \div 60
    BY <1>2, <2>3, DeductedSlip
  <2>5. PayslipBreakdown(payslip'[p][e], period[p].dates)
          = PayslipBreakdown(slip, period[p].dates)
    BY <2>2
  <2> QED BY <1>5, <2>2, <2>3, <2>4, <2>5
<1>6. CASE ~(status[e] = "active" /\ structure[e] # None)
  BY <1>2, <1>4, <1>6 DEF PaysNow
<1> QED BY <1>5, <1>6

LEMMA RunInit == Init => RunInv
BY DEF Init, IdleReq, RunInv, ReadsCurrent

\* One request at a time, a run leaves every active employee with a salary
\* structure, and nobody else, a payslip that deducts, for each approved unpaid leave,
\* the days of it that are within the period: a day of two such leaves twice.
THEOREM RunPaysAll == Spec => RunIsComplete
<1>1. PayInv /\ SerialInv /\ LeaveInv /\ RunInv /\ [Next]_vars => LeaveInv' /\ RunInv'
  BY LeaveNext, RunInvNext
<1>2. ASSUME PayInv, SerialInv, LeaveInv, RunInv, [Next]_vars
      PROVE  [\A p \in Periods : RunLeaves(p)]_vars
  BY <1>2, RunLeavesNext
<1>3. [\A p \in Periods : RunLeaves(p)]_vars =>
        [\A p \in Periods :
           ~overlap /\ period'[p].status = "generated" /\ period[p].status # "generated" =>
             \A e \in Employees :
               IF status[e] = "active" /\ structure[e] # None
                 THEN /\ payslip'[p][e].structure = structure[e]
                      /\ PayslipBreakdown(payslip'[p][e], period[p].dates).absence
                           = (2 * structure[e].basic * AbsentDays(p, e) + 30) \div 60
                 ELSE payslip'[p][e] = None]_vars
  BY DEF RunLeaves
<1> QED BY Invariance, LeaveInit, RunInit, <1>1, <1>2, <1>3, PTL DEF Spec, RunIsComplete
=============================================================================
