------------------------------- MODULE Payroll -------------------------------
(***************************************************************************)
(* Staff: employment, leave and its balances, salary structures, and the   *)
(* payroll periods that turn them into payslips.                           *)
(*                                                                         *)
(* A review, a lifecycle action and a payroll run each check a status in a *)
(* statement of its own and write in a later transaction, by id.  A run    *)
(* reads the employees and then the leave it deducts before it opens the   *)
(* transaction; what keeps two runs from paying an employee twice is the   *)
(* unique (periodId, employeeId) of the payslips alone.                    *)
(*                                                                         *)
(* A payslip keeps the structure and the leave it was worked out from, in  *)
(* the place of its amounts: the dates of a leave and of a period never    *)
(* change, so the amounts are a function of them (PayslipBreakdown).       *)
(***************************************************************************)
EXTENDS Integers, FiniteSets, FiniteSetsExt, Sequences

CONSTANTS
  Employees, Leaves, Periods,  \* ids of rows
  LeaveDates,   \* the <<first, last>> days that are asked for
  PeriodDates,  \* the <<first, last>> days of the periods
  Structures,   \* salary structures: [basic, allowances, deductions], in cents
  MaxEvents,    \* bound: lifecycle events of an employee
  Requests,     \* requests that may be in flight
  None          \* SQL NULL

ASSUME PayrollAssumption ==
  /\ LeaveDates \subseteq Nat \X Nat /\ PeriodDates \subseteq Nat \X Nat
  /\ Structures \subseteq [basic : Nat, allowances : Nat, deductions : Nat]
  /\ MaxEvents \in Nat
  /\ None \notin Employees \cup Leaves \cup Periods
  /\ None \notin Structures /\ None \notin LeaveDates /\ None \notin PeriodDates

VARIABLES
  status,     \* Employee.status
  events,     \* EmployeeLifecycleEvent rows of an employee, oldest first
  structure,  \* SalaryStructure of an employee
  used,       \* LeaveBalance.used, by employee and type
  leave,      \* EmployeeLeaveRequest rows
  period,     \* PayrollPeriod rows
  payslip,    \* Payslip rows, by period and employee
  req,        \* requests in flight
  overlap     \* chosen at the start: requests interleave, or come one at a time

rows == <<status, events, structure, used, leave, period, payslip, overlap>>
vars == <<rows, req>>

Statuses == {"none", "active", "resigned", "terminated"}
LifecycleTypes == {"transfer", "resignation", "termination"}
LeaveTypes == {"unpaid", "paid"}  \* "paid": casual, sick and annual

LeaveRow == [status : {"none", "pending", "approved", "rejected"},
             employee : Employees \cup {None}, type : LeaveTypes,
             dates : LeaveDates \cup {None}]
PeriodRow == [status : {"none", "draft", "generated", "approved"},
              dates : PeriodDates \cup {None}]
PayslipRow == [structure : Structures, leave : SUBSET Leaves]
RequestState ==
  [pc : {"idle", "review", "lifecycle", "employees", "leave", "generate", "approve"},
   row : Employees \cup Leaves \cup Periods \cup {None},
   type : LifecycleTypes \cup {None},
   pays : [Employees -> Structures \cup {None}],
   unpaid : [Employees -> SUBSET Leaves]]

Nobody == [e \in Employees |-> None]
IdleReq == [pc |-> "idle", row |-> None, type |-> None,
            pays |-> Nobody, unpaid |-> [e \in Employees |-> {}]]

Init ==
  /\ status = [e \in Employees |-> "none"]
  /\ events = [e \in Employees |-> <<>>]
  /\ structure = Nobody
  /\ used = [e \in Employees |-> [t \in LeaveTypes |-> 0]]
  /\ leave = [l \in Leaves |->
       [status |-> "none", employee |-> None, type |-> "unpaid", dates |-> None]]
  /\ period = [p \in Periods |-> [status |-> "none", dates |-> None]]
  /\ payslip = [p \in Periods |-> Nobody]
  /\ req = [r \in Requests |-> IdleReq]
  /\ overlap \in BOOLEAN

MayStart == overlap \/ \A r \in Requests : req[r].pc = "idle"

Starts(r, pc, row) ==
  /\ MayStart /\ req[r].pc = "idle"
  /\ req' = [req EXCEPT ![r] = [IdleReq EXCEPT !.pc = pc, !.row = row]]
  /\ UNCHANGED rows

Ends(r) == req' = [req EXCEPT ![r] = IdleReq]

-----------------------------------------------------------------------------
(* Handlers with one write                                                  *)

\* With the four LeaveBalance rows, all at 0.
CreateEmployee(e) ==
  /\ MayStart /\ status[e] = "none"
  /\ status' = [status EXCEPT ![e] = "active"]
  /\ UNCHANGED <<events, structure, used, leave, period, payslip, req, overlap>>

\* Whatever the employee's status is.
UpsertStructure(e) ==
  /\ MayStart /\ status[e] # "none"
  /\ \E s \in Structures : structure' = [structure EXCEPT ![e] = s]
  /\ UNCHANGED <<status, events, used, leave, period, payslip, req, overlap>>

\* Nothing keeps the last day from being before the first.
Submit(l, e) ==
  /\ MayStart /\ leave[l].status = "none" /\ status[e] # "none"
  /\ \E t \in LeaveTypes, dates \in LeaveDates : leave' = [leave EXCEPT ![l] =
       [status |-> "pending", employee |-> e, type |-> t, dates |-> dates]]
  /\ UNCHANGED <<status, events, structure, used, period, payslip, req, overlap>>

CreatePeriod(p) ==
  /\ MayStart /\ period[p].status = "none"
  /\ \E dates \in PeriodDates :
       period' = [period EXCEPT ![p] = [status |-> "draft", dates |-> dates]]
  /\ UNCHANGED <<status, events, structure, used, leave, payslip, req, overlap>>

-----------------------------------------------------------------------------
(* Leave reviews and lifecycle actions                                      *)

\* Mutant: a leave whose last day is before its first counts backwards.
DaysInclusiveUnclamped(dates) == dates[2] - dates[1] + 1

DaysInclusive(dates) == Max({1, dates[2] - dates[1] + 1})

ReviewRead(r, l) == leave[l].status = "pending" /\ Starts(r, "review", l)

Charged(l) ==
  [used EXCEPT ![leave[l].employee][leave[l].type] = @ + DaysInclusive(leave[l].dates)]

\* Mutant: the balance is charged whatever the decision is.
ReviewCommitCharge(r) ==
  /\ req[r].pc = "review"
  /\ \E s \in {"approved", "rejected"} : leave' = [leave EXCEPT ![req[r].row].status = s]
  /\ used' = Charged(req[r].row)
  /\ Ends(r)
  /\ UNCHANGED <<status, events, structure, period, payslip, overlap>>

\* One transaction; the decision is not compared with the row's status again.
ReviewCommit(r) ==
  /\ req[r].pc = "review"
  /\ \/ /\ leave' = [leave EXCEPT ![req[r].row].status = "approved"]
        /\ used' = Charged(req[r].row)
     \/ /\ leave' = [leave EXCEPT ![req[r].row].status = "rejected"]
        /\ UNCHANGED used
  /\ Ends(r)
  /\ UNCHANGED <<status, events, structure, period, payslip, overlap>>

\* Mutant: an employee who has left may leave again.
LifecycleReadLeft(r, e) ==
  /\ MayStart /\ req[r].pc = "idle" /\ status[e] # "none" /\ Len(events[e]) < MaxEvents
  /\ \E type \in LifecycleTypes : req' = [req EXCEPT ![r] =
       [IdleReq EXCEPT !.pc = "lifecycle", !.row = e, !.type = type]]
  /\ UNCHANGED rows

LifecycleRead(r, e) ==
  /\ MayStart /\ req[r].pc = "idle" /\ status[e] = "active" /\ Len(events[e]) < MaxEvents
  /\ \E type \in LifecycleTypes : req' = [req EXCEPT ![r] =
       [IdleReq EXCEPT !.pc = "lifecycle", !.row = e, !.type = type]]
  /\ UNCHANGED rows

\* The status an event leaves an employee in, who was in status s.
StatusAfter(type, s) ==
  CASE type = "resignation" -> "resigned"
    [] type = "termination" -> "terminated"
    [] type = "transfer" -> s

LifecycleCommit(r) ==
  /\ req[r].pc = "lifecycle"
  /\ events' = [events EXCEPT ![req[r].row] = Append(@, req[r].type)]
  /\ status' = [status EXCEPT ![req[r].row] = StatusAfter(req[r].type, @)]
  /\ Ends(r)
  /\ UNCHANGED <<structure, used, leave, period, payslip, overlap>>

-----------------------------------------------------------------------------
(* What a run works out                                                     *)

\* The part of a leave that falls within a period, both ends counted.
OverlapDays(leaveDates, periodDates) ==
  Max({0, Min({leaveDates[2], periodDates[2]}) - Max({leaveDates[1], periodDates[1]}) + 1})

UnpaidLeave(e) ==
  {l \in Leaves : /\ leave[l].status = "approved" /\ leave[l].type = "unpaid"
                  /\ leave[l].employee = e}

\* sumUnpaidLeaveDays and computePayslipBreakdown, in cents: a thirtieth of the
\* basic salary a day.  Overtime and bonus are always 0, and nobody is paid less
\* than nothing.
PayslipBreakdown(slip, periodDates) ==
  LET days == MapThenSumSet(LAMBDA l : OverlapDays(leave[l].dates, periodDates), slip.leave)
      absence == (2 * slip.structure.basic * days + 30) \div 60
  IN [absence |-> absence,
      net |-> Max({0, slip.structure.basic + slip.structure.allowances
                        - slip.structure.deductions - absence})]

\* The payslips of a run, over those the period has already.
Generated(slips, q) ==
  [e \in Employees |-> IF q.pays[e] = None THEN slips[e]
                       ELSE [structure |-> q.pays[e], leave |-> q.unpaid[e]]]

-----------------------------------------------------------------------------
(* Payroll periods                                                          *)

\* Mutant: a generated period may be run again.
RunReadAgain(r, p) == period[p].status # "none" /\ Starts(r, "employees", p)

RunRead(r, p) == period[p].status = "draft" /\ Starts(r, "employees", p)

\* Mutant: whoever has a structure is paid, employed or not.
RunReadEmployeesAll(r) ==
  /\ req[r].pc = "employees"
  /\ req' = [req EXCEPT ![r].pc = "leave", ![r].pays = structure]
  /\ UNCHANGED rows

\* Active employees; one without a structure is skipped.
RunReadEmployees(r) ==
  /\ req[r].pc = "employees"
  /\ req' = [req EXCEPT ![r].pc = "leave",
       ![r].pays = [e \in Employees |->
          IF status[e] = "active" THEN structure[e] ELSE None]]
  /\ UNCHANGED rows

RunReadLeave(r) ==
  /\ req[r].pc = "leave"
  /\ req' = [req EXCEPT ![r].pc = "generate",
       ![r].unpaid = [e \in Employees |->
          {l \in UnpaidLeave(e) : OverlapDays(leave[l].dates, period[req[r].row].dates) > 0}]]
  /\ UNCHANGED rows

Paid(r) == {e \in Employees : req[r].pays[e] # None}

\* Mutant: the payslips are inserted before the transaction that moves the period.
RunCommitFirst(r) ==
  /\ req[r].pc = "generate"
  /\ \/ /\ Paid(r) # {} /\ \A e \in Paid(r) : payslip[req[r].row][e] = None
        /\ payslip' = [payslip EXCEPT ![req[r].row] = Generated(@, req[r])]
        /\ req' = [req EXCEPT ![r].pays = Nobody]
        /\ UNCHANGED period
     \/ /\ Paid(r) = {}
        /\ period' = [period EXCEPT ![req[r].row].status = "generated"]
        /\ Ends(r)
        /\ UNCHANGED payslip
  /\ UNCHANGED <<status, events, structure, used, leave, overlap>>

\* One transaction: a payslip that is there already undoes all of it.
RunCommit(r) ==
  /\ req[r].pc = "generate"
  /\ \A e \in Paid(r) : payslip[req[r].row][e] = None
  /\ payslip' = [payslip EXCEPT ![req[r].row] = Generated(@, req[r])]
  /\ period' = [period EXCEPT ![req[r].row].status = "generated"]
  /\ Ends(r)
  /\ UNCHANGED <<status, events, structure, used, leave, overlap>>

ApproveRead(r, p) == period[p].status = "generated" /\ Starts(r, "approve", p)

ApproveWrite(r) ==
  /\ req[r].pc = "approve"
  /\ period' = [period EXCEPT ![req[r].row].status = "approved"]
  /\ Ends(r)
  /\ UNCHANGED <<status, events, structure, used, leave, payslip, overlap>>

-----------------------------------------------------------------------------

\* An error or a restart between two statements, a duplicate payslip included.
CutShort(r) ==
  /\ req[r].pc # "idle"
  /\ Ends(r)
  /\ UNCHANGED rows

RequestStep(r) ==
  \/ \E l \in Leaves : ReviewRead(r, l)
  \/ \E e \in Employees : LifecycleRead(r, e)
  \/ \E p \in Periods : RunRead(r, p) \/ ApproveRead(r, p)
  \/ ReviewCommit(r) \/ LifecycleCommit(r)
  \/ RunReadEmployees(r) \/ RunReadLeave(r) \/ RunCommit(r) \/ ApproveWrite(r)
  \/ CutShort(r)

Next ==
  \/ \E e \in Employees : \/ CreateEmployee(e) \/ UpsertStructure(e)
                          \/ \E l \in Leaves : Submit(l, e)
  \/ \E p \in Periods : CreatePeriod(p)
  \/ \E r \in Requests : RequestStep(r)

Spec == Init /\ [][Next]_vars

-----------------------------------------------------------------------------
(* Properties                                                               *)

\* Every variable holds a value of its columns or of its handler's locals.
PayTypeOK ==
  /\ status \in [Employees -> Statuses]
  /\ events \in [Employees -> Seq(LifecycleTypes)]
  /\ structure \in [Employees -> Structures \cup {None}]
  /\ used \in [Employees -> [LeaveTypes -> Nat]]
  /\ leave \in [Leaves -> LeaveRow]
  /\ period \in [Periods -> PeriodRow]
  /\ payslip \in [Periods -> [Employees -> PayslipRow \cup {None}]]
  /\ req \in [Requests -> RequestState]
  /\ overlap \in BOOLEAN

ApprovedDays(e, t) ==
  MapThenSumSet(LAMBDA l : DaysInclusive(leave[l].dates),
    {l \in Leaves : leave[l].status = "approved" /\ leave[l].employee = e /\ leave[l].type = t})

\* What is approved has been charged to the balance, whatever interleaves; one
\* review at a time, the balance is exactly the approved days, cut short or not.
LeaveAccounted ==
  \A e \in Employees, t \in LeaveTypes :
    /\ ApprovedDays(e, t) <= used[e][t]
    /\ ~overlap => ApprovedDays(e, t) = used[e][t]

\* A run writes all of its payslips with the move of its period or none of them:
\* however runs interleave and die, a period that can still be run has none.
DraftHasNoPayslips ==
  \A p \in Periods : period[p].status \in {"none", "draft"} => payslip[p] = Nobody

DaysOf(dates) == dates[1] .. dates[2]

\* What a payslip's absence is measured against: one for each approved unpaid
\* leave and each of its days that the period has.  A day that is in two such
\* leaves is two absences.
AbsentDays(p, e) ==
  Cardinality({absence \in UnpaidLeave(e) \X DaysOf(period[p].dates) :
                 absence[2] \in DaysOf(leave[absence[1]].dates)})

\* One request at a time, when a period is generated every active employee with
\* a salary structure, and nobody else, has a payslip, made from that structure
\* and less a thirtieth of the basic salary for each day of each unpaid leave
\* approved by then: for a day twice, when two of them have it.
RunIsComplete ==
  [][\A p \in Periods :
       ~overlap /\ period'[p].status = "generated" /\ period[p].status # "generated" =>
         \A e \in Employees :
           IF status[e] = "active" /\ structure[e] # None
             THEN /\ payslip'[p][e].structure = structure[e]
                  /\ PayslipBreakdown(payslip'[p][e], period[p].dates).absence
                       = (2 * structure[e].basic * AbsentDays(p, e) + 30) \div 60
             ELSE payslip'[p][e] = None]_vars

\* One request at a time, what an employee has been shown stands: an approved
\* period stays approved, and its payslips stay as they are.
PublishedStands ==
  [][\A p \in Periods :
       ~overlap /\ period[p].status = "approved" =>
         period'[p] = period[p] /\ payslip'[p] = payslip[p]]_vars

\* The places of the resignations and terminations in an employee's history.
Leavings(e) == {i \in DOMAIN events[e] : events[e][i] # "transfer"}

\* The history explains the status however actions interleave: an employee has
\* the status of the latest leaving on record, and one request at a time there
\* is one leaving at most, with nothing recorded after it.
HistoryTellsStatus ==
  \A e \in Employees :
    /\ status[e] # "none" =>
         \/ Leavings(e) = {} /\ status[e] = "active"
         \/ \E i \in Leavings(e) : /\ \A j \in Leavings(e) : j <= i
                                  /\ status[e] = StatusAfter(events[e][i], "active")
    /\ ~overlap => Leavings(e) \subseteq {Len(events[e])}
=============================================================================
