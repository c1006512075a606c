# SchoolOS backend: TLA+ specifications and proofs

SchoolOS is a multi-tenant school management backend: NestJS handlers over one PostgreSQL database
(through Prisma), one Redis, an object store and a mailer, with one daily background job. This
directory holds TLA+ models of its core, the TLC configurations that check them on small instances,
and TLAPS proofs of what must hold for instances of every size.

## 1. How the system runs, and how it is modelled

Several instances of the process may serve requests at once. A handler is a sequence of awaited
statements. Between two of them any other handler may run, and an error or a redeploy may end the
handler there. Only code inside `$transaction` is atomic, and it runs at PostgreSQL's default READ
COMMITTED, where a check made before (or even inside) a transaction says nothing about the row by
the time it is written. The typical handler of this code base reads a row, checks its status, and
later writes it *by id*, without comparing the status again. Everything that is hard here comes from
that shape, and it decides the form of the models:

- a table is a function from ids to records, with a status for "no such row yet"; an id is never reused;
- a handler is one action per awaited statement, with what it has read kept in `req[r]`, the record of
  the request in flight; a transaction is one action, except where the models say why it is two (Fees);
- a read and a write that decides nothing from an earlier read are one action;
- `CutShort`, `Crash…` end a request between two of its statements and leave its writes behind;
- requests interleave (`overlap`, `Overlap` TRUE) or come one at a time. What the code keeps in every
  interleaving is stated without a condition. What it keeps only because requests rarely meet is stated
  for one request at a time, cut short or not, and section 5 says what happens when they do meet;
- `Tenancy` models what adds `tenantId = …` to every query and what lets a request in. The other modules
  rely on it: a model of one school stands for each of them, and a permission check, which only
  refuses a request before it starts, is left out of them, and so is the validation of bodies.

Two families of modules differ in how they write a request down. `Subscriptions`, `Fees`, `Admissions`,
`Library` and `Payroll` each have their own record of the request in flight. The modules of the rest of
the system extend `Handlers`, which has it once: `Starts`, `At`, `Goes`, `Ends` for the statements of a
handler that reads first and writes later, `AtOnce` for a handler of one write, `Dies` for one that throws
or is cut short, and `Replaced` for a transaction that deletes the child rows it sees and inserts new ones.

## 2. Inventory

| Component | State | Operations | What is hard | What makes it correct |
|---|---|---|---|---|
| Subscriptions, billing, sweep, onboarding | `Subscription`, `BillingRecord`, `Tenant.status`, grace setting | onboard, create, confirm payment, change price, cancel, set status, daily sweep | no transactions across statements, sweep over stale rows, redeploy in a sweep | no free month, lifecycle dates, one charge per period, access follows payment |
| Fees | `Invoice`, `Payment`, `FeeStructure` | generate, pay, refund, balances | totals recomputed at READ COMMITTED | `paidAmount` is what stands paid |
| Admissions | `AdmissionApplication`, `Student`, invoices | inquiry, staged PATCH, decide, enroll | several rows in several transactions | stages in order, paid before enrolled, one student |
| Library | `Book`, `BookCopy`, `LibraryMember`, `Loan`, `Reservation` | issue, return, pay or waive a fine, reserve, fulfil, cancel, join, remove | check-then-transaction by id, cascading deletes | a copy is with one member or on the shelf, within the limit |
| HR and payroll | `Employee`, events, leave, `LeaveBalance`, `SalaryStructure`, `PayrollPeriod`, `Payslip` | hire, transfer, leave, review, run, approve | three reads before the run's transaction | a run is whole and right, published pay stands, balances match leave |
| Hostel | `Hostel`, `Room`, `Allocation`, `Visitor`, `Complaint` | structure, allocate, reassign, vacate, check in and out, complaints | two checks and no unique constraint, cascades | one resident per bed, one bed per resident, nobody evicted by a delete |
| Inventory | `StockItem`, `StockMovement`, `Asset` with maintenance rows | items, movements, assets | new quantity from an old reading, child rows replaced | log and running total agree, one submission's rows |
| Transport, fee structures | `Vehicle`, `Route` with their child rows, `FeeStructure` | create, replace as a whole, remove | delete and recreate of children, foreign keys | one submission's rows, no route without its vehicle |
| Examinations | `Exam`, `ExamMark` | bulk marks, publish, report cards | lock checked before the transaction | published marks stand, ranks agree with totals |
| Timetable | `TimetableEntry`, `Substitution` | generate, edit, substitute | other sections' entries read before the transaction | a generated period clashes with nothing |
| Homework, attendance, student leave | `HomeworkSubmission`, `AttendanceRecord`, `LeaveRequest` | submit, grade, mark a day, review | resubmission against grading, grading from an older queue | a grade does not outlive its answer |
| Communication | `PtmSlot`, threads, `Notification`, preferences, posts | book, cancel, write, announce | slot booked by id; notifications after the commit | a booking stands |
| Authentication | sessions, their index, reset tokens and attempt counters in Redis | log in, refresh, log out, reset | get-then-set, keys with different lives | a secret is answered once, nothing outlives its end |
| User management | `User`, roles | invite, suspend, assign roles | suspension and logout are two stores | a suspended user has no session |
| Documents, certificates | `Document`, `Certificate`, objects | upload, move, delete, issue | database and object store, no common transaction | a link can be followed |
| Students, teachers, parents | records, `Enrollment` history, links, assignments | create, update, remove | history written from an older reading | history ends at the placement |
| School setup | classes, sections, subjects, years, branches, profile | create, update, delete | plain ids, foreign keys, child rows replaced | one submission's rows |
| Platform console and seed | `Role`, `Permission`, grants, flags, `PlatformAuditLog` | edit a role, switch a flag, seed | edit against seed, log written last | nobody but super_admin holds platform permissions, the log tells of every change |
| Common infrastructure | request context, access tokens, Prisma extension, guards, audit | let in, scope, audit | a context shared by async code, permissions signed into a token | a request acts for the tenant of its user |
| Reports, search | none | queries | — | — |

Interaction: admissions calls fees (`generateAdmissionInvoice`, `reconcileAdmissionInvoices`) and shares the
`Invoice` table with it; reservations call circulation (`issueBook`) and members; payroll reads what HR
writes; the sweep and the console share `Subscription` and `Tenant`; the console edits the permissions that
login and refresh sign into access tokens. The other components meet in the people and classes of the
school, through foreign keys, their cascades, and plain ids that nothing clears. `PROJECT.json` lists each
component with its files, and each hazard with its line.

## 3. Modules

| Module | Models | Correspondence |
|---|---|---|
| `Subscriptions` | `platform/{subscriptions,billing,schools,platform-settings,subscription-sweep}.service.ts` | `sub`, `charge`, `tenant`, `grace` are the tables; `ConfirmRead … ConfirmReinstate` the statements of `confirmPayment` with `confirmPendingRecord` and `createPendingRecord`; `Sweep…` those of `runSweep`; `now` the PKT day |
| `SubscriptionLifecycle` | the `SubscriptionStatus` enum's comments | abstract: ACTIVE, GRACE, SUSPENDED with the date of each move |
| `Fees` | `fees/invoices.service.ts`, `fee-calc.ts` | `PayInsert`/`PayCommit`, `RefundCheck`/`RefundUpdate`/`RefundCommit`: a transaction is a step up to its read of the payments and a step to its commit; `paidAmount` is kept as the set of payments it sums |
| `Admissions` | `admissions/admissions.service.ts`, EXTENDS `Fees` | `UpdateRead`, `GenerateAdmissionInvoice`, `UpdateWrite`; `EnrollRead`, `EnrollCheckPaid`, `EnrollCommit` with `Reconcile` |
| `Library` | `library/*.service.ts`, `lib/loan-calc.ts` | `Issue…` the statements of `issueBook`, alone or from `fulfill`; `Cascade` the schema's `onDelete` |
| `LendingDesk` | the library's promise | abstract: a copy is on the shelf, with one member, or away |
| `Payroll` | `hr/*.service.ts`, `payroll/*.service.ts`, `payroll-calc.ts` | `Review…`, `Lifecycle…`, `RunRead` to `RunCommit`; a payslip keeps the structure and the leave its amounts follow from |
| `Handlers` | what NestJS, Prisma and PostgreSQL do for every handler | `req`, `overlap` and the operators of section 1 |
| `School` | `school-setup/*`, `tenants/branches`, `students`, `parents`, `teachers` | a table each; `UpdateStudentRead`/`UpdateStudentWrite` the two statements of `update`; `UpdateYearDelete`/`UpdateYearCommit` the transaction up to its delete and its rest |
| `Hostel` | `hostel/*.service.ts` | `AllocateRoom`, `AllocateBed`, `AllocateStudent`, `AllocateCreate` are the statements of `allocate`; `WithRooms` the cascade |
| `Inventory` | `inventory/stock`, `inventory/assets` | `MovementRead`, `MovementCommit`; `UpdateAssetDelete`, `UpdateAssetCommit` |
| `Transport` | `transport/*`, `fees/fee-structures.service.ts` | as `Inventory`, with the foreign keys of routes |
| `Accounts` | `auth/{auth,session}.service.ts`, `user-management`, `users` | Redis keys are variables with what is left of their life; `Rotate…` and `Destroy…` are the commands of `rotate` and `destroyAllSessions` |
| `Console` | `platform/{roles,feature-flags,platform-audit-log}.service.ts`, `prisma/seed.ts`, EXTENDS `Accounts` | a grant carries the edit that made it; `Seed…` are the statements of the seed |
| `Tenancy` | `common/{context,prisma,guards,interceptors}`, `jwt.strategy.ts`, EXTENDS `Console` | `ReadProfile`/`SignAccessToken`, then `Arrives`, `Authenticated` or `Public`, any queries, `Answers…`, `WriteAuditRow`; a row stands for a row of any tenant-scoped table |
| `Campus` | `School`, `Hostel`, `Inventory`, `Transport`, `Tenancy` together | one next-state relation made of desks |
| `Examinations`, `Timetable`, `Classroom`, `Communication`, `Documents` | the services of the same names, with attendance and leave in `Classroom` and certificates in `Documents`; each EXTENDS `School` | `MarksRead`, `MarksRoster`, `MarksCommit`; `Generate…`; `BookRead`/`BookWrite`; `ListSubmissions`, which keeps in `listed` what grading queues have shown, and `GradeSubmission`, whose grade is of one of those; `UploadStore`/`UploadInsert`, `RemoveRead`/`RemoveFile`/`RemoveRow` |
| `Academics` | these five together | as `Campus`, over a school that runs |
| `MC…` | the instances TLC checks | constants, symmetry |
| `SubscriptionsProofs`, `AdmissionsProofs` (with the theorems of `Fees`), `LibraryProofs`, `PayrollProofs` | theorems | section 6 |
| `PlatformProofs`, `CampusProofs`, `AcademicsProofs` | theorems about `Accounts`, `Console` and `Tenancy`; about `Campus` and about `Academics`, all desks at once | section 6 |
| `SumTheorems` | sums over a finite set | section 6 |

A definition named after a mutant (`\* Mutant: …`) precedes the definition it varies. It is a
plausible mistake in that code; put in the definition's place, it makes the property it is listed
with in `PROJECT.json` fail.

## 4. Runs

All of them finish in about three minutes or less with two workers.

- **subs_overlap** — two console requests and the sweep interleave, one cut short. Nobody gets a
  month no charge was marked PAID for, a grace deadline is on the row exactly while in force, and an
  unpaid school leaves its expired grace window (`GraceEnds`, under fairness) although a sweep dies and
  whatever comes in between.
- **subs_serial** — one handler at a time, one cut short. `ImplementsLifecycle` is the refinement of
  `SubscriptionLifecycle`; `ChargePerPeriod` and `PaidMeansAccess` tie charges and access to it, where
  nothing was cut short also that a charge is always there to be confirmed.
- **subs_half_suspended** *(violation)* — the sweep sets the subscription SUSPENDED and the tenant in
  two statements. The comment on the class says a redeploy in mid-sweep is safe to re-run; if it
  falls in between, the row matches neither query again and the school keeps its access.
- **adm_overlap** — an admission clerk, two payments or refunds and one failure interleave.
  An undisturbed payment repairs what concurrent ones lost, nobody is enrolled whose fee was never covered, and a payment is refunded no
  more often than requests overlap (`DoubledAtMost`, which says the same of admission invoices and students).
- **adm_serial** — one at a time, one request cut short: accurate invoices; a statement that shows
  everything paid; no payment refunded and no application enrolled twice; and one admission invoice for
  an application, or one more at most for each request cut short (`NothingTwice`).
- **adm_retried** *(violation)* — one at a time, a PATCH to `fee_payment` is cut short between the invoice
  and the application's row. Sent again it bills a second time, against "idempotent" in
  `invoices.service.ts:295`.
- **fees_lost** *(violation)* — two payments at once: each sums without the other and the later
  commit wins, against "always accurate" in `fee-calc.ts` and the schema.
- **library_desk** — both modes in one run. In every interleaving a member exceeds `maxBooks` by at
  most the other requests in flight; one at a time, cascades included, the tables implement
  `LendingDesk`, a copy is marked as lent exactly while one loan is open and no reservation fulfilled
  without one (`MarkedAsLent`), and a fine is settled once.
- **payroll_books** — both modes. In every interleaving approved leave has been charged, a period is
  generated whole or not at all, and the history explains the status; one at a time a run pays
  exactly the active employees with a structure, less the days of the period in each approved unpaid
  leave (against a definition by sets of days; a day that two leaves cover counts for both), balances
  equal the approved days, and what was approved stands.
- **campus** — both modes, one desk at a time (see below). In every interleaving a bed has no more
  residents, a table that is replaced as a whole no more submissions, and a refresh secret no more
  answers than requests were in flight, which is one where they come one at a time; stock never goes
  below zero; and each request acts for the tenant of its user with permissions no older than an
  access token. One at a time, cut short or not, no delete of a room or hostel takes a resident with
  it, the log of movements adds up and histories end at the present placement. Where nothing was cut short, the
  log of the console tells of each change and nothing outlives a suspension or a lock.
- **academics** — both modes, one desk at a time. In every interleaving a link can be followed unless its
  removal is under way or was cut short, an answer handed in again shows no grade until it is graded again,
  and ranks agree with the totals of the cards, against a definition by counting. One at a time published
  marks of those who are still students change only by who may publish, a generation replaces a section's
  periods by ones that clash with nothing, and a booked meeting is not booked over. Students leave in the
  middle of it (`Leavers`): their marks, answers, attendance and leave go with them by cascade, while a
  certificate, whose foreign key restricts, keeps its student. A graded row has a grade of an answer that
  some queue may have shown, and of its own answer if queues have shown no other.
- **suspended** *(violation)* — a refresh renews the session's key but not the index of its user's sessions.
  After the index has lapsed, a suspension reads an empty set and the session lives on, against the
  comment in `user-management.service.ts`.

### Desks

`Campus` and `Academics` each compose components whose product is far beyond TLC. A *desk* is a set of
handlers that touch a set of tables; two desks share at most tables that one of them only reads, so the
properties, none of which relates tables of two desks, see of another desk's steps nothing but what
the shared rows look like. `CampusNext` lets every desk act at any time; the instances fix the desk a
behaviour starts at, so that one run checks each desk on its own. Where a desk reads another's tables,
the handlers that change them are part of it: `people` has the creation of classes and sections,
`leave` and `meetings` the links of parents and children, `guards` the edit of the role that is signed
into tokens. `requests` and `guards` divide the way of a request by what varies: two members of two
schools with any queries, or one member whose role is edited while tokens age. The theorems of
`CampusProofs` and `AcademicsProofs` say the same of all desks at once, where any two may share the
requests in flight.

### Bounds

Two requests are enough for a check to become stale, and a third adds no new kind of overlap for the
invariants stated here, which is what the proofs confirm where there is one. `MaxTime` (3 to 6 days with
periods of 2) lets a period lapse, its grace end and a renewal follow; three or four charges let two
confirmations meet; `MaxCrashes = 1` is one failure per behaviour, of any handler at any statement (the
library and payroll need no bound: a cut request only returns to idle). Two copies, one member with a limit
of one book and three loans let a copy be lent twice and a limit be passed. `LateDays = {1}` makes every
return late, so a return without a fine is not in that run; `calculateFine` itself covers a cap of 0 (no
cap) and no cap. `lost` and `damaged` copies are one status, `unfit`, since no check tells them apart.
Payroll has one employee, two leave requests (a day, two days over the end of the month, and a last day
before the first, which the DTO accepts), one period and `MaxEvents = 2` lifecycle events. At the desks
there are two requests, and of each table one or two rows: what two requests can do to one row, or one
request to a row and its neighbour. `MaxBeds = 1` with two rooms and two residents fills a room; three
allocations let a bed be given, vacated and given again. `MaxTime = 3` with `Ttl = 2` is the least that lets
an index lapse before a session that was refreshed; `AccessTtl = 2` lets a token outlive a change of its
role. Two edits of a role and a seed over an older or an empty catalog meet in `console`. Two exams, two
students and two sheets rank everyone in every order; two periods and one teacher in two sections are enough
to clash. `Max…` bounds on submissions, answers, messages and secrets are one more than the number needed
for two to overlap. In the admission runs there are invoices and students for one more than `NothingTwice`
and `DoubledAtMost` allow, so the limit that is reached is not the supply's; there is one clerk, and of two
that meet only the theorem tells. Symmetry is used for ids only that no constant or operator orders, and not
in the run with liveness. There charges are numbered and issued in order (`IssuedInOrder`, a CONSTRAINT),
which leaves out behaviours that differ from one that is kept in the names of new rows only, and no step
that fairness is about. `CHECK_DEADLOCK FALSE` where supplies of ids run out: a bounded system really stops
there.

### Fairness

Only `Subscriptions` has liveness. `Fairness` is weak fairness of the sweep's steps and of the clock:
the cron fires every day and a process runs what it has started. Nothing obliges an administrator to
send a request, and a crash may end any sweep, a bounded number of times. The desks have no fairness and need
none: a handler is a straight line of statements that ends or throws, and what must come later (a
charge, a log row, the end of a session) is stated of the states in which no handler is in flight.

`Tenancy` assumes that no tick of its clock falls between the read of a user's profile and the signing
of the token, two statements of one handler against minutes of a token's life; `Campus` says the same of
the ticks that its desk of sessions adds.

## 5. What happens when requests do meet

Found while modelling. Where a comment or the schema promises otherwise, its line is in brackets, and the
violation run if one shows it; there is a run for one such promise of each kind (a lost update, a retry, a
crash, a key that lapses), not for each promise. The properties and theorems say of all these what holds:
a limit in every interleaving, or the promise for one request at a time.

- Confirming a payment twice at once leaves two pending charges of one school; cut short between the renewal
  and the new charge, it leaves none, and the next confirmation is refused; two that overlap may also charge
  one period twice (`schema.prisma:2560`: one row per period, exactly one pending). A sweep that read the
  row before a renewal puts the renewed row in GRACE. A payment confirmed while the sweep is between the
  subscription and the tenant leaves a paid school locked (`subscriptions.service.ts:213`: restored
  immediately). A sweep cut short there leaves an unpaid school with access (`subs_half_suspended`).
- Two payments of one invoice leave a total that misses one (`fees_lost`). Two refunds of one payment both
  succeed. A PATCH to `fee_payment` cut short after its invoice and sent again bills twice
  (`adm_retried`). Two PATCHes to `fee_payment` make two admission invoices;
  an overtaken PATCH moves a stage back; two enrolments make two students. `DoubledAtMost` limits all of it by
  the requests in flight.
- Two issues of one copy leave two open loans, and a copy free again when the first is returned. Two
  returns can reset a paid fine, or put a re-lent copy on the shelf. A fine can be paid and waived.
  `fulfill` compares neither the queue's order nor the book of the copy with the reservation.
- An approval and a rejection of one leave request leave it rejected and charged; two approvals charge
  twice. A run that found nobody eligible and commits late puts an approved period back to generated
  (`payroll-periods.service.ts:66`: rejected outright). A day in two approved unpaid leaves is deducted
  twice. Leave approved after a run is deducted by no payslip. A leave whose last day is before its first is
  charged one day and deducted none. The schema's comment on `Payslip` speaks of re-running a period, the
  service's comment and code refuse it; the schema speaks of business days, the code counts calendar days.
- Two allocations of one bed, or of one resident, both stand. Two movements of one item leave a total that
  the log does not add up to (`stock.service.ts:160`: never disagree). A move that an overlapping edit
  undoes is in the history and its undoing is not (`schema.prisma:558`: every time). A room counted empty is
  deleted with the allocation made meanwhile. Two submissions of an asset, vehicle, route, year, branch, or
  of a role's permissions leave the rows of both; of preferences and a user's roles, which a unique key
  protects, the second fails.
- Marks saved while an exam is being published change what parents were shown (`schema.prisma:1096`: locks).
  Lowering `maxMarks` leaves marks above it. The card of a published exam adds unpublished exams of its
  series. Two generations give one teacher two sections at once (`timetable.service.ts:180`: rather than
  double-book); one that finds every teacher busy empties the timetable; periods entered by hand are checked
  by the client alone.
- Homework may be handed in by anyone, late, and again: the status goes back and the old grade stays in the
  row. A teacher grades what the queue showed and sends the id of the row: an answer handed in since is then
  shown as graded, with the grade of the one before. Two bookings of a slot leave the later one; notes may
  be written before anyone books and pass to whoever does. A reply marks as read what its writer has not
  seen.
- A document's object is deleted before its row; cut short in between, the row is shown and cannot be
  followed (`documents.service.ts:156`, which says that the order avoids it).
- A session refreshed past the life of its index survives a suspension (`suspended`). A refresh that
  overlaps a logout creates the session again, outside the index. `INCR` and `EXPIRE` of the counter of
  failures are two commands: cut short in between, the lock has no end. A reset deletes its token before it
  sets the password: an invited user cut short there cannot ask for another link. A reset activates a
  suspended user.
- A change in the console whose handler is cut short is in no log. Seeding again gives the owner and the
  admin of a school back what the console took from them; two seeds at once may insert a flag twice.
- Moving a section to another class leaves its students in the old one. A visitor may be checked out
  twice, and a complaint's `resolvedAt` be older than its status.
- An invoice discounted to 0 is never `paid` (`fee-calc.ts` asks for a total above 0), so its
  applicant cannot be enrolled.

## 6. Proofs

Proved with TLAPS for any number of schools, members, employees, requests and ids. The assumptions
are the named `ASSUME`s of each module; they are finite sets where a cardinality or a sum is taken,
amounts in Nat and full marks of exams positive as their DTO asks, `None` different from every id, ids
of students different from those of applications and ids of documents from those of certificates.
Where a theorem is about one request at a time, that is a hypothesis of the property
(`~overlap => …`), or of the theorem where the mode is a constant (`~Overlap`). It is the weakest one:
section 5 says what fails without it.

- `SubscriptionsProofs`, any interleaving: `TypeCorrect`; `NeverAFreeMonth`; `DeadlineKept`. `NoFreeMonth`
  is not inductive: a request that has marked its charge and not yet renewed carries the right to a month.
  The invariant counts, for each school, the requests between those two statements; period end and months in
  hand together never exceed the paid charges, and marking is what makes a charge paid. One handler at a
  time: `OneChargePerPeriod`; `PaymentRestoresAccess`, as long as no status is set by hand (`"status"` not
  among `Ops`; the console may set SUSPENDED over anything); and `LifecycleImplemented`. The refinement
  shows that initial states map to initial states and each statement of each handler and of the sweep to one
  step of `SubscriptionLifecycle` or to none.
- `AdmissionsProofs`, Fees, any interleaving: `TypeCorrect`; `CountsRealMoney`; `Repairs`. The invariant
  says what a transaction has seen: a set of committed payments of its invoice, plus its own, and, as long
  as nobody else committed (`fresh`), all of those that stand. One at a time: `SerialAccurate`, the
  statement about sets, and from it `PaidIsAccurate`, the statement about amounts, with the status that
  follows from the amount (`StatusTells`).
- `AdmissionsProofs`, Admissions, any interleaving: `AdmissionsTyped`; `EnrolledArePaid`; and, of the rows it
  shares with the desk of fees, `StillRealMoney` and `StillRepairs`. `PaidBeforeEnrolled` needs that what
  a request holds is its application's own (stage, admission invoices), that the request between the
  check and the enrolment has seen an invoice that was covered, and that what once covered it still
  does: payments of an invoice are only added to, so the sum is monotone. `DoublingLimited`, also in any
  interleaving: what a payment, an application or a student has already had, together with the
  requests that have checked and not yet written, is no more than the requests there are (`LimitInv`),
  since a check that passes finds nothing done yet; a request cut short moves its invoice from the
  one count to the number of crashes. One at a time: `TwiceNever`
  and `StatementsAreComplete`, on an invariant of what each handler leaves behind: a payment is refunded
  by one refund, an application is enrolled as one student and has one admission invoice if no request was
  cut short, and at most one more for each that was, every invoice
  of an enrolled application has been handed over to its student, and all amounts are accurate
  (`StillAccurate`).
- `LibraryProofs`: `TypeCorrect`; `OverrunLimited`, in any interleaving, by bounding open loans plus
  requests past the count by `maxBooks + |Requests| - 1`. One at a time: `RowsTellTheLoans`, where a
  request past its check still finds what it checked; `SettledForGood`, an action property; and
  `ImplementsDesk`, the refinement of `LendingDesk`, cascades included.
- `PayrollProofs`, any interleaving: `TypeCorrect`; `NoStrayPayslips`. `HistoryTells` and `LeaveIsAccounted`
  have a part for any interleaving and a stronger one for one request at a time; `PublishedForGood` and
  `RunPaysAll` are about one at a time. The history of an employee explains the status
  if the request that is about to append reads what it writes; `LeaveAccounted` is a sum over the approved
  requests, which an approval extends by the days it charges. `RunIsComplete` compares the run's
  arithmetic of dates with a definition by sets of days; its proof counts the days of a leave inside
  the month on both sides, leave by leave, as the code adds them up.
- `PlatformProofs`: `TenantsKeptApart`, under `TenancySpec`: the routes of all schools, the guards, and
  the whole console with a seed beside them. The invariant says what a request knows at each
  statement; that a scoped query finds rows of its tenant only is a lemma about the extension
  (`ScopedTo`). A right is carried if the role grants it or lost it no longer than a token ago; an
  edit moves it from the first case to the second at the present tick, and time never passes between
  the read of a profile and the signature, which is the assumption behind "no older than a token".
  `SecretsAnsweredOnce`, under `AccountsSpec`, all handlers of sessions, logins and invitations: answers
  to a secret and the refreshes that still wait with it are no more than may be in flight; a new
  refresh joins only while the secret has had no answer, and a new secret is one that no session of
  that id was ever given.
- `CampusProofs`, all under `CampusSpec`, with the requests of all desks interleaved: `CampusTyped`,
  `BedsAreKept`, `LogsTellWhatHappened`, `SubmissionsKeptApart`, `HistoriesEndHere`,
  `NothingOutlivesItsUser`, `SecretsAnsweredBesideAll` and `TenantsKeptApartBesideAll`. They follow from one
  inductive invariant, `CampusInv`: requests are in flight as they can be (`InFlightOK`), each is at a
  statement of one desk with the locals of that statement (`CampusRequests`), and every desk has its own
  invariant. A desk has three lemmas: its steps move requests as `Steps` says (`HostelSteps`), they keep its
  invariant (`HostelKeeps`), and so does whatever leaves its tables and statements alone
  (`HostelElsewhere`). That the statements of two desks differ (`OpsApart`) then makes a step of the campus
  a step of one desk and none of the others. `Campus` names the statements of each desk and says with
  `Moves` that a desk advances, or loses to an error, only handlers of its own; TLC finds the same states
  with and without it. What the invariants of the desks say beyond the properties:
  - Hostel: active allocations of a bed and requests that have found it free are together no more
    than may be in flight; one at a time, a request that is about to allocate or to delete still finds
    what it checked.
  - School: a request about to write a placement still knows whether it is a new one.
  - Children replaced as a whole: `Apart` gives every submission among the children of a row a request
    of its own, which, when it is about to replace them again, has seen that one. A commit takes
    away what it has seen and adds one, so the requests bound the submissions; `OneSubmission` alone is not
    inductive, because it does not say which submissions a commit will delete. The grants of a role are
    the same with edits for submissions, and with the seed's grants (`GrantsInv`) beside them.
  - Inventory: the stock read before a movement still fits, and a sum over a sequence grows by what is
    appended (`TotalGrows`, from `SumTheorems`).
  - Accounts: for a suspended user, every session that is not overdue is one that the request in flight
    has yet to delete; a session is reached through its index while the index lives. A counter without
    its expiry belongs to a login that is about to set it.
  - Console: changes are the log's rows and the requests about to write one; flags have at most one row
    for each request that found none.
- `AcademicsProofs`, all under `AcademicsSpec`, with the requests of all desks interleaved and students and
  teachers leaving between any two steps: `AcademicsTyped`, `GradesFollowAnswers`, `LinksLeadSomewhere`,
  `PublicationLocks`, `GenerationsAvoidClashes`, `BookingsStand` and `RanksFollowTotals`. They follow from
  `AcademicsInv`: the requests in flight, the types of the school's rows, and an invariant for each desk
  (`ExamInv`, `TimetableInv`, `ClassroomInv`, `CommunicationInv`, `FilesInv`). The frame is a pair of
  predicates: `Steps` says what a step of a desk does to the requests, `Keeps` that a step leaves the
  statements of another desk alone, and `…Elsewhere` that a desk's invariant then stands. The three action
  properties are proved beside the invariant (`StepStands`), from the state the step starts in. What the
  invariants say beyond the properties:
  - Examinations, one at a time: a request that is about to write an exam, or marks of it, knows whether
    the exam is published by then (`LockStands`), so what it writes over is open or it may reopen it.
  - Timetable, one at a time: what a generation has read of the other sections is still so
    (`PlanStands`): its periods have the teachers the assignments name, none of whom is in another
    section's entry of that time, and one period for a slot; and the rows it is about to delete are all
    its section has.
  - Communication, one at a time: a request about to book has found the slot free (`StillFree`).
  - Documents, any interleaving: an id is drawn for one upload, so an object that is stored and not yet
    inserted belongs to one request, and nothing removes it (`FilesBehindRequests`). That a certificate
    which verifies has its student rests on its foreign key, which refuses the student's removal.
  - Homework: `GradedSinceAnswered` needs that queues have shown no answer newer than the row's, so a new
    answer is in none and drops the grade (`ClassroomInv`); the removals of homework and students are included.
  - Report cards: `RanksFollowTotals` is about what `computeRanks` computes, not about steps: of the
    invariants it needs the types of exams and marks only. The sorted list exists, and the recursion
    down the list has one solution, which is one more than the number of higher values; each by a
    least counterexample.
- `SumTheorems`: what the community modules' sum over a finite set is worth: it is additive, does not
  depend on the order, grows with the set, and counts pairs. The recursion that defines it is shown to
  define a function by least counterexamples among the subsets of the set, because the induction
  theorems take an operator as a parameter, which the provers cannot instantiate.

Only proved: `OnlyRealMoney`, that an invoice counts committed payments of its own, with admissions beside
the desk of fees (`StillRealMoney`) and without (`CountsRealMoney`). Only model-checked: liveness (`GraceEnds`), which is out of TLAPS's reach as `ENABLED` is.

## 7. Not modelled

Reports and search, which are queries, and everything marked `partly` in `PROJECT.json`, with what is
missing there: mostly the PATCH of plain fields that nothing reads. Throughout: mail, list queries,
pagination and response mapping, none of which a handler decides on; the delivery of notifications to
open sockets; personal data and other plain fields; the wrappers of Redis, mail and the object store,
configuration and rate limits; migrations; concurrent creation of one settings row.

## 8. Plan

Done: Subscriptions, Fees, Admissions, Library, Payroll, then the rest of the system in `Campus` and
`Academics`, in the order of what a mistake would cost; and a theorem for every safety property of the
passing runs.

1. **Desks that meet** — a run of `Campus` in which a student is removed while resident, enrolled and
   billed, once a bound is found that TLC can finish.
2. **The remaining PATCHes**, if a property comes to depend on the fields they write.
