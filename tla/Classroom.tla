----------------------------- MODULE Classroom -----------------------------
(***************************************************************************)
(* Homework with the answers of students and their grades, the daily       *)
(* attendance, and the leave that parents ask for.                         *)
(*                                                                         *)
(* Every handler has one write, of a row it names by its id or its unique  *)
(* key, so each is one action.  Answers are numbered.  A teacher grades an *)
(* answer that a grading queue showed, and a queue is read by a request of *)
(* its own: the student may have handed in another answer since.           *)
(***************************************************************************)
EXTENDS School

CONSTANTS
  Homeworks, Leaves,  \* ids of rows
  Days,               \* school days
  Staff,              \* users who may mark attendance
  MaxAnswers          \* bound: answers a student hands in for one homework

ASSUME ClassroomAssumption == MaxAnswers \in Nat \ {0}

VARIABLES
  homework,    \* Homework rows
  submission,  \* HomeworkSubmission rows, by homework and student
  listed,      \* the answers of a row that grading queues have shown
  attendance,  \* AttendanceRecord rows, by student and day
  leave        \* LeaveRequest rows

classroomTables == <<homework, submission, listed, attendance, leave>>

HomeworkDto == [classes : SUBSET Classes \ {{}}]
BulkAttendanceDto == [class : Classes, section : Sections, day : Days]
AttendanceStatus == {"present", "absent"}
SubmitLeaveDto == [student : Students]
Review == {"approved", "rejected"}

HomeworkRow == [status : RowStatus, classes : SUBSET Classes]
Submission == [status : {"submitted", "graded"}, answer : 1..MaxAnswers,
               gradeOf : (1..MaxAnswers) \cup {None},  \* the answer the teacher read
               gradedAt : 0..MaxAnswers]               \* answers handed in by then
AttendanceRecord == [class : Classes, section : Sections, status : AttendanceStatus, by : Staff]
LeaveRequest == [status : {"pending"} \cup Review, student : Students]

ASSUME SubmissionAssumption == None \notin Submission

ClassroomInit ==
  /\ homework = [h \in Homeworks |-> [status |-> "none", classes |-> {}]]
  /\ submission = [h \in Homeworks |-> [s \in Students |-> None]]
  /\ listed = [h \in Homeworks |-> [s \in Students |-> {}]]
  /\ attendance = [s \in Students |-> [d \in Days |-> None]]
  /\ leave = [v \in Leaves |-> None]

-----------------------------------------------------------------------------
(* HomeworkService                                                          *)

CreateHomework(h) ==
  /\ AtOnce /\ homework[h].status = "none"
  /\ \E dto \in HomeworkDto :
       /\ ClassesKept(dto)
       /\ homework' = [homework EXCEPT ![h] = [status |-> "kept", classes |-> dto.classes]]
  /\ UNCHANGED <<submission, listed, attendance, leave, schoolTables>>

\* Answers that are there stay, also of classes it is no longer set to.
UpdateHomework(h) ==
  /\ AtOnce /\ homework[h].status = "kept"
  /\ \E dto \in HomeworkDto :
       /\ ClassesKept(dto)
       /\ homework' = [homework EXCEPT ![h].classes = dto.classes]
  /\ UNCHANGED <<submission, listed, attendance, leave, schoolTables>>

\* With its submissions.
RemoveHomework(h) ==
  /\ AtOnce /\ homework[h].status = "kept"
  /\ homework' = [homework EXCEPT ![h].status = "deleted"]
  /\ submission' = [submission EXCEPT ![h] = [s \in Students |-> None]]
  /\ listed' = [listed EXCEPT ![h] = [s \in Students |-> {}]]
  /\ UNCHANGED <<attendance, leave, schoolTables>>

FirstAnswer == [status |-> "submitted", answer |-> 1, gradeOf |-> None, gradedAt |-> 0]

\* Mutant: a new answer leaves the status.
AnsweredKept(row) == IF row = None THEN FirstAnswer ELSE [row EXCEPT !.answer = @ + 1]

\* An upsert: a second answer replaces the first, but not the grade it was given.
Answered(row) ==
  IF row = None THEN FirstAnswer ELSE [row EXCEPT !.status = "submitted", !.answer = @ + 1]

\* Any student may answer, of any class and after the deadline.
Submit(h, s) ==
  /\ AtOnce /\ homework[h].status = "kept" /\ Placed(s)
  /\ submission[h][s] # None => submission[h][s].answer < MaxAnswers
  /\ submission' = [submission EXCEPT ![h][s] = Answered(@)]
  /\ UNCHANGED <<homework, listed, attendance, leave, schoolTables>>

\* A queue shows the answers there are now, to a teacher who may grade them much later.
ListSubmissions(h) ==
  /\ AtOnce /\ homework[h].status = "kept"
  /\ listed' = [listed EXCEPT ![h] =
       [s \in Students |-> IF submission[h][s] = None THEN listed[h][s]
                           ELSE listed[h][s] \cup {submission[h][s].answer}]]
  /\ UNCHANGED <<homework, submission, attendance, leave, schoolTables>>

\* By the row's id alone, with a grade of an answer that some queue showed.
GradeSubmission(h, s) ==
  /\ AtOnce /\ submission[h][s] # None
  /\ \E seen \in listed[h][s] :
       submission' = [submission EXCEPT ![h][s].status = "graded", ![h][s].gradeOf = seen,
                                        ![h][s].gradedAt = submission[h][s].answer]
  /\ UNCHANGED <<homework, listed, attendance, leave, schoolTables>>

HomeworkController ==
  \E h \in Homeworks : \/ CreateHomework(h) \/ UpdateHomework(h) \/ RemoveHomework(h)
                       \/ ListSubmissions(h)
                       \/ \E s \in Students : Submit(h, s) \/ GradeSubmission(h, s)

-----------------------------------------------------------------------------
(* AttendanceService                                                        *)

\* One transaction of upserts.  The students need not be of the section.
BulkSubmit(user) ==
  /\ AtOnce
  /\ \E dto \in BulkAttendanceDto, marked \in SUBSET Students \ {{}} :
       /\ SectionOf(dto.section, dto.class) /\ \A s \in marked : Placed(s)
       /\ \E status \in [marked -> AttendanceStatus] :
            attendance' = [s \in Students |->
              IF s \in marked
              THEN [attendance[s] EXCEPT ![dto.day] =
                     [class |-> dto.class, section |-> dto.section, status |-> status[s], by |-> user]]
              ELSE attendance[s]]
  /\ UNCHANGED <<homework, submission, listed, leave, schoolTables>>

UpdateRecord(user, s, day) ==
  /\ AtOnce /\ attendance[s][day] # None
  /\ \E status \in AttendanceStatus :
       attendance' = [attendance EXCEPT ![s][day].status = status, ![s][day].by = user]
  /\ UNCHANGED <<homework, submission, listed, leave, schoolTables>>

AttendanceController ==
  \E user \in Staff : \/ BulkSubmit(user)
                      \/ \E s \in Students, day \in Days : UpdateRecord(user, s, day)

-----------------------------------------------------------------------------
(* LeaveService                                                             *)

\* Staff, or a parent the student is linked to.
CanActForStudent(who, s) == who \in Staff \/ <<who, s>> \in link

SubmitLeave(who, v) ==
  /\ AtOnce /\ leave[v] = None
  /\ \E dto \in SubmitLeaveDto :
       /\ Placed(dto.student) /\ CanActForStudent(who, dto.student)
       /\ leave' = [leave EXCEPT ![v] = [status |-> "pending", student |-> dto.student]]
  /\ UNCHANGED <<homework, submission, listed, attendance, schoolTables>>

\* A reviewed leave may be reviewed again.
ReviewLeave(v) ==
  /\ AtOnce /\ leave[v] # None
  /\ \E status \in Review : leave' = [leave EXCEPT ![v].status = status]
  /\ UNCHANGED <<homework, submission, listed, attendance, schoolTables>>

LeaveController ==
  \E v \in Leaves : ReviewLeave(v) \/ \E who \in Staff \cup Parents : SubmitLeave(who, v)

\* A student's rows go with the student.
RecordsGo(s) ==
  /\ submission' = [h \in Homeworks |-> [submission[h] EXCEPT ![s] = None]]
  /\ listed' = [h \in Homeworks |-> [listed[h] EXCEPT ![s] = {}]]
  /\ attendance' = [attendance EXCEPT ![s] = [d \in Days |-> None]]
  /\ leave' = [v \in Leaves |-> IF leave[v] # None /\ leave[v].student = s THEN None ELSE leave[v]]
  /\ UNCHANGED homework

-----------------------------------------------------------------------------
(* Properties                                                               *)

ClassroomTypeOK ==
  /\ homework \in [Homeworks -> HomeworkRow]
  /\ submission \in [Homeworks -> [Students -> Submission \cup {None}]]
  /\ listed \in [Homeworks -> [Students -> SUBSET (1..MaxAnswers)]]
  /\ attendance \in [Students -> [Days -> AttendanceRecord \cup {None}]]
  /\ leave \in [Leaves -> LeaveRequest \cup {None}]

\* A row that is graded, of which queues have shown these answers.
GradedLast(row, shown) ==
  /\ row.gradedAt = row.answer /\ row.gradeOf \in 1..row.answer
  /\ shown \subseteq {row.answer} => row.gradeOf = row.answer

\* A row that is shown as graded has had no answer since its grade was saved, and the
\* grade is of an answer that was handed in by then: of this one, unless a queue has
\* shown an earlier one.  Answers are kept for homework and students that are.
GradedSinceAnswered ==
  \A h \in Homeworks, s \in Students : submission[h][s] # None =>
    /\ homework[h].status = "kept" /\ Placed(s)
    /\ submission[h][s].status = "graded" => GradedLast(submission[h][s], listed[h][s])
=============================================================================
