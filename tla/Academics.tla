----------------------------- MODULE Academics -----------------------------
(***************************************************************************)
(* Teaching in a school that runs: exams, the timetable, homework and      *)
(* attendance, communication with parents, documents and certificates.     *)
(*                                                                         *)
(* They meet in the people of School: in who is in a section, who is       *)
(* linked to a student, and in what goes with a student or a teacher.      *)
(***************************************************************************)
EXTENDS Examinations, Timetable, Classroom, Communication, Documents

academicsTables ==
  <<examTables, timetableTables, classroomTables, communicationTables, documentTables>>

AcademicsInit ==
  /\ RunningSchool /\ HandlersInit
  /\ ExamsInit /\ TimetableInit /\ ClassroomInit /\ CommunicationInit /\ DocumentsInit

\* The statements a handler of each desk may be at.
ExamOps == {"UpdateExam", "MarksRoster", "Marks"}
TimetableOps == {"GenerateAssignments", "GenerateOthers", "GenerateDelete", "GenerateInsert"}
CommunicationOps == {"Book", "Cancel", "Notify"}
FileOps == {"UploadInsert", "RemoveFile", "RemoveRow", "GenerateCertificate"}

\* StudentsService.remove, with all that names the student by a foreign key.
RemoveStudentWithRecords(s) ==
  /\ RemoveStudent(s) /\ ~Certified(s)
  /\ MarksGo(s) /\ RecordsGo(s)
  /\ UNCHANGED <<timetableTables, communicationTables, documentTables>>

Families == \E p \in Parents, s \in Students : LinkChild(p, s) \/ UnlinkChild(p, s)

ExamsDesk(d) ==
  /\ d = "exams" /\ ExamsController /\ Moves(ExamOps)
  /\ UNCHANGED <<timetableTables, classroomTables, communicationTables, documentTables>>

TimetableDesk(d) ==
  /\ (d = "timetable" /\ TimetableEntries) \/ (d = "substitutions" /\ SubstitutionsNext)
  /\ Moves(TimetableOps)
  /\ UNCHANGED <<examTables, classroomTables, communicationTables, documentTables>>

ClassroomDesk(d) ==
  /\ \/ d = "homework" /\ HomeworkController
     \/ d = "attendance" /\ AttendanceController
     \/ d = "leave" /\ LeaveController
     \/ d = "leave" /\ Families /\ UNCHANGED classroomTables
  /\ UNCHANGED <<examTables, timetableTables, communicationTables, documentTables>>

CommunicationDesk(d) ==
  /\ \/ d = "meetings" /\ PtmController
     \/ d = "messages" /\ MessagesController
     \/ d \in {"meetings", "messages"} /\ Families /\ UNCHANGED communicationTables
     \/ d = "notices" /\ (NotificationsController \/ PostsControllers)
     \/ d \in {"meetings", "messages"} /\ \E r \in Requests : CommunicationDies(r)
  /\ Moves(CommunicationOps)
  /\ UNCHANGED <<examTables, timetableTables, classroomTables, documentTables>>

FilesDesk(d) ==
  /\ d = "files"
  /\ \/ DocumentsController \/ CertificatesController
     \/ \E r \in Requests : DocumentsDies(r)
  /\ Moves(FileOps)
  /\ UNCHANGED <<examTables, timetableTables, classroomTables, communicationTables>>

\* Students leave while the desks that keep rows of theirs are at work.
Leavers(d) ==
  /\ d \in {"exams", "homework", "attendance", "leave", "files"}
  /\ \E s \in Students : RemoveStudentWithRecords(s)

Desks == {"exams", "timetable", "substitutions", "homework", "attendance", "leave",
          "meetings", "messages", "notices", "files"}

AtDesk(d) ==
  ExamsDesk(d) \/ TimetableDesk(d) \/ ClassroomDesk(d) \/ CommunicationDesk(d) \/ FilesDesk(d)
  \/ Leavers(d)

AcademicsNext == \E d \in Desks : AtDesk(d)

academicsVars == <<schoolTables, academicsTables, req, overlap>>

AcademicsSpec == AcademicsInit /\ [][AcademicsNext]_academicsVars

-----------------------------------------------------------------------------
(* Properties                                                               *)

\* Every variable holds a value of its table.
AcademicsTypeOK ==
  /\ SchoolTypeOK
  /\ ExamsTypeOK /\ TimetableTypeOK /\ ClassroomTypeOK /\ CommunicationTypeOK /\ DocumentsTypeOK
=============================================================================
