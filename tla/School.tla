------------------------------- MODULE School -------------------------------
(***************************************************************************)
(* The structure of a school (classes, sections, subjects, academic years, *)
(* branches, the profile) and its people (students with the history of     *)
(* their placements, parents with their children, teachers with their      *)
(* assignments).                                                           *)
(*                                                                         *)
(* Students hold their class, section and year by foreign keys; subjects,  *)
(* assignments and histories name classes by plain ids that nothing        *)
(* clears, so a check of such an id made earlier than the write reaches no *)
(* state that a later removal does not, and is one action with the write.  *)
(***************************************************************************)
EXTENDS Handlers, SequencesExt

CONSTANTS
  Classes, Sections, Subjects, Years, Branches,      \* ids of rows
  Students, Parents, Teachers, Assignments,          \* ids of rows
  MaxPlacements,  \* bound: placements in a student's history
  MaxReplaced     \* bound: submissions of a year or a branch

ASSUME SchoolAssumption == MaxPlacements \in Nat \ {0} /\ MaxReplaced \in Nat \ {0}

VARIABLES
  schoolClass,  \* SchoolClass rows
  section,      \* Section rows
  subject,      \* Subject rows: classes are its classIds
  year,         \* AcademicYear rows: children are the submissions its terms and holidays are of
  branch,       \* Branch rows: children are the submissions its buildings and departments are of
  profile,      \* number of School rows
  student,      \* Student rows
  history,      \* Enrollment rows of a student, oldest first
  link,         \* ParentStudentLink rows, as pairs
  parent,       \* Parent rows
  teacher,      \* Teacher rows
  assignment    \* TeacherAssignment rows

structureTables == <<schoolClass, section, subject, student, history>>
listTables == <<year, branch, profile>>
peopleTables == <<link, parent, teacher, assignment>>
schoolTables == <<structureTables, listTables, peopleTables>>

PlacementDto == [class : Classes, section : Sections, year : Years]
SectionDto == [class : Classes]
SubjectDto == [classes : SUBSET Classes]
AcademicYearDto == [children : BOOLEAN]
BranchDto == [children : BOOLEAN]
AssignmentDto == [subject : Subjects, class : Classes, section : Sections]

NoPlacement == [class |-> None, section |-> None, year |-> None]
StudentRow == [status : RowStatus, placement : PlacementDto \cup {NoPlacement}]
SectionRow == [status : RowStatus, class : Classes \cup {None}]
SubjectRow == [status : RowStatus, classes : SUBSET Classes]
WithChildren == [status : RowStatus, children : SUBSET (1..MaxReplaced), writes : 0..MaxReplaced]
AssignmentRow == [status : RowStatus, teacher : Teachers \cup {None},
                  to : AssignmentDto \cup {None}]

Lists == /\ year \in [Years -> {[status |-> "none", children |-> {}, writes |-> 0]}]
         /\ branch \in [Branches -> {[status |-> "none", children |-> {}, writes |-> 0]}]
         /\ profile = 0

EmptySchool ==
  /\ Lists
  /\ schoolClass = [k \in Classes |-> "none"]
  /\ section = [x \in Sections |-> [status |-> "none", class |-> None]]
  /\ subject = [j \in Subjects |-> [status |-> "none", classes |-> {}]]
  /\ student = [s \in Students |-> [status |-> "none", placement |-> NoPlacement]]
  /\ history = [s \in Students |-> <<>>]
  /\ link = {}
  /\ parent = [p \in Parents |-> "none"]
  /\ teacher = [t \in Teachers |-> "none"]
  /\ assignment = [g \in Assignments |-> [status |-> "none", teacher |-> None, to |-> None]]

\* A school at work: every section belongs to a class, and every student to a section.
RunningSchool ==
  /\ year = [y \in Years |-> [status |-> "kept", children |-> {}, writes |-> 1]]
  /\ branch = [b \in Branches |-> [status |-> "kept", children |-> {}, writes |-> 1]]
  /\ profile = 1
  /\ schoolClass = [k \in Classes |-> "kept"]
  /\ section \in [Sections -> [status : {"kept"}, class : Classes]]
  /\ subject = [j \in Subjects |-> [status |-> "kept", classes |-> Classes]]
  /\ student \in [Students -> [status : {"kept"}, placement :
       {pl \in PlacementDto : section[pl.section].class = pl.class}]]
  /\ history = [s \in Students |-> <<student[s].placement>>]
  /\ link = {}
  /\ parent = [p \in Parents |-> "kept"]
  /\ teacher = [t \in Teachers |-> "kept"]
  /\ assignment \in [Assignments -> [status : {"kept"}, teacher : Teachers, to :
       {to \in AssignmentDto : section[to.section].class = to.class}]]

Placed(s) == student[s].status = "kept"
InSection(class, x) ==
  {s \in Students : Placed(s) /\ student[s].placement.class = class
                              /\ student[s].placement.section = x}

SectionOf(x, class) == section[x].status = "kept" /\ section[x].class = class

-----------------------------------------------------------------------------
(* ClassesService, SectionsService and SubjectsService                      *)

CreateClass(k) ==
  /\ AtOnce /\ schoolClass[k] = "none"
  /\ schoolClass' = [schoolClass EXCEPT ![k] = "kept"]
  /\ UNCHANGED <<section, subject, student, history, listTables, peopleTables>>

\* The students' foreign keys restrict the delete and its cascade to the sections.
RemoveClass(k) ==
  /\ AtOnce /\ schoolClass[k] = "kept"
  /\ \A s \in Students : Placed(s) => /\ student[s].placement.class # k
                                      /\ section[student[s].placement.section].class # k
  /\ schoolClass' = [schoolClass EXCEPT ![k] = "deleted"]
  /\ section' = [x \in Sections |-> IF section[x].class = k
                                    THEN [section[x] EXCEPT !.status = "deleted"] ELSE section[x]]
  /\ UNCHANGED <<subject, student, history, listTables, peopleTables>>

CreateSection(x) ==
  /\ AtOnce /\ section[x].status = "none"
  /\ \E dto \in SectionDto : /\ schoolClass[dto.class] = "kept"
                             /\ section' = [section EXCEPT ![x] =
                                  [status |-> "kept", class |-> dto.class]]
  /\ UNCHANGED <<schoolClass, subject, student, history, listTables, peopleTables>>

\* The section may change its class; its students keep theirs.
UpdateSection(x) ==
  /\ AtOnce /\ section[x].status = "kept"
  /\ \E dto \in SectionDto : /\ schoolClass[dto.class] = "kept"
                             /\ section' = [section EXCEPT ![x].class = dto.class]
  /\ UNCHANGED <<schoolClass, subject, student, history, listTables, peopleTables>>

RemoveSection(x) ==
  /\ AtOnce /\ section[x].status = "kept"
  /\ \A s \in Students : Placed(s) => student[s].placement.section # x
  /\ section' = [section EXCEPT ![x].status = "deleted"]
  /\ UNCHANGED <<schoolClass, subject, student, history, listTables, peopleTables>>

ClassesKept(dto) == \A k \in dto.classes : schoolClass[k] = "kept"

CreateSubject(j) ==
  /\ AtOnce /\ subject[j].status = "none"
  /\ \E dto \in SubjectDto : /\ ClassesKept(dto)
                             /\ subject' = [subject EXCEPT ![j] =
                                  [status |-> "kept", classes |-> dto.classes]]
  /\ UNCHANGED <<schoolClass, section, student, history, listTables, peopleTables>>

UpdateSubject(j) ==
  /\ AtOnce /\ subject[j].status = "kept"
  /\ \E dto \in SubjectDto : /\ ClassesKept(dto)
                             /\ subject' = [subject EXCEPT ![j].classes = dto.classes]
  /\ UNCHANGED <<schoolClass, section, student, history, listTables, peopleTables>>

RemoveSubject(j) ==
  /\ AtOnce /\ subject[j].status = "kept"
  /\ subject' = [subject EXCEPT ![j].status = "deleted"]
  /\ UNCHANGED <<schoolClass, section, student, history, listTables, peopleTables>>

SetupControllers ==
  \/ \E k \in Classes : CreateClass(k) \/ RemoveClass(k)
  \/ \E x \in Sections : CreateSection(x) \/ UpdateSection(x) \/ RemoveSection(x)

SubjectsController ==
  \E j \in Subjects : CreateSubject(j) \/ UpdateSubject(j) \/ RemoveSubject(j)

-----------------------------------------------------------------------------
(* AcademicYearsService, BranchesService and SchoolsService                 *)

Children(row, given) == IF given THEN {row.writes + 1} ELSE {}

CreateYear(y) ==
  /\ AtOnce /\ year[y].status = "none"
  /\ \E dto \in AcademicYearDto : year' = [year EXCEPT ![y] =
       [status |-> "kept", children |-> Children(year[y], dto.children), writes |-> 1]]
  /\ UNCHANGED <<branch, profile, structureTables, peopleTables>>

\* The transaction up to its deletes, and its rest.
UpdateYearDelete(r, y) ==
  /\ year[y].status = "kept" /\ year[y].writes < MaxReplaced
  /\ \E dto \in AcademicYearDto :
       Starts(r, [op |-> "UpdateYear", row |-> y, dto |-> dto, seen |-> year[y].children])
  /\ UNCHANGED schoolTables

UpdateYearCommit(r) ==
  /\ At(r, "UpdateYear")
  /\ year[req[r].row].status = "kept" /\ year[req[r].row].writes < MaxReplaced
  /\ year' = [year EXCEPT
       ![req[r].row].children = Replaced(@, req[r].seen,
                                         Children(year[req[r].row], req[r].dto.children)),
       ![req[r].row].writes = @ + 1]
  /\ Ends(r) /\ UNCHANGED <<branch, profile, structureTables, peopleTables>>

RemoveYear(y) ==
  /\ AtOnce /\ year[y].status = "kept"
  /\ \A s \in Students : Placed(s) => student[s].placement.year # y
  /\ year' = [year EXCEPT ![y].status = "deleted", ![y].children = {}]
  /\ UNCHANGED <<branch, profile, structureTables, peopleTables>>

CreateBranch(b) ==
  /\ AtOnce /\ branch[b].status = "none"
  /\ \E dto \in BranchDto : branch' = [branch EXCEPT ![b] =
       [status |-> "kept", children |-> Children(branch[b], dto.children), writes |-> 1]]
  /\ UNCHANGED <<year, profile, structureTables, peopleTables>>

UpdateBranchDelete(r, b) ==
  /\ branch[b].status = "kept" /\ branch[b].writes < MaxReplaced
  /\ \E dto \in BranchDto :
       Starts(r, [op |-> "UpdateBranch", row |-> b, dto |-> dto, seen |-> branch[b].children])
  /\ UNCHANGED schoolTables

UpdateBranchCommit(r) ==
  /\ At(r, "UpdateBranch")
  /\ branch[req[r].row].status = "kept" /\ branch[req[r].row].writes < MaxReplaced
  /\ branch' = [branch EXCEPT
       ![req[r].row].children = Replaced(@, req[r].seen,
                                         Children(branch[req[r].row], req[r].dto.children)),
       ![req[r].row].writes = @ + 1]
  /\ Ends(r) /\ UNCHANGED <<year, profile, structureTables, peopleTables>>

RemoveBranch(b) ==
  /\ AtOnce /\ branch[b].status = "kept"
  /\ branch' = [branch EXCEPT ![b].status = "deleted", ![b].children = {}]
  /\ UNCHANGED <<year, profile, structureTables, peopleTables>>

\* The first request that finds no profile creates one.
ProfileRead(r) ==
  /\ profile = 0 /\ Starts(r, [op |-> "CreateProfile"])
  /\ UNCHANGED schoolTables

\* The unique tenant refuses a second one, and the request reads the first.
ProfileCreate(r) ==
  /\ At(r, "CreateProfile") /\ profile' = 1
  /\ Ends(r) /\ UNCHANGED <<year, branch, structureTables, peopleTables>>

SchoolListsControllers ==
  \/ \E y \in Years : CreateYear(y) \/ RemoveYear(y)
  \/ \E b \in Branches : CreateBranch(b) \/ RemoveBranch(b)
  \/ \E r \in Requests :
       \/ UpdateYearCommit(r) \/ UpdateBranchCommit(r) \/ ProfileRead(r) \/ ProfileCreate(r)
       \/ \E y \in Years : UpdateYearDelete(r, y)
       \/ \E b \in Branches : UpdateBranchDelete(r, b)

-----------------------------------------------------------------------------
(* StudentsService                                                          *)

PlacementValid(pl) ==
  /\ schoolClass[pl.class] = "kept" /\ SectionOf(pl.section, pl.class)
  /\ year[pl.year].status = "kept"

\* The foreign keys at the write: the section is there, in whichever class.
PlacementKept(pl) ==
  /\ schoolClass[pl.class] = "kept" /\ section[pl.section].status = "kept"
  /\ year[pl.year].status = "kept"

CreateStudent(s) ==
  /\ AtOnce /\ student[s].status = "none"
  /\ \E pl \in PlacementDto :
       /\ PlacementValid(pl)
       /\ student' = [student EXCEPT ![s] = [status |-> "kept", placement |-> pl]]
       /\ history' = [history EXCEPT ![s] = <<pl>>]
  /\ UNCHANGED <<schoolClass, section, subject, listTables, peopleTables>>

UpdateStudentRead(r, s) ==
  /\ Placed(s)
  /\ \E pl \in PlacementDto :
       /\ PlacementValid(pl)
       /\ Starts(r, [op |-> "UpdateStudent", row |-> s, placement |-> pl,
                     changed |-> pl # student[s].placement])
  /\ UNCHANGED schoolTables

\* Mutant: every edit appends to the history.
UpdateStudentAppend(r) ==
  /\ At(r, "UpdateStudent") /\ Placed(req[r].row) /\ PlacementKept(req[r].placement)
  /\ Len(history[req[r].row]) < MaxPlacements
  /\ student' = [student EXCEPT ![req[r].row].placement = req[r].placement]
  /\ history' = [history EXCEPT ![req[r].row] = Append(@, req[r].placement)]
  /\ Ends(r) /\ UNCHANGED <<schoolClass, section, subject, listTables, peopleTables>>

\* The row and, if the placement read was another, its Enrollment, in one write.
UpdateStudentWrite(r) ==
  /\ At(r, "UpdateStudent") /\ Placed(req[r].row) /\ PlacementKept(req[r].placement)
  /\ Len(history[req[r].row]) < MaxPlacements
  /\ student' = [student EXCEPT ![req[r].row].placement = req[r].placement]
  /\ history' = [history EXCEPT ![req[r].row] =
                   IF req[r].changed THEN Append(@, req[r].placement) ELSE @]
  /\ Ends(r) /\ UNCHANGED <<schoolClass, section, subject, listTables, peopleTables>>

\* With the history and the links to parents.
RemoveStudent(s) ==
  /\ AtOnce /\ Placed(s)
  /\ student' = [student EXCEPT ![s].status = "deleted"]
  /\ history' = [history EXCEPT ![s] = <<>>]
  /\ link' = {l \in link : l[2] # s}
  /\ UNCHANGED <<schoolClass, section, subject, listTables, parent, teacher, assignment>>

StudentMoves ==
  \E r \in Requests : UpdateStudentWrite(r) \/ \E s \in Students : UpdateStudentRead(r, s)

StudentsController == StudentMoves \/ \E s \in Students : CreateStudent(s) \/ RemoveStudent(s)

-----------------------------------------------------------------------------
(* ParentsService and TeachersService                                       *)

CreateParent(p) ==
  /\ AtOnce /\ parent[p] = "none"
  /\ parent' = [parent EXCEPT ![p] = "kept"]
  /\ UNCHANGED <<structureTables, listTables, link, teacher, assignment>>

RemoveParent(p) ==
  /\ AtOnce /\ parent[p] = "kept"
  /\ parent' = [parent EXCEPT ![p] = "deleted"]
  /\ link' = {l \in link : l[1] # p}
  /\ UNCHANGED <<structureTables, listTables, teacher, assignment>>

LinkChild(p, s) ==
  /\ AtOnce /\ parent[p] = "kept" /\ Placed(s) /\ <<p, s>> \notin link
  /\ link' = link \cup {<<p, s>>}
  /\ UNCHANGED <<structureTables, listTables, parent, teacher, assignment>>

UnlinkChild(p, s) ==
  /\ AtOnce /\ <<p, s>> \in link
  /\ link' = link \ {<<p, s>>}
  /\ UNCHANGED <<structureTables, listTables, parent, teacher, assignment>>

ParentsController ==
  \E p \in Parents : CreateParent(p) \/ RemoveParent(p)
                       \/ \E s \in Students : LinkChild(p, s) \/ UnlinkChild(p, s)

CreateTeacher(t) ==
  /\ AtOnce /\ teacher[t] = "none"
  /\ teacher' = [teacher EXCEPT ![t] = "kept"]
  /\ UNCHANGED <<structureTables, listTables, link, parent, assignment>>

RemoveTeacher(t) ==
  /\ AtOnce /\ teacher[t] = "kept"
  /\ teacher' = [teacher EXCEPT ![t] = "deleted"]
  /\ assignment' = [g \in Assignments |-> IF assignment[g].teacher = t
       THEN [assignment[g] EXCEPT !.status = "deleted"] ELSE assignment[g]]
  /\ UNCHANGED <<structureTables, listTables, link, parent>>

\* The same assignment may be made twice.
Assign(t, g) ==
  /\ AtOnce /\ teacher[t] = "kept" /\ assignment[g].status = "none"
  /\ \E dto \in AssignmentDto :
       /\ subject[dto.subject].status = "kept" /\ schoolClass[dto.class] = "kept"
       /\ SectionOf(dto.section, dto.class)
       /\ assignment' = [assignment EXCEPT ![g] =
            [status |-> "kept", teacher |-> t, to |-> dto]]
  /\ UNCHANGED <<structureTables, listTables, link, parent, teacher>>

Unassign(g) ==
  /\ AtOnce /\ assignment[g].status = "kept"
  /\ assignment' = [assignment EXCEPT ![g].status = "deleted"]
  /\ UNCHANGED <<structureTables, listTables, link, parent, teacher>>

TeachersController ==
  \/ \E t \in Teachers : CreateTeacher(t) \/ RemoveTeacher(t) \/ \E g \in Assignments : Assign(t, g)
  \/ \E g \in Assignments : Unassign(g)

SchoolDies(r) == Dies(r) /\ UNCHANGED schoolTables

\* Structure, lists and people grow apart from each other.
SchoolStructure ==
  SetupControllers \/ StudentsController \/ \E r \in Requests : SchoolDies(r)
SchoolLists == SchoolListsControllers \/ \E r \in Requests : SchoolDies(r)
SchoolPeople ==
  \/ SubjectsController \/ ParentsController \/ TeachersController
  \/ \E s \in Students : RemoveStudent(s)

-----------------------------------------------------------------------------
(* Properties                                                               *)

SchoolTypeOK ==
  /\ schoolClass \in [Classes -> RowStatus]
  /\ section \in [Sections -> SectionRow]
  /\ subject \in [Subjects -> SubjectRow]
  /\ year \in [Years -> WithChildren]
  /\ branch \in [Branches -> WithChildren]
  /\ profile \in {0, 1}
  /\ student \in [Students -> StudentRow]
  /\ \A s \in Students : history[s] \in Seq(PlacementDto) /\ Len(history[s]) <= MaxPlacements
  /\ link \subseteq Parents \X Students
  /\ parent \in [Parents -> RowStatus]
  /\ teacher \in [Teachers -> RowStatus]
  /\ assignment \in [Assignments -> AssignmentRow]

\* The history of a student is the placements one after the other, up to the
\* present one: one request at a time, no edit adds a placement that is none
\* and no move is missing.
HistoryEndsHere ==
  overlap \/ \A s \in Students : Placed(s) =>
    /\ Last(history[s]) = student[s].placement
    /\ \A i \in 1..(Len(history[s]) - 1) : history[s][i] # history[s][i + 1]
=============================================================================
