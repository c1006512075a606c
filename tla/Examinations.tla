---------------------------- MODULE Examinations ----------------------------
(***************************************************************************)
(* Exams, the marks entered for them, and the ranks and totals of report   *)
(* cards.                                                                  *)
(*                                                                         *)
(* Publication locks an exam: the lock is checked when the exam is read,   *)
(* several statements before the marks or the exam are written.            *)
(***************************************************************************)
EXTENDS School, Integers, FiniteSetsExt

CONSTANTS
  Exams,      \* ids of rows, all of one type
  MaxMarks,   \* full marks an exam may have
  Sheets,     \* submitted sheets: a record for each of some students
  MaxEntries  \* bound: writes of exams and of sheets

VARIABLES
  exam,    \* Exam rows
  mark,    \* ExamMark rows, by exam and student
  entries  \* writes so far

examTables == <<exam, mark, entries>>

ExamDto == [class : Classes, section : Sections, maxMarks : MaxMarks]
MarkRecord == [obtained : Nat \cup {None}, absent : BOOLEAN]
NoMark == [obtained |-> None, absent |-> FALSE]

ASSUME ExamsAssumption ==
  /\ IsFiniteSet(Exams) /\ IsFiniteSet(Students)
  /\ MaxEntries \in Nat /\ MaxMarks \subseteq Nat \ {0} /\ None \notin Nat
  /\ \A sheet \in Sheets : DOMAIN sheet \subseteq Students /\ sheet \in [DOMAIN sheet -> MarkRecord]

ExamRow == [status : {"none", "kept"}, published : BOOLEAN, class : Classes \cup {None},
            section : Sections \cup {None}, maxMarks : MaxMarks \cup {0}]

NoExam == [status |-> "none", published |-> FALSE, class |-> None, section |-> None,
           maxMarks |-> 0]

\* Some exams of the running school have been created before.
ExamsInit ==
  /\ exam \in [Exams -> {NoExam} \cup {x \in ExamRow :
       x.status = "kept" /\ ~x.published /\ x.maxMarks # 0 /\ x.section \in Sections
       /\ section[x.section].class = x.class}]
  /\ mark = [e \in Exams |-> [s \in Students |-> NoMark]]
  /\ entries = 0

Kept(e) == exam[e].status = "kept"

ExamTargetValid(dto) == SectionOf(dto.section, dto.class)

\* Unless the user may publish results, and so reopens the exam.
NotLocked(e, publisher) == exam[e].published => publisher

-----------------------------------------------------------------------------
(* ExamsController                                                          *)

CreateExam(e) ==
  /\ AtOnce /\ exam[e].status = "none" /\ entries < MaxEntries
  /\ \E dto \in ExamDto :
       /\ ExamTargetValid(dto)
       /\ exam' = [exam EXCEPT ![e] = [status |-> "kept", published |-> FALSE,
            class |-> dto.class, section |-> dto.section, maxMarks |-> dto.maxMarks]]
  /\ entries' = entries + 1 /\ UNCHANGED <<mark, schoolTables>>

UpdateExamRead(r, e) ==
  /\ Kept(e) /\ entries < MaxEntries
  /\ \E dto \in ExamDto, publisher \in BOOLEAN :
       /\ NotLocked(e, publisher) /\ ExamTargetValid(dto)
       /\ Starts(r, [op |-> "UpdateExam", row |-> e, reopens |-> exam[e].published, dto |-> dto])
  /\ UNCHANGED <<examTables, schoolTables>>

\* Marks that are there already are not looked at.
UpdateExamWrite(r) ==
  /\ At(r, "UpdateExam") /\ entries < MaxEntries
  /\ exam' = [exam EXCEPT ![req[r].row].class = req[r].dto.class,
                          ![req[r].row].section = req[r].dto.section,
                          ![req[r].row].maxMarks = req[r].dto.maxMarks]
  /\ entries' = entries + 1 /\ Ends(r) /\ UNCHANGED <<mark, schoolTables>>

SheetValid(e, sheet) ==
  \A s \in DOMAIN sheet : /\ ~sheet[s].absent => sheet[s].obtained # None
                          /\ sheet[s].obtained # None => sheet[s].obtained <= exam[e].maxMarks

\* Mutant: the lock is not looked at.
MarksReadUnlocked(r, e) ==
  /\ Kept(e) /\ entries < MaxEntries
  /\ \E sheet \in Sheets :
       /\ SheetValid(e, sheet)
       /\ Starts(r, [op |-> "MarksRoster", row |-> e, reopens |-> FALSE, sheet |-> sheet,
                     class |-> exam[e].class, section |-> exam[e].section])
  /\ UNCHANGED <<examTables, schoolTables>>

MarksRead(r, e) ==
  /\ Kept(e) /\ entries < MaxEntries
  /\ \E sheet \in Sheets, publisher \in BOOLEAN :
       /\ NotLocked(e, publisher) /\ SheetValid(e, sheet)
       /\ Starts(r, [op |-> "MarksRoster", row |-> e, reopens |-> exam[e].published, sheet |-> sheet,
                     class |-> exam[e].class, section |-> exam[e].section])
  /\ UNCHANGED <<examTables, schoolTables>>

MarksRoster(r) ==
  /\ At(r, "MarksRoster")
  /\ DOMAIN req[r].sheet \subseteq InSection(req[r].class, req[r].section)
  /\ Goes(r, [op |-> "Marks", row |-> req[r].row, reopens |-> req[r].reopens,
              sheet |-> req[r].sheet])
  /\ UNCHANGED <<examTables, schoolTables>>

\* One transaction of upserts.
MarksCommit(r) ==
  /\ At(r, "Marks") /\ entries < MaxEntries
  /\ \A s \in DOMAIN req[r].sheet : Placed(s)
  /\ mark' = [mark EXCEPT ![req[r].row] =
       [s \in Students |-> IF s \in DOMAIN req[r].sheet THEN req[r].sheet[s] ELSE @[s]]]
  /\ entries' = entries + 1 /\ Ends(r) /\ UNCHANGED <<exam, schoolTables>>

\* A second publication changes nothing.
Publish(e) ==
  /\ AtOnce /\ Kept(e)
  /\ exam' = [exam EXCEPT ![e].published = TRUE]
  /\ UNCHANGED <<mark, entries, schoolTables>>

\* A student's marks go with the student, published or not.
MarksGo(s) ==
  /\ mark' = [e \in Exams |-> [mark[e] EXCEPT ![s] = NoMark]]
  /\ UNCHANGED <<exam, entries>>

ExamDies(r) == Dies(r) /\ UNCHANGED <<examTables, schoolTables>>

ExamsController ==
  \/ \E e \in Exams : CreateExam(e) \/ Publish(e)
  \/ \E r \in Requests :
       \/ UpdateExamWrite(r) \/ MarksRoster(r) \/ MarksCommit(r) \/ ExamDies(r)
       \/ \E e \in Exams : UpdateExamRead(r, e) \/ MarksRead(r, e)

-----------------------------------------------------------------------------
(* Results and report cards, computed when they are read                    *)

\* Mutant: a student marked absent is given the marks of the sheet.
AttemptedUnlessEmpty(e, s) == mark[e][s].obtained # None

Attempted(e, s) == ~mark[e][s].absent /\ mark[e][s].obtained # None

\* The exams on the report card of exam e.
Series(e) == {x \in Exams : Kept(x) /\ exam[x].class = exam[e].class
                                    /\ exam[x].section = exam[e].section}

\* percentageAcross: what a student is ranked on, in marks of the series. The percentage
\* is over the full marks of the series, which are positive and the same for all.
RankedOn(e, s) ==
  IF \E x \in Series(e) : Attempted(x, s)
  THEN SumFunction([x \in Series(e) |-> IF Attempted(x, s) THEN mark[x][s].obtained ELSE 0])
  ELSE None

\* The total that the card shows.
CardTotal(e, s) ==
  SumFunction([x \in Series(e) |->
    IF mark[x][s].absent \/ mark[x][s].obtained = None THEN 0 ELSE mark[x][s].obtained])

\* The values that are not null, in falling order.
Ranked(value, who) ==
  CHOOSE q \in SetToSeqs({s \in who : value[s] # None}) :
    \A i, j \in DOMAIN q : i < j => value[q[i]] >= value[q[j]]

\* computeRanks: down the sorted list, the position, or the rank of an equal before.
Ranks(value, who) ==
  LET ranked == Ranked(value, who)
      rank[i \in DOMAIN ranked] ==
        IF i > 1 /\ value[ranked[i]] = value[ranked[i - 1]] THEN rank[i - 1] ELSE i
  IN [s \in who |-> IF value[s] = None THEN None
                    ELSE rank[CHOOSE i \in DOMAIN ranked : ranked[i] = s]]

CardRanks(e) ==
  LET classmates == InSection(exam[e].class, exam[e].section)
  IN Ranks([s \in classmates |-> RankedOn(e, s)], classmates)

-----------------------------------------------------------------------------
(* Properties                                                               *)

ExamsTypeOK ==
  /\ exam \in [Exams -> ExamRow]
  /\ mark \in [Exams -> [Students -> MarkRecord]]
  /\ entries \in 0..MaxEntries

Committing(e) == {r \in Requests : req[r].op \in {"Marks", "UpdateExam"} /\ req[r].row = e
                                     /\ req'[r].op = "idle"}

\* What parents were shown stands: one request at a time, the marks that students
\* have in a published exam, and the exam itself, change only by a user who may
\* publish results.
PublishedMarksStand ==
  [][\A e \in Exams : exam[e].published =>
       \/ overlap
       \/ exam'[e] = exam[e] /\ \A s \in Students : Placed(s)' => mark'[e][s] = mark[e][s]
       \/ \E r \in Committing(e) : req[r].reopens]_<<exam, mark>>

\* The rank on a report card agrees with the totals on the cards of the section:
\* it is one more than the number of classmates with a higher total, and who
\* attempted nothing has none.
RanksAreCompetition ==
  \A e \in Exams : Kept(e) =>
    CardRanks(e) = [s \in InSection(exam[e].class, exam[e].section) |->
      IF \A x \in Series(e) : ~Attempted(x, s) THEN None
      ELSE 1 + Cardinality({t \in InSection(exam[e].class, exam[e].section) :
                              CardTotal(e, t) > CardTotal(e, s)})]
=============================================================================
