----------------------------- MODULE Timetable -----------------------------
(***************************************************************************)
(* The weekly timetable: periods entered by hand, periods generated for a  *)
(* section from the assignments of its teachers, and substitutions.        *)
(*                                                                         *)
(* Entries hold plain ids.  Entered periods are checked for clashes by the *)
(* client alone; a generation avoids the periods that its teachers have    *)
(* elsewhere, as it read them before its transaction.                      *)
(***************************************************************************)
EXTENDS School

CONSTANTS
  Substitutions,  \* ids of rows
  Slots,          \* periods of the week, which the generation walks in order
  MaxBatches      \* bound: entries written by hand and generations

ASSUME TimetableAssumption == IsFiniteSet(Subjects) /\ Slots \in Nat /\ MaxBatches \in Nat

VARIABLES
  timetable,     \* TimetableEntry rows
  batches,       \* writes so far, which tell the rows apart
  substitution   \* Substitution rows

timetableTables == <<timetable, batches, substitution>>

TimetableEntryDto == [class : Classes, section : Sections, subject : Subjects,
                      teacher : Teachers, slot : 1..Slots]
GenerateDto == [class : Classes, section : Sections]

TimetableEntry == [class : Classes, section : Sections, subject : Subjects,
                   teacher : Teachers, slot : 1..Slots, batch : 1..MaxBatches]

TimetableInit ==
  /\ timetable = {} /\ batches = 0
  /\ substitution = [u \in Substitutions |-> "none"]

Entry(dto, slot, subj, t, n) ==
  [class |-> dto.class, section |-> dto.section, slot |-> slot, subject |-> subj,
   teacher |-> t, batch |-> n]

EntriesOf(dto, rows) == {e \in rows : e.class = dto.class /\ e.section = dto.section}

\* Rows that a transaction has deleted stay locked until it ends.
Unlocked(e) == \A r \in Requests : At(r, "GenerateInsert") => e \notin req[r].seen

EntryTargetValid(dto) ==
  /\ schoolClass[dto.class] = "kept" /\ SectionOf(dto.section, dto.class)
  /\ subject[dto.subject].status = "kept" /\ teacher[dto.teacher] = "kept"

-----------------------------------------------------------------------------
(* TimetableService                                                         *)

CreateEntry ==
  /\ AtOnce /\ batches < MaxBatches
  /\ \E dto \in TimetableEntryDto :
       /\ EntryTargetValid(dto)
       /\ timetable' = timetable \cup {Entry(dto, dto.slot, dto.subject, dto.teacher, batches + 1)}
  /\ batches' = batches + 1 /\ UNCHANGED <<substitution, schoolTables>>

UpdateEntry(e) ==
  /\ AtOnce /\ Unlocked(e)
  /\ \E dto \in TimetableEntryDto :
       /\ EntryTargetValid(dto)
       /\ timetable' = (timetable \ {e})
            \cup {Entry(dto, dto.slot, dto.subject, dto.teacher, e.batch)}
  /\ UNCHANGED <<batches, substitution, schoolTables>>

RemoveEntry(e) ==
  /\ AtOnce /\ timetable' = timetable \ {e}
  /\ UNCHANGED <<batches, substitution, schoolTables>>

GenerateRead(r) ==
  /\ batches < MaxBatches
  /\ \E dto \in GenerateDto :
       /\ SectionOf(dto.section, dto.class)
       /\ Starts(r, [op |-> "GenerateAssignments", dto |-> dto, subjects |->
            {j \in Subjects : subject[j].status = "kept" /\ dto.class \in subject[j].classes}])
  /\ UNCHANGED <<timetableTables, schoolTables>>

AssignedTo(t, subj, dto) ==
  \E g \in Assignments : assignment[g] =
    [status |-> "kept", teacher |-> t,
     to |-> [subject |-> subj, class |-> dto.class, section |-> dto.section]]

\* The subjects come in no order, and the last assignment to a subject counts.
GenerateAssignments(r) ==
  /\ At(r, "GenerateAssignments")
  /\ LET schedulable == {j \in req[r].subjects : \E t \in Teachers : AssignedTo(t, j, req[r].dto)}
     IN /\ schedulable # {}
        /\ \E order \in SetToSeqs(schedulable), teacherBySubject \in [schedulable -> Teachers] :
             /\ \A j \in schedulable : AssignedTo(teacherBySubject[j], j, req[r].dto)
             /\ Goes(r, [op |-> "GenerateOthers", dto |-> req[r].dto, order |-> order,
                         teacherBySubject |-> teacherBySubject])
  /\ UNCHANGED <<timetableTables, schoolTables>>

\* The subjects take turns in every slot, also in those that stay empty.
Turn(slot, order) == order[((slot - 1) % Len(order)) + 1]

\* Mutant: teachers are taken to be free.
FillAll(plan, busy) ==
  {<<slot, Turn(slot, plan.order), plan.teacherBySubject[Turn(slot, plan.order)]>> :
     slot \in 1..Slots}

Fill(plan, busy) ==
  {p \in {<<slot, Turn(slot, plan.order), plan.teacherBySubject[Turn(slot, plan.order)]>> :
            slot \in 1..Slots} : <<p[1], p[3]>> \notin busy}

\* Busy is who teaches anywhere but in this section of this class.
GenerateOthers(r) ==
  /\ At(r, "GenerateOthers")
  /\ Goes(r, [op |-> "GenerateDelete", dto |-> req[r].dto, fill |->
       Fill(req[r], {<<e.slot, e.teacher>> : e \in timetable \ EntriesOf(req[r].dto, timetable)})])
  /\ UNCHANGED <<timetableTables, schoolTables>>

\* The transaction up to its delete, and its rest.
GenerateDelete(r) ==
  /\ At(r, "GenerateDelete")
  /\ Goes(r, [op |-> "GenerateInsert", dto |-> req[r].dto, fill |-> req[r].fill,
              seen |-> EntriesOf(req[r].dto, timetable)])
  /\ UNCHANGED <<timetableTables, schoolTables>>

GenerateInsert(r) ==
  /\ At(r, "GenerateInsert") /\ batches < MaxBatches
  /\ timetable' = Replaced(timetable, req[r].seen,
       {Entry(req[r].dto, p[1], p[2], p[3], batches + 1) : p \in req[r].fill})
  /\ batches' = batches + 1 /\ Ends(r) /\ UNCHANGED <<substitution, schoolTables>>

\* Nothing of it is checked.
CreateSubstitution(u) ==
  /\ AtOnce /\ substitution[u] = "none"
  /\ substitution' = [substitution EXCEPT ![u] = "kept"]
  /\ UNCHANGED <<timetable, batches, schoolTables>>

RemoveSubstitution(u) ==
  /\ AtOnce /\ substitution[u] = "kept"
  /\ substitution' = [substitution EXCEPT ![u] = "deleted"]
  /\ UNCHANGED <<timetable, batches, schoolTables>>

TimetableDies(r) == Dies(r) /\ UNCHANGED <<timetableTables, schoolTables>>

TimetableEntries ==
  \/ CreateEntry
  \/ \E e \in timetable : UpdateEntry(e) \/ RemoveEntry(e)
  \/ \E r \in Requests : \/ GenerateRead(r) \/ GenerateAssignments(r) \/ GenerateOthers(r)
                         \/ GenerateDelete(r) \/ GenerateInsert(r) \/ TimetableDies(r)

SubstitutionsNext == \E u \in Substitutions : CreateSubstitution(u) \/ RemoveSubstitution(u)

-----------------------------------------------------------------------------
(* Properties                                                               *)

TimetableTypeOK ==
  /\ timetable \subseteq TimetableEntry
  /\ batches \in 0..MaxBatches
  /\ substitution \in [Substitutions -> RowStatus]

\* One request at a time, a generation replaces every period of its section, with
\* periods whose teacher was assigned the subject there and teaches nowhere else
\* at that time, whatever was entered by hand.
GeneratedClashFree ==
  [][\A r \in Requests : At(r, "GenerateInsert") /\ ~overlap =>
       LET rows == EntriesOf(req[r].dto, timetable')
       IN /\ rows = timetable' \ timetable
          /\ \A row \in rows :
               /\ AssignedTo(row.teacher, row.subject, req[r].dto)
               /\ \A other \in timetable' \ {row} :
                    other.slot = row.slot => other.teacher # row.teacher
                                             /\ other \notin rows]_timetable
=============================================================================
