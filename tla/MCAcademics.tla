---------------------------- MODULE MCAcademics ----------------------------
(* Instances of Academics for TLC.  A behaviour stays at the desk it starts *)
(* at, in a school with as many people as that desk needs.                  *)
EXTENDS Academics, TLC

VARIABLE desk

\* All students and all exams of before are in one section, and only the timetable has
\* teachers assigned to the other as well.
Home == CHOOSE x \in Sections : TRUE

MCInit ==
  /\ AcademicsInit /\ desk \in Desks
  /\ \A s \in Students : student[s].placement.section = Home
  /\ desk # "timetable" => \A g \in Assignments : assignment[g].to.section = Home
  /\ \A e \in Exams : Kept(e) => desk = "exams" /\ exam[e].section = Home

MCSpec == MCInit /\ [][AtDesk(desk) /\ UNCHANGED desk]_<<academicsVars, desk>>

Given(marks) == [obtained |-> marks, absent |-> FALSE]

\* Sheets of the whole section, where not all have the higher mark, and ones that
\* mark a student absent after all.
SomeSheets == {f \in [Students -> {Given(1), Given(2)}] : \E s \in Students : f[s] = Given(1)}
                \cup UNION {[{s} -> {[obtained |-> 2, absent |-> TRUE]}] : s \in Students}

Symmetry == Permutations(Students) \cup Permutations(Requests) \cup Permutations(Exams)
=============================================================================
