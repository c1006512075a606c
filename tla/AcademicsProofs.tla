-------------------------- MODULE AcademicsProofs --------------------------
(***************************************************************************)
(* Theorems about Academics: the desks of the teaching in a school that    *)
(* runs, for any number of rows of their tables and of requests in flight. *)
(*                                                                         *)
(* AcademicsInv, at the end, joins the invariants of the desks.  A step is *)
(* one desk's: Steps says what becomes of the requests, Keeps that the     *)
(* statements of the other desks are left alone, so that their invariants  *)
(* stand with their tables.  What a step may never do is in StepStands,    *)
(* proved beside the invariant, one action at a time.                      *)
(***************************************************************************)
EXTENDS Academics, SumTheorems, FiniteSetTheorems, TLAPS

-----------------------------------------------------------------------------
(* Requests of all desks                                                    *)

OneAtATime ==
  ~overlap => \A r, q \in Requests : req[r].op # "idle" /\ req[q].op # "idle" => r = q

\* A step of one desk as the requests see it: none moves, or one that may move to
\* other locals of that desk, or to its end.
Steps(reqs) ==
  /\ UNCHANGED overlap
  /\ \/ UNCHANGED req
     \/ \E r \in Requests :
          /\ req' = [req EXCEPT ![r] = req'[r]] /\ req'[r] \in reqs \cup {Idle}
          /\ req[r] \in reqs \/ (MayStart /\ req[r].op = "idle")

LEMMA StartSteps ==
  ASSUME NEW Q, NEW r \in Requests, NEW q \in Q \cup {Idle}, DOMAIN req = Requests, Starts(r, q)
  PROVE  Steps(Q)
BY DEF Starts, Steps

LEMMA GoSteps ==
  ASSUME NEW Q, NEW r \in Requests, NEW q \in Q \cup {Idle}, DOMAIN req = Requests,
         req[r] \in Q, Goes(r, q)
  PROVE  Steps(Q)
BY DEF Goes, Steps

LEMMA EndSteps ==
  ASSUME NEW Q, NEW r \in Requests, DOMAIN req = Requests, req[r] \in Q, Ends(r)
  PROVE  Steps(Q)
BY DEF Ends, Steps

LEMMA AtOnceSteps == ASSUME NEW Q, AtOnce PROVE Steps(Q)
BY DEF AtOnce, Steps

LEMMA DiesSteps ==
  ASSUME DOMAIN req = Requests, NEW Q, NEW ops, \A r \in Requests : req[r].op \in ops => req[r] \in Q,
         Moves(ops), NEW r \in Requests, Dies(r)
  PROVE  Steps(Q)
<1>1. req'[r] = Idle /\ req[r].op # "idle" /\ Idle.op = "idle"
  BY DEF Dies, Ends, Idle
<1>2. req[r].op \in ops
  BY <1>1 DEF Moves
<1> QED BY <1>2, EndSteps DEF Dies

InFlightOK == DOMAIN req = Requests /\ overlap \in BOOLEAN /\ OneAtATime

LEMMA StepsInFlight ==
  ASSUME InFlightOK, NEW Q, \A q \in Q : q.op # "idle", Steps(Q)
  PROVE  InFlightOK'
<1>1. CASE UNCHANGED req
  BY <1>1 DEF InFlightOK, OneAtATime, Steps
<1>2. CASE \E r \in Requests :
             /\ req' = [req EXCEPT ![r] = req'[r]] /\ req'[r] \in Q \cup {Idle}
             /\ req[r] \in Q \/ (MayStart /\ req[r].op = "idle")
  <2>1. PICK r \in Requests :
             /\ req' = [req EXCEPT ![r] = req'[r]] /\ req'[r] \in Q \cup {Idle}
             /\ req[r] \in Q \/ (MayStart /\ req[r].op = "idle")
    BY <1>2
  <2>2. DOMAIN req' = Requests /\ \A x \in Requests \ {r} : req'[x] = req[x]
    BY <2>1 DEF InFlightOK
  <2>3. overlap' = overlap
    BY DEF Steps
  <2> QED BY <2>1, <2>2, <2>3 DEF InFlightOK, OneAtATime, MayStart
<1> QED BY <1>1, <1>2 DEF Steps

\* What the other desks leave of the requests at these statements.
Keeps(ops) ==
  /\ UNCHANGED overlap
  /\ \A r \in Requests : req[r].op \in ops \/ req'[r].op \in ops => req'[r] = req[r]

Known(ops, reqs) == \A r \in Requests : req[r].op \in ops => req[r] \in reqs

LEMMA AtOnceKeeps == ASSUME NEW ops, AtOnce PROVE Keeps(ops)
BY DEF AtOnce, Keeps

LEMMA StepsKeep ==
  ASSUME InFlightOK, NEW Q, NEW ops, "idle" \notin ops, \A q \in Q : q.op \notin ops, Steps(Q)
  PROVE  Keeps(ops)
<1>1. Idle.op = "idle"
  BY DEF Idle
<1>2. CASE UNCHANGED req
  BY <1>2 DEF Steps, Keeps
<1>3. CASE \E r \in Requests :
             /\ req' = [req EXCEPT ![r] = req'[r]] /\ req'[r] \in Q \cup {Idle}
             /\ req[r] \in Q \/ (MayStart /\ req[r].op = "idle")
  <2>1. PICK r \in Requests :
             /\ req' = [req EXCEPT ![r] = req'[r]] /\ req'[r] \in Q \cup {Idle}
             /\ req[r] \in Q \/ (MayStart /\ req[r].op = "idle")
    BY <1>3
  <2>2. \A x \in Requests \ {r} : req'[x] = req[x]
    BY <2>1 DEF InFlightOK
  <2>3. req[r].op \notin ops /\ req'[r].op \notin ops
    BY <1>1, <2>1
  <2> QED BY <2>2, <2>3 DEF Keeps, Steps
<1> QED BY <1>2, <1>3 DEF Steps

LEMMA StepsKnown ==
  ASSUME InFlightOK, NEW Q, NEW ops, "idle" \notin ops, Steps(Q), Known(ops, Q)
  PROVE  Known(ops, Q)'
<1>1. Idle.op = "idle"
  BY DEF Idle
<1>2. CASE UNCHANGED req
  BY <1>2 DEF Known
<1>3. CASE \E r \in Requests :
             /\ req' = [req EXCEPT ![r] = req'[r]] /\ req'[r] \in Q \cup {Idle}
             /\ req[r] \in Q \/ (MayStart /\ req[r].op = "idle")
  <2>1. PICK r \in Requests :
             /\ req' = [req EXCEPT ![r] = req'[r]] /\ req'[r] \in Q \cup {Idle}
             /\ req[r] \in Q \/ (MayStart /\ req[r].op = "idle")
    BY <1>3
  <2>2. \A x \in Requests \ {r} : req'[x] = req[x]
    BY <2>1 DEF InFlightOK
  <2>3. req'[r].op \in ops => req'[r] \in Q
    BY <1>1, <2>1
  <2> QED BY <2>2, <2>3 DEF Known
<1> QED BY <1>2, <1>3 DEF Steps

LEMMA KeepsKnown ==
  ASSUME NEW ops, NEW Q, Keeps(ops), Known(ops, Q)
  PROVE  Known(ops, Q)'
BY DEF Keeps, Known

-----------------------------------------------------------------------------
(* Exams                                                                    *)

ExamReqs ==
  [op : {"UpdateExam"}, row : Exams, reopens : BOOLEAN, dto : ExamDto]
  \cup [op : {"MarksRoster"}, row : Exams, reopens : BOOLEAN, sheet : Sheets,
        class : Classes \cup {None}, section : Sections \cup {None}]
  \cup [op : {"Marks"}, row : Exams, reopens : BOOLEAN, sheet : Sheets]

\* With one request at a time nobody publishes between the check and the write.
LockStands ==
  ~overlap => \A r \in Requests :
    req[r].op \in ExamOps => (exam[req[r].row].published => req[r].reopens)

\* Only a row can be published.
ExamInv ==
  /\ ExamsTypeOK /\ \A e \in Exams : exam[e].published => Kept(e)
  /\ Known(ExamOps, ExamReqs) /\ LockStands

\* What a step may do to published exams and their marks.
MarksStand ==
  \A e \in Exams : exam[e].published =>
    \/ overlap
    \/ exam'[e] = exam[e] /\ \A s \in Students : Placed(s)' => mark'[e][s] = mark[e][s]
    \/ \E r \in Committing(e) : req[r].reopens

LEMMA ExamReqOp == \A q \in ExamReqs : q.op \in ExamOps /\ q.op # "idle" /\ q.row \in Exams
BY DEF ExamReqs, ExamOps

LEMMA ExamsInitOK == ExamsInit /\ HandlersInit => ExamInv
<1> SUFFICES ASSUME ExamsInit, HandlersInit PROVE ExamInv
  OBVIOUS
<1>1. \A r \in Requests : req[r].op = "idle"
  BY DEF HandlersInit, Idle
<1>2. NoExam \in ExamRow /\ ~NoExam.published
  BY DEF NoExam, ExamRow
<1>3. NoMark \in MarkRecord
  BY DEF NoMark, MarkRecord
<1>4. ExamsTypeOK
  BY <1>2, <1>3, ExamsAssumption DEF ExamsInit, ExamsTypeOK
<1>5. \A e \in Exams : ~exam[e].published
  BY <1>2 DEF ExamsInit
<1> QED BY <1>1, <1>4, <1>5 DEF ExamInv, Known, LockStands, ExamOps

LEMMA ExamsElsewhere ==
  ASSUME ExamInv, UNCHANGED examTables, Keeps(ExamOps)
  PROVE  ExamInv' /\ MarksStand
<1>1. Known(ExamOps, ExamReqs)'
  BY KeepsKnown DEF ExamInv
<1>2. LockStands'
  BY DEF ExamInv, LockStands, Keeps, examTables
<1> QED BY <1>1, <1>2 DEF ExamInv, ExamsTypeOK, Kept, examTables, MarksStand

LEMMA ExamSteps ==
  ASSUME InFlightOK, Known(ExamOps, ExamReqs), ExamsTypeOK, ExamsController, Moves(ExamOps)
  PROVE  Steps(ExamReqs)
<1>1. CASE \E e \in Exams : CreateExam(e) \/ Publish(e)
  BY <1>1, AtOnceSteps DEF CreateExam, Publish
<1>2. ASSUME NEW r \in Requests, UpdateExamWrite(r) \/ MarksCommit(r) PROVE Steps(ExamReqs)
  <2>1. req[r].op \in ExamOps
    BY <1>2 DEF UpdateExamWrite, MarksCommit, At, ExamOps
  <2> QED BY <1>2, <2>1, EndSteps DEF UpdateExamWrite, MarksCommit, Known, InFlightOK
<1>3. ASSUME NEW r \in Requests, MarksRoster(r) PROVE Steps(ExamReqs)
  <2>1. req[r] \in ExamReqs /\ req[r].op = "MarksRoster"
    BY <1>3 DEF MarksRoster, At, ExamOps, Known
  <2>2. req[r].row \in Exams /\ req[r].reopens \in BOOLEAN /\ req[r].sheet \in Sheets
    BY <2>1 DEF ExamReqs
  <2>3. [op |-> "Marks", row |-> req[r].row, reopens |-> req[r].reopens,
         sheet |-> req[r].sheet] \in ExamReqs
    BY <2>2 DEF ExamReqs
  <2> QED BY <1>3, <2>1, <2>3, GoSteps DEF MarksRoster, InFlightOK
<1>4. ASSUME NEW r \in Requests, ExamDies(r) PROVE Steps(ExamReqs)
  BY <1>4, DiesSteps DEF ExamDies, InFlightOK, Known
<1>5. ASSUME NEW r \in Requests, NEW e \in Exams, UpdateExamRead(r, e) PROVE Steps(ExamReqs)
  <2>1. PICK dto \in ExamDto : Starts(r, [op |-> "UpdateExam", row |-> e,
                                          reopens |-> exam[e].published, dto |-> dto])
    BY <1>5 DEF UpdateExamRead
  <2>2. exam[e].published \in BOOLEAN
    BY DEF ExamsTypeOK, ExamRow
  <2>3. [op |-> "UpdateExam", row |-> e, reopens |-> exam[e].published, dto |-> dto] \in ExamReqs
    BY <2>2 DEF ExamReqs
  <2> QED BY <2>1, <2>3, StartSteps DEF InFlightOK
<1>6. ASSUME NEW r \in Requests, NEW e \in Exams, MarksRead(r, e) PROVE Steps(ExamReqs)
  <2>1. PICK sheet \in Sheets :
          Starts(r, [op |-> "MarksRoster", row |-> e, reopens |-> exam[e].published, sheet |-> sheet,
                     class |-> exam[e].class, section |-> exam[e].section])
    BY <1>6 DEF MarksRead
  <2>2. /\ exam[e].published \in BOOLEAN /\ exam[e].class \in Classes \cup {None}
        /\ exam[e].section \in Sections \cup {None}
    BY DEF ExamsTypeOK, ExamRow
  <2>3. [op |-> "MarksRoster", row |-> e, reopens |-> exam[e].published, sheet |-> sheet,
         class |-> exam[e].class, section |-> exam[e].section] \in ExamReqs
    BY <2>2 DEF ExamReqs
  <2> QED BY <2>1, <2>3, StartSteps DEF InFlightOK
<1> QED BY <1>1, <1>2, <1>3, <1>4, <1>5, <1>6 DEF ExamsController

\* Statements that only read, and requests that are cut short.
LEMMA ExamReadsKeep ==
  ASSUME ExamInv, InFlightOK, Known(ExamOps, ExamReqs)', UNCHANGED <<examTables, overlap>>,
         NEW r \in Requests, NEW q, req' = [req EXCEPT ![r] = q],
         ~overlap /\ q.op \in ExamOps => (exam[q.row].published => q.reopens)
  PROVE  ExamInv' /\ MarksStand
<1>1. req'[r] = q /\ \A x \in Requests \ {r} : req'[x] = req[x]
  BY DEF InFlightOK
<1>2. LockStands'
  BY <1>1 DEF ExamInv, LockStands, examTables
<1> QED BY <1>2 DEF ExamInv, ExamsTypeOK, Kept, MarksStand, examTables

LEMMA ExamStartsKeep ==
  ASSUME ExamInv, InFlightOK, Known(ExamOps, ExamReqs)',
         NEW r \in Requests, NEW e \in Exams, UpdateExamRead(r, e) \/ MarksRead(r, e)
  PROVE  ExamInv' /\ MarksStand
<1>1. UNCHANGED <<examTables, overlap>>
  BY DEF UpdateExamRead, MarksRead, Starts
<1>2. CASE UpdateExamRead(r, e)
  <2>1. PICK dto \in ExamDto : Starts(r, [op |-> "UpdateExam", row |-> e,
                                          reopens |-> exam[e].published, dto |-> dto])
    BY <1>2 DEF UpdateExamRead
  <2>2. PICK q : q = [op |-> "UpdateExam", row |-> e, reopens |-> exam[e].published, dto |-> dto]
    OBVIOUS
  <2>3. exam[q.row].published => q.reopens
    BY <2>2
  <2> QED BY <1>1, <2>1, <2>2, <2>3, ExamReadsKeep DEF Starts
<1>3. CASE MarksRead(r, e)
  <2>1. PICK sheet \in Sheets :
          Starts(r, [op |-> "MarksRoster", row |-> e, reopens |-> exam[e].published, sheet |-> sheet,
                     class |-> exam[e].class, section |-> exam[e].section])
    BY <1>3 DEF MarksRead
  <2>2. PICK q : q = [op |-> "MarksRoster", row |-> e, reopens |-> exam[e].published, sheet |-> sheet,
                      class |-> exam[e].class, section |-> exam[e].section]
    OBVIOUS
  <2>3. exam[q.row].published => q.reopens
    BY <2>2
  <2> QED BY <1>1, <2>1, <2>2, <2>3, ExamReadsKeep DEF Starts
<1> QED BY <1>2, <1>3

LEMMA ExamEndsKeep ==
  ASSUME ExamInv, InFlightOK, Known(ExamOps, ExamReqs)', NEW r \in Requests, MarksRoster(r) \/ ExamDies(r)
  PROVE  ExamInv' /\ MarksStand
<1>1. UNCHANGED <<examTables, overlap>>
  BY DEF MarksRoster, ExamDies, Dies, Ends, Goes
<1>2. CASE MarksRoster(r)
  <2>1. /\ req[r].op = "MarksRoster"
        /\ req' = [req EXCEPT ![r] = [op |-> "Marks", row |-> req[r].row,
                                      reopens |-> req[r].reopens, sheet |-> req[r].sheet]]
    BY <1>2 DEF MarksRoster, Goes, At
  <2>2. PICK q : q = [op |-> "Marks", row |-> req[r].row, reopens |-> req[r].reopens,
                      sheet |-> req[r].sheet]
    OBVIOUS
  <2>3. ~overlap => (exam[req[r].row].published => req[r].reopens)
    BY <2>1 DEF ExamInv, LockStands, ExamOps
  <2>4. ~overlap => (exam[q.row].published => q.reopens)
    BY <2>2, <2>3
  <2> QED BY <1>1, <2>1, <2>2, <2>4, ExamReadsKeep
<1>3. CASE ExamDies(r)
  <2>1. req' = [req EXCEPT ![r] = Idle] /\ Idle.op \notin ExamOps
    BY <1>3 DEF ExamDies, Dies, Ends, Idle, ExamOps
  <2> QED BY <1>1, <2>1, ExamReadsKeep
<1> QED BY <1>2, <1>3

\* The request that writes is the one that may reopen, or the exam is not published.
LEMMA ExamWritesKeep ==
  ASSUME ExamInv, InFlightOK, Known(ExamOps, ExamReqs)',
         NEW r \in Requests, UpdateExamWrite(r) \/ MarksCommit(r)
  PROVE  ExamInv' /\ MarksStand
<1>1. /\ req[r].op \in {"UpdateExam", "Marks"} /\ req[r] \in ExamReqs /\ req[r].row \in Exams
      /\ req[r].op \in ExamOps
  <2>1. req[r].op \in {"UpdateExam", "Marks"} /\ req[r].op \in ExamOps
    BY DEF UpdateExamWrite, MarksCommit, At, ExamOps
  <2> QED BY <2>1, ExamReqOp DEF ExamInv, Known
<1>2. PICK e \in Exams : e = req[r].row
  BY <1>1
<1>3. /\ req'[r].op = "idle" /\ \A x \in Requests \ {r} : req'[x] = req[x]
      /\ UNCHANGED overlap
  BY DEF UpdateExamWrite, MarksCommit, Ends, InFlightOK, Idle
<1>4. entries' \in 0..MaxEntries
  BY ExamsAssumption DEF UpdateExamWrite, MarksCommit, ExamInv, ExamsTypeOK
<1>5. /\ exam' \in [Exams -> ExamRow] /\ mark' \in [Exams -> [Students -> MarkRecord]]
      /\ \A x \in Exams \ {e} : exam'[x] = exam[x] /\ mark'[x] = mark[x]
      /\ \A x \in Exams : exam'[x].published = exam[x].published /\ exam'[x].status = exam[x].status
  <2>1. CASE MarksCommit(r)
    <3>1. PICK sheet \in Sheets : sheet = req[r].sheet
      BY <1>1, <2>1 DEF MarksCommit, At, ExamReqs
    <3>2. PICK new : new = [s \in Students |-> IF s \in DOMAIN sheet THEN sheet[s] ELSE mark[e][s]]
      OBVIOUS
    <3>3. new \in [Students -> MarkRecord]
      BY <3>2, ExamsAssumption DEF ExamInv, ExamsTypeOK
    <3>4. mark' = [mark EXCEPT ![e] = new] /\ exam' = exam
      BY <1>2, <2>1, <3>1, <3>2 DEF MarksCommit, ExamInv, ExamsTypeOK
    <3> QED BY <3>3, <3>4 DEF ExamInv, ExamsTypeOK
  <2>2. CASE UpdateExamWrite(r)
    <3>1. PICK dto \in ExamDto : dto = req[r].dto
      BY <1>1, <2>2 DEF UpdateExamWrite, At, ExamReqs
    <3>2. PICK row \in ExamRow : row = exam[e]
      BY DEF ExamInv, ExamsTypeOK
    <3>3. PICK new : new = [row EXCEPT !.class = dto.class, !.section = dto.section,
                                       !.maxMarks = dto.maxMarks]
      OBVIOUS
    <3>4. new \in ExamRow /\ new.published = row.published /\ new.status = row.status
      BY <3>3 DEF ExamRow, ExamDto
    <3>5. exam' = [exam EXCEPT ![e] = new] /\ mark' = mark
      BY <1>2, <2>2, <3>1, <3>2, <3>3 DEF UpdateExamWrite, ExamInv, ExamsTypeOK
    <3> QED BY <3>2, <3>4, <3>5 DEF ExamInv, ExamsTypeOK
  <2> QED BY <2>1, <2>2
<1>6. LockStands'
  <2>1. \A x \in Requests \ {r} : req[x].op \in ExamOps => req[x].row \in Exams
    BY ExamReqOp DEF ExamInv, Known
  <2>2. req'[r].op \notin ExamOps
    BY <1>3 DEF ExamOps
  <2> QED BY <1>3, <1>5, <2>1, <2>2 DEF ExamInv, LockStands
<1>7. MarksStand
  <2> SUFFICES ASSUME NEW x \in Exams, exam[x].published, ~overlap,
                      ~(mark'[x] = mark[x] /\ exam'[x] = exam[x])
               PROVE  \E z \in Committing(x) : req[z].reopens
    BY DEF MarksStand
  <2>1. x = e
    BY <1>5
  <2>2. r \in Committing(x)
    BY <1>1, <1>2, <1>3, <2>1 DEF Committing
  <2>3. req[r].reopens
    BY <1>1, <1>2, <2>1 DEF ExamInv, LockStands
  <2> QED BY <2>2, <2>3
<1> QED BY <1>4, <1>5, <1>6, <1>7 DEF ExamInv, ExamsTypeOK, Kept

\* Exams are created and published where, one at a time, no request is under way.
LEMMA ExamAtOnceKeeps ==
  ASSUME ExamInv, InFlightOK, Known(ExamOps, ExamReqs)', NEW e \in Exams, CreateExam(e) \/ Publish(e)
  PROVE  ExamInv' /\ MarksStand
<1>1. UNCHANGED <<mark, req, overlap>> /\ (~overlap => \A r \in Requests : req[r].op = "idle")
  BY DEF CreateExam, Publish, AtOnce, MayStart
<1>2. LockStands'
  BY <1>1 DEF LockStands, ExamOps
<1>3. entries' \in 0..MaxEntries
  BY ExamsAssumption DEF CreateExam, Publish, ExamInv, ExamsTypeOK
<1>4. CASE CreateExam(e)
  <2>1. PICK dto \in ExamDto : exam' = [exam EXCEPT ![e] =
          [status |-> "kept", published |-> FALSE, class |-> dto.class, section |-> dto.section,
           maxMarks |-> dto.maxMarks]]
    BY <1>4 DEF CreateExam
  <2>2. PICK new : new = [status |-> "kept", published |-> FALSE, class |-> dto.class,
                          section |-> dto.section, maxMarks |-> dto.maxMarks]
    OBVIOUS
  <2>3. new \in ExamRow /\ ~new.published
    BY <2>2 DEF ExamRow, ExamDto
  <2>4. exam' \in [Exams -> ExamRow] /\ \A x \in Exams : exam'[x].published => Kept(x)'
    BY <2>1, <2>2, <2>3 DEF ExamInv, ExamsTypeOK, Kept
  <2>5. \A x \in Exams : exam[x].published => exam'[x] = exam[x]
    BY <1>4 DEF CreateExam, ExamInv, ExamsTypeOK, Kept
  <2> QED BY <1>1, <1>2, <1>3, <2>4, <2>5 DEF ExamInv, ExamsTypeOK, MarksStand
<1>5. CASE Publish(e)
  <2>1. PICK row \in ExamRow : row = exam[e]
    BY DEF ExamInv, ExamsTypeOK
  <2>2. PICK new : new = [row EXCEPT !.published = TRUE]
    OBVIOUS
  <2>3. new \in ExamRow /\ new.status = row.status /\ (row.published => new = row)
    BY <2>2 DEF ExamRow
  <2>4. exam' = [exam EXCEPT ![e] = new]
    BY <1>5, <2>1, <2>2 DEF Publish
  <2>5. exam' \in [Exams -> ExamRow] /\ \A x \in Exams : exam'[x].published => Kept(x)'
    BY <1>5, <2>1, <2>3, <2>4 DEF ExamInv, ExamsTypeOK, Kept, Publish
  <2>6. \A x \in Exams : exam[x].published => exam'[x] = exam[x]
    BY <2>1, <2>3, <2>4 DEF ExamInv, ExamsTypeOK
  <2> QED BY <1>1, <1>2, <1>3, <2>5, <2>6 DEF ExamInv, ExamsTypeOK, MarksStand
<1> QED BY <1>4, <1>5

LEMMA ExamsKeep ==
  ASSUME ExamInv, InFlightOK, ExamsController, Moves(ExamOps)
  PROVE  ExamInv' /\ MarksStand /\ Steps(ExamReqs)
<1>1. Steps(ExamReqs)
  BY ExamSteps DEF ExamInv
<1>2. "idle" \notin ExamOps
  BY DEF ExamOps
<1>3. Known(ExamOps, ExamReqs)'
  BY <1>1, <1>2, StepsKnown DEF ExamInv
<1> QED BY <1>1, <1>3, ExamStartsKeep, ExamEndsKeep, ExamWritesKeep, ExamAtOnceKeeps DEF ExamsController

\* The marks of whoever leaves are no longer shown to anyone.
LEMMA ExamsLoseStudent ==
  ASSUME ExamInv, SchoolTypeOK, NEW s \in Students, RemoveStudent(s), MarksGo(s)
  PROVE  ExamInv' /\ MarksStand
<1>1. AtOnce /\ UNCHANGED <<exam, entries, req, overlap>>
  BY DEF RemoveStudent, MarksGo, AtOnce
<1>2. mark' \in [Exams -> [Students -> MarkRecord]]
  <2>1. NoMark \in MarkRecord
    BY DEF NoMark, MarkRecord
  <2> QED BY <2>1 DEF MarksGo, ExamInv, ExamsTypeOK
<1>3. \A e \in Exams, x \in Students : x # s => mark'[e][x] = mark[e][x]
  BY DEF MarksGo, ExamInv, ExamsTypeOK
<1>4. ~Placed(s)'
  BY DEF RemoveStudent, Placed, SchoolTypeOK, StudentRow
<1>5. ExamInv'
  BY <1>1, <1>2 DEF ExamInv, ExamsTypeOK, Known, LockStands, Kept
<1> QED BY <1>1, <1>3, <1>4, <1>5 DEF MarksStand

-----------------------------------------------------------------------------
(* The timetable                                                            *)

Periods == (1..Slots) \X Subjects \X Teachers

TimetableReqs ==
  [op : {"GenerateAssignments"}, dto : GenerateDto, subjects : SUBSET Subjects]
  \cup {q \in [op : {"GenerateOthers"}, dto : GenerateDto, order : Seq(Subjects),
               teacherBySubject : UNION {[taught -> Teachers] : taught \in SUBSET Subjects}] :
          q.order # <<>> /\ \A i \in 1..Len(q.order) : q.order[i] \in DOMAIN q.teacherBySubject}
  \cup [op : {"GenerateDelete"}, dto : GenerateDto, fill : SUBSET Periods]
  \cup [op : {"GenerateInsert"}, dto : GenerateDto, fill : SUBSET Periods, seen : SUBSET TimetableEntry]

\* What a generation has worked out is still so: its teachers are assigned, its
\* periods are one to a slot and free of what is taught elsewhere, and the rows it
\* deleted are the rows of its section.
PeriodsStand(q) ==
  \A p \in q.fill :
    /\ AssignedTo(p[3], p[2], q.dto)
    /\ \A e \in timetable \ EntriesOf(q.dto, timetable) : e.slot = p[1] => e.teacher # p[3]
    /\ \A o \in q.fill : o[1] = p[1] => o = p

PlanStands(q) ==
  /\ q.op = "GenerateOthers" => \A j \in DOMAIN q.teacherBySubject :
                                  AssignedTo(q.teacherBySubject[j], j, q.dto)
  /\ q.op \in {"GenerateDelete", "GenerateInsert"} => PeriodsStand(q)
  /\ q.op = "GenerateInsert" => q.seen = EntriesOf(q.dto, timetable)

\* A batch is newer than all that is there.
TimetableInv ==
  /\ TimetableTypeOK /\ Known(TimetableOps, TimetableReqs)
  /\ \A e \in timetable : e.batch <= batches
  /\ ~overlap => \A r \in Requests : PlanStands(req[r])

\* What a step may do to the timetable while a generation is about to insert.
ClashFree ==
  \/ UNCHANGED timetable
  \/ \A r \in Requests : At(r, "GenerateInsert") /\ ~overlap =>
       LET rows == EntriesOf(req[r].dto, timetable')
       IN /\ rows = timetable' \ timetable
          /\ \A row \in rows :
               /\ AssignedTo(row.teacher, row.subject, req[r].dto)
               /\ \A other \in timetable' \ {row} :
                    other.slot = row.slot => other.teacher # row.teacher
                                             /\ other \notin rows

LEMMA TimetableReqOp == \A q \in TimetableReqs : q.op \in TimetableOps /\ q.op # "idle"
BY DEF TimetableReqs, TimetableOps

LEMMA OtherPlans == \A q : q.op \notin TimetableOps => PlanStands(q)
BY DEF PlanStands, TimetableOps

LEMMA TimetableInitOK == TimetableInit /\ HandlersInit => TimetableInv
<1> SUFFICES ASSUME TimetableInit, HandlersInit PROVE TimetableInv
  OBVIOUS
<1>1. \A r \in Requests : req[r].op = "idle"
  BY DEF HandlersInit, Idle
<1>2. "idle" \notin TimetableOps
  BY DEF TimetableOps
<1>3. TimetableTypeOK
  BY TimetableAssumption DEF TimetableInit, TimetableTypeOK, RowStatus
<1> QED BY <1>1, <1>2, <1>3, OtherPlans DEF TimetableInv, TimetableInit, Known

LEMMA TimetableElsewhere ==
  ASSUME TimetableInv, UNCHANGED timetableTables, Keeps(TimetableOps), UNCHANGED assignment \/ AtOnce
  PROVE  TimetableInv' /\ ClashFree
<1>1. Known(TimetableOps, TimetableReqs)'
  BY KeepsKnown DEF TimetableInv
<1>2. ~overlap => \A r \in Requests : PlanStands(req[r])'
  <2> SUFFICES ASSUME ~overlap, NEW r \in Requests PROVE PlanStands(req[r])'
    OBVIOUS
  <2>1. CASE req'[r].op \notin TimetableOps
    BY <2>1 DEF PlanStands, TimetableOps
  <2>2. CASE req'[r].op \in TimetableOps
    <3>1. req'[r] = req[r] /\ PlanStands(req[r])
      BY <2>2 DEF Keeps, TimetableInv
    <3>2. UNCHANGED <<assignment, timetable>>
      BY <2>2, <3>1 DEF AtOnce, MayStart, TimetableOps, timetableTables
    <3> QED BY <3>1, <3>2 DEF PlanStands, PeriodsStand, AssignedTo, EntriesOf
  <2> QED BY <2>1, <2>2
<1> QED BY <1>1, <1>2 DEF TimetableInv, TimetableTypeOK, timetableTables, ClashFree, Keeps

\* In a generation one subject has the turn.
LEMMA TurnIsOf ==
  ASSUME NEW order \in Seq(Subjects), order # <<>>, NEW i \in 1..Slots
  PROVE  \E k \in 1..Len(order) : Turn(i, order) = order[k]
<1>1. Len(order) \in Nat \ {0} /\ i - 1 \in Nat
  BY TimetableAssumption
<1>2. (i - 1) % Len(order) \in 0..(Len(order) - 1)
  BY <1>1
<1>3. ((i - 1) % Len(order)) + 1 \in 1..Len(order)
  BY <1>1, <1>2
<1> QED BY <1>3 DEF Turn

LEMMA FillTyped ==
  ASSUME NEW q \in TimetableReqs, q.op = "GenerateOthers", NEW busy
  PROVE  /\ Fill(q, busy) \subseteq Periods
         /\ \A p \in Fill(q, busy) : p[2] \in DOMAIN q.teacherBySubject /\ p[3] = q.teacherBySubject[p[2]]
         /\ \A p, o \in Fill(q, busy) : o[1] = p[1] => o = p
         /\ \A p \in Fill(q, busy) : <<p[1], p[3]>> \notin busy
<1>1. /\ q.order \in Seq(Subjects) /\ q.order # <<>>
      /\ \A k \in 1..Len(q.order) : q.order[k] \in DOMAIN q.teacherBySubject
      /\ q.teacherBySubject \in UNION {[taught -> Teachers] : taught \in SUBSET Subjects}
  BY DEF TimetableReqs
<1>2. \A j \in DOMAIN q.teacherBySubject : j \in Subjects /\ q.teacherBySubject[j] \in Teachers
  BY <1>1
<1>3. \A i \in 1..Slots : Turn(i, q.order) \in DOMAIN q.teacherBySubject
  BY <1>1, TurnIsOf
<1>4. ASSUME NEW p \in Fill(q, busy)
      PROVE  \E i \in 1..Slots : p = <<i, Turn(i, q.order), q.teacherBySubject[Turn(i, q.order)]>>
  BY DEF Fill
<1>5. \A p \in Fill(q, busy) : <<p[1], p[3]>> \notin busy
  BY DEF Fill
<1> HIDE DEF Fill
<1>6. ASSUME NEW p \in Fill(q, busy)
      PROVE  p \in Periods /\ p[2] \in DOMAIN q.teacherBySubject /\ p[3] = q.teacherBySubject[p[2]]
  <2>1. PICK i \in 1..Slots : p = <<i, Turn(i, q.order), q.teacherBySubject[Turn(i, q.order)]>>
    BY <1>4
  <2>2. PICK j \in DOMAIN q.teacherBySubject : j = Turn(i, q.order)
    BY <1>3
  <2>3. p = <<i, j, q.teacherBySubject[j]>> /\ j \in Subjects /\ q.teacherBySubject[j] \in Teachers
    BY <1>2, <2>1, <2>2
  <2> QED BY <2>3 DEF Periods
<1>7. ASSUME NEW p \in Fill(q, busy), NEW o \in Fill(q, busy), o[1] = p[1] PROVE o = p
  <2>1. PICK i \in 1..Slots : p = <<i, Turn(i, q.order), q.teacherBySubject[Turn(i, q.order)]>>
    BY <1>4
  <2>2. PICK k \in 1..Slots : o = <<k, Turn(k, q.order), q.teacherBySubject[Turn(k, q.order)]>>
    BY <1>4
  <2>3. i = k
    BY <1>7, <2>1, <2>2
  <2> QED BY <2>1, <2>2, <2>3
<1> QED BY <1>5, <1>6, <1>7

LEMMA OrderTyped ==
  ASSUME NEW taught \in SUBSET Subjects, taught # {}, NEW order \in SetToSeqs(taught)
  PROVE  order \in Seq(Subjects) /\ order # <<>> /\ \A i \in 1..Len(order) : order[i] \in taught
<1>1. IsFiniteSet(taught)
  BY TimetableAssumption, FS_Subset
<1>2. Cardinality(taught) \in Nat /\ Cardinality(taught) # 0
  BY <1>1, FS_EmptySet, FS_CardinalityType
<1>3. PICK n \in Nat : n = Cardinality(taught)
  BY <1>2
<1>4. order \in [1..n -> taught] /\ n # 0
  BY <1>2, <1>3 DEF SetToSeqs
<1>5. order \in Seq(taught) /\ Len(order) = n
  BY <1>4
<1> QED BY <1>4, <1>5

\* A statement that leaves the tables alone.
LEMMA GeneratesKeep ==
  ASSUME TimetableInv, InFlightOK, Known(TimetableOps, TimetableReqs)',
         UNCHANGED <<timetableTables, assignment, overlap>>,
         NEW r \in Requests, NEW q, req' = [req EXCEPT ![r] = q], req[r].op # "idle" \/ MayStart,
         ~overlap => PlanStands(q)
  PROVE  TimetableInv' /\ ClashFree
<1>1. req'[r] = q /\ \A x \in Requests \ {r} : req'[x] = req[x]
  BY DEF InFlightOK
<1>2. ~overlap => \A x \in Requests : PlanStands(req[x])'
  <2> SUFFICES ASSUME ~overlap, NEW x \in Requests PROVE PlanStands(req[x])'
    OBVIOUS
  <2>1. CASE x = r
    BY <1>1, <2>1 DEF PlanStands, PeriodsStand, AssignedTo, EntriesOf, timetableTables
  <2>2. CASE x # r
    <3>1. req'[x].op = "idle"
      BY <1>1, <2>2 DEF InFlightOK, OneAtATime, MayStart
    <3> QED BY <3>1 DEF PlanStands
  <2> QED BY <2>1, <2>2
<1> QED BY <1>2 DEF TimetableInv, TimetableTypeOK, timetableTables, ClashFree

LEMMA GenerateReadSteps ==
  ASSUME InFlightOK, Known(TimetableOps, TimetableReqs), NEW r \in Requests, GenerateRead(r)
  PROVE  /\ Steps(TimetableReqs)
         /\ TimetableInv /\ Known(TimetableOps, TimetableReqs)' => TimetableInv' /\ ClashFree
<1>1. PICK dto \in GenerateDto :
        Starts(r, [op |-> "GenerateAssignments", dto |-> dto, subjects |->
            {j \in Subjects : subject[j].status = "kept" /\ dto.class \in subject[j].classes}])
  BY DEF GenerateRead
<1>2. PICK q : q = [op |-> "GenerateAssignments", dto |-> dto, subjects |->
                    {j \in Subjects : subject[j].status = "kept" /\ dto.class \in subject[j].classes}]
  OBVIOUS
<1>3. q \in TimetableReqs
  BY <1>2 DEF TimetableReqs
<1>4. Steps(TimetableReqs)
  BY <1>1, <1>2, <1>3, StartSteps DEF InFlightOK
<1>5. PlanStands(q)
  BY <1>2 DEF PlanStands
<1>6. UNCHANGED <<timetableTables, assignment, overlap>> /\ MayStart /\ req' = [req EXCEPT ![r] = q]
  BY <1>1, <1>2 DEF GenerateRead, Starts, schoolTables, peopleTables
<1> QED BY <1>4, <1>5, <1>6, GeneratesKeep

LEMMA GenerateAssignmentsSteps ==
  ASSUME InFlightOK, Known(TimetableOps, TimetableReqs), NEW r \in Requests, GenerateAssignments(r)
  PROVE  /\ Steps(TimetableReqs)
         /\ TimetableInv /\ Known(TimetableOps, TimetableReqs)' => TimetableInv' /\ ClashFree
<1>1. req[r] \in TimetableReqs /\ req[r].op = "GenerateAssignments"
  BY DEF GenerateAssignments, At, Known, TimetableOps
<1>2. PICK dto \in GenerateDto, subjects \in SUBSET Subjects : dto = req[r].dto /\ subjects = req[r].subjects
  BY <1>1 DEF TimetableReqs
<1>3. PICK taught : taught = {j \in subjects : \E t \in Teachers : AssignedTo(t, j, dto)}
  OBVIOUS
<1>4. taught \in SUBSET Subjects /\ taught # {}
  BY <1>2, <1>3 DEF GenerateAssignments
<1>5. PICK order \in SetToSeqs(taught), teacherBySubject \in [taught -> Teachers] :
        /\ \A j \in taught : AssignedTo(teacherBySubject[j], j, dto)
        /\ Goes(r, [op |-> "GenerateOthers", dto |-> dto, order |-> order,
                    teacherBySubject |-> teacherBySubject])
  BY <1>2, <1>3 DEF GenerateAssignments
<1>6. PICK q : q = [op |-> "GenerateOthers", dto |-> dto, order |-> order,
                    teacherBySubject |-> teacherBySubject]
  OBVIOUS
<1>7. order \in Seq(Subjects) /\ order # <<>> /\ \A i \in 1..Len(order) : order[i] \in taught
  BY <1>4, OrderTyped
<1>8. q \in TimetableReqs
  <2>1. teacherBySubject \in UNION {[some -> Teachers] : some \in SUBSET Subjects}
    BY <1>4
  <2> QED BY <1>6, <1>7, <2>1 DEF TimetableReqs
<1>9. Steps(TimetableReqs)
  BY <1>1, <1>5, <1>6, <1>8, GoSteps DEF InFlightOK
<1>10. PlanStands(q)
  BY <1>5, <1>6 DEF PlanStands
<1>11. UNCHANGED <<timetableTables, assignment, overlap>> /\ req' = [req EXCEPT ![r] = q]
  BY <1>5, <1>6 DEF GenerateAssignments, Goes, schoolTables, peopleTables
<1> QED BY <1>1, <1>9, <1>10, <1>11, GeneratesKeep

LEMMA GenerateOthersSteps ==
  ASSUME InFlightOK, Known(TimetableOps, TimetableReqs), NEW r \in Requests, GenerateOthers(r)
  PROVE  /\ Steps(TimetableReqs)
         /\ TimetableInv /\ Known(TimetableOps, TimetableReqs)' => TimetableInv' /\ ClashFree
<1>1. req[r] \in TimetableReqs /\ req[r].op = "GenerateOthers"
  BY DEF GenerateOthers, At, Known, TimetableOps
<1>2. PICK dto \in GenerateDto : dto = req[r].dto
  BY <1>1 DEF TimetableReqs
<1>3. PICK busy : busy = {<<e.slot, e.teacher>> : e \in timetable \ EntriesOf(dto, timetable)}
  OBVIOUS
<1>4. PICK fill : fill = Fill(req[r], busy)
  OBVIOUS
<1>5. /\ fill \subseteq Periods
      /\ \A p \in fill : /\ p[2] \in DOMAIN req[r].teacherBySubject
                         /\ p[3] = req[r].teacherBySubject[p[2]]
      /\ \A p, o \in fill : o[1] = p[1] => o = p
      /\ \A p \in fill : <<p[1], p[3]>> \notin busy
  BY <1>1, <1>4, FillTyped
<1>6. PICK q : q = [op |-> "GenerateDelete", dto |-> dto, fill |-> fill]
  OBVIOUS
<1>7. q \in TimetableReqs
  BY <1>5, <1>6 DEF TimetableReqs
<1>8. Goes(r, q)
  BY <1>2, <1>3, <1>4, <1>6 DEF GenerateOthers
<1>9. Steps(TimetableReqs)
  BY <1>1, <1>7, <1>8, GoSteps DEF InFlightOK
<1>10. ASSUME TimetableInv, ~overlap PROVE PlanStands(q)
  <2>1. PlanStands(req[r])
    BY <1>10 DEF TimetableInv
  <2>2. \A p \in fill : AssignedTo(p[3], p[2], dto)
    BY <1>1, <1>2, <1>5, <2>1 DEF PlanStands
  <2>3. \A p \in fill : \A e \in timetable \ EntriesOf(dto, timetable) :
          e.slot = p[1] => e.teacher # p[3]
    BY <1>3, <1>5
  <2>4. PeriodsStand(q)
    BY <1>5, <1>6, <2>2, <2>3 DEF PeriodsStand
  <2> QED BY <1>6, <2>4 DEF PlanStands
<1>11. UNCHANGED <<timetableTables, assignment, overlap>> /\ req' = [req EXCEPT ![r] = q]
  BY <1>8 DEF GenerateOthers, Goes, schoolTables, peopleTables
<1> QED BY <1>1, <1>9, <1>10, <1>11, GeneratesKeep

LEMMA GenerateDeleteSteps ==
  ASSUME InFlightOK, Known(TimetableOps, TimetableReqs), TimetableTypeOK,
         NEW r \in Requests, GenerateDelete(r)
  PROVE  /\ Steps(TimetableReqs)
         /\ TimetableInv /\ Known(TimetableOps, TimetableReqs)' => TimetableInv' /\ ClashFree
<1>1. req[r] \in TimetableReqs /\ req[r].op = "GenerateDelete"
  BY DEF GenerateDelete, At, Known, TimetableOps
<1>2. PICK dto \in GenerateDto, fill \in SUBSET Periods : dto = req[r].dto /\ fill = req[r].fill
  BY <1>1 DEF TimetableReqs
<1>3. PICK q : q = [op |-> "GenerateInsert", dto |-> dto, fill |-> fill,
                    seen |-> EntriesOf(dto, timetable)]
  OBVIOUS
<1>4. q \in TimetableReqs
  <2>1. EntriesOf(dto, timetable) \in SUBSET TimetableEntry
    BY DEF EntriesOf, TimetableTypeOK
  <2> QED BY <1>3, <2>1 DEF TimetableReqs
<1>5. Goes(r, q)
  BY <1>2, <1>3 DEF GenerateDelete
<1>6. Steps(TimetableReqs)
  BY <1>1, <1>4, <1>5, GoSteps DEF InFlightOK
<1>7. ASSUME TimetableInv, ~overlap PROVE PlanStands(q)
  <2>1. PeriodsStand(req[r])
    BY <1>1, <1>7 DEF TimetableInv, PlanStands
  <2>2. PeriodsStand(q)
    BY <1>2, <1>3, <2>1 DEF PeriodsStand
  <2> QED BY <1>3, <2>2 DEF PlanStands
<1>8. UNCHANGED <<timetableTables, assignment, overlap>> /\ req' = [req EXCEPT ![r] = q]
  BY <1>5 DEF GenerateDelete, Goes, schoolTables, peopleTables
<1> QED BY <1>1, <1>6, <1>7, <1>8, GeneratesKeep

LEMMA TimetableDiesSteps ==
  ASSUME InFlightOK, Known(TimetableOps, TimetableReqs), Moves(TimetableOps),
         NEW r \in Requests, TimetableDies(r)
  PROVE  /\ Steps(TimetableReqs)
         /\ TimetableInv /\ Known(TimetableOps, TimetableReqs)' => TimetableInv' /\ ClashFree
<1>1. Steps(TimetableReqs)
  BY DiesSteps DEF TimetableDies, InFlightOK, Known
<1>2. PlanStands(Idle)
  BY DEF PlanStands, Idle
<1>3. /\ UNCHANGED <<timetableTables, assignment, overlap>> /\ req' = [req EXCEPT ![r] = Idle]
      /\ req[r].op # "idle"
  BY DEF TimetableDies, Dies, Ends, schoolTables, peopleTables
<1> QED BY <1>1, <1>2, <1>3, GeneratesKeep

-----------------------------------------------------------------------------

LEMMA EntryTyped ==
  ASSUME NEW dto, dto.class \in Classes, dto.section \in Sections, NEW i \in 1..Slots,
         NEW j \in Subjects, NEW t \in Teachers, NEW n \in 1..MaxBatches
  PROVE  /\ Entry(dto, i, j, t, n) \in TimetableEntry
         /\ LET e == Entry(dto, i, j, t, n)
            IN /\ e.class = dto.class /\ e.section = dto.section /\ e.slot = i
               /\ e.subject = j /\ e.teacher = t /\ e.batch = n
BY DEF Entry, TimetableEntry

LEMMA EntriesKeep ==
  ASSUME TimetableInv, InFlightOK, CreateEntry \/ \E e \in timetable : UpdateEntry(e) \/ RemoveEntry(e)
  PROVE  TimetableInv' /\ ClashFree /\ AtOnce
<1>1. AtOnce /\ UNCHANGED <<req, overlap, substitution>> /\ (~overlap => \A r \in Requests : req[r].op = "idle")
  BY DEF CreateEntry, UpdateEntry, RemoveEntry, AtOnce, MayStart
<1>2. /\ timetable' \subseteq TimetableEntry /\ batches' \in 0..MaxBatches
      /\ \A x \in timetable' : x.batch <= batches'
  <2>1. CASE CreateEntry
    <3>1. PICK dto \in TimetableEntryDto :
            timetable' = timetable \cup {Entry(dto, dto.slot, dto.subject, dto.teacher, batches + 1)}
      BY <2>1 DEF CreateEntry
    <3>2. /\ dto.class \in Classes /\ dto.section \in Sections /\ dto.slot \in 1..Slots
          /\ dto.subject \in Subjects /\ dto.teacher \in Teachers
      BY DEF TimetableEntryDto
    <3>3. batches \in Nat /\ batches' = batches + 1 /\ batches + 1 \in 1..MaxBatches
      BY <2>1, TimetableAssumption DEF CreateEntry, TimetableInv, TimetableTypeOK
    <3>4. PICK new : new = Entry(dto, dto.slot, dto.subject, dto.teacher, batches + 1)
      OBVIOUS
    <3>5. new \in TimetableEntry /\ new.batch = batches + 1
      BY <3>2, <3>3, <3>4, EntryTyped
    <3>6. timetable \subseteq TimetableEntry /\ \A x \in timetable : x.batch <= batches
      BY DEF TimetableInv, TimetableTypeOK
    <3>7. \A x \in timetable : x.batch \in Nat
      BY <3>6, TimetableAssumption DEF TimetableEntry
    <3>8. batches' \in 0..MaxBatches
      BY <3>3
    <3>9. \A x \in timetable' : x = new \/ x \in timetable
      BY <3>1, <3>4
    <3>10. \A x \in timetable' : x.batch <= batches'
      BY <3>3, <3>5, <3>6, <3>7, <3>9
    <3> QED BY <3>5, <3>6, <3>8, <3>9, <3>10
  <2>2. ASSUME NEW e \in timetable, UpdateEntry(e)
        PROVE  /\ timetable' \subseteq TimetableEntry /\ batches' = batches
               /\ \A x \in timetable' : x.batch <= batches'
    <3>1. PICK dto \in TimetableEntryDto :
            timetable' = (timetable \ {e}) \cup {Entry(dto, dto.slot, dto.subject, dto.teacher, e.batch)}
      BY <2>2 DEF UpdateEntry
    <3>2. /\ dto.class \in Classes /\ dto.section \in Sections /\ dto.slot \in 1..Slots
          /\ dto.subject \in Subjects /\ dto.teacher \in Teachers
      BY DEF TimetableEntryDto
    <3>3. e.batch \in 1..MaxBatches /\ e.batch <= batches /\ batches' = batches
      BY <2>2 DEF UpdateEntry, TimetableInv, TimetableTypeOK, TimetableEntry
    <3>4. PICK new : new = Entry(dto, dto.slot, dto.subject, dto.teacher, e.batch)
      OBVIOUS
    <3>5. new \in TimetableEntry /\ new.batch = e.batch
      BY <3>2, <3>3, <3>4, EntryTyped
    <3>6. timetable \subseteq TimetableEntry /\ \A x \in timetable : x.batch <= batches
      BY DEF TimetableInv, TimetableTypeOK
    <3>7. \A x \in timetable' : x = new \/ x \in timetable
      BY <3>1, <3>4
    <3> QED BY <3>3, <3>5, <3>6, <3>7
  <2>3. ASSUME NEW e \in timetable, RemoveEntry(e)
        PROVE  /\ timetable' \subseteq TimetableEntry /\ batches' = batches
               /\ \A x \in timetable' : x.batch <= batches'
    BY <2>3 DEF RemoveEntry, TimetableInv, TimetableTypeOK
  <2> QED BY <2>1, <2>2, <2>3 DEF TimetableInv, TimetableTypeOK
<1>3. Known(TimetableOps, TimetableReqs)'
  BY <1>1 DEF TimetableInv, Known
<1>4. ~overlap => \A r \in Requests : PlanStands(req[r])'
  BY <1>1 DEF PlanStands
<1>5. ClashFree
  BY <1>1 DEF ClashFree, At
<1> QED BY <1>1, <1>2, <1>3, <1>4, <1>5 DEF TimetableInv, TimetableTypeOK

\* The rows of the section are the rows that are inserted.
LEMMA GenerateInsertKeeps ==
  ASSUME TimetableInv, InFlightOK, NEW r \in Requests, GenerateInsert(r)
  PROVE  Steps(TimetableReqs) /\ (Known(TimetableOps, TimetableReqs)' => TimetableInv' /\ ClashFree)
<1>1. req[r] \in TimetableReqs /\ req[r].op = "GenerateInsert"
  BY DEF GenerateInsert, At, TimetableInv, Known, TimetableOps
<1>2. PICK dto \in GenerateDto, fill \in SUBSET Periods, seen \in SUBSET TimetableEntry :
        dto = req[r].dto /\ fill = req[r].fill /\ seen = req[r].seen
  BY <1>1 DEF TimetableReqs
<1>3. PICK n : n = batches + 1
  OBVIOUS
<1>4. batches \in Nat /\ n \in 1..MaxBatches /\ batches' = n /\ batches' \in 0..MaxBatches
  BY <1>3, TimetableAssumption DEF GenerateInsert, TimetableInv, TimetableTypeOK
<1>5. PICK new : new = {Entry(dto, p[1], p[2], p[3], n) : p \in fill}
  OBVIOUS
<1>6. timetable' = (timetable \ seen) \cup new
  BY <1>2, <1>3, <1>5 DEF GenerateInsert, Replaced
<1>7. \A p \in fill :
        LET e == Entry(dto, p[1], p[2], p[3], n)
        IN /\ e \in TimetableEntry /\ e.class = dto.class /\ e.section = dto.section /\ e.slot = p[1]
           /\ e.subject = p[2] /\ e.teacher = p[3] /\ e.batch = n
  <2> TAKE p \in fill
  <2>1. /\ p[1] \in 1..Slots /\ p[2] \in Subjects /\ p[3] \in Teachers
        /\ dto.class \in Classes /\ dto.section \in Sections
    BY DEF Periods, GenerateDto
  <2> QED BY <1>4, <2>1, EntryTyped
<1>8. \A e \in new : \E p \in fill : e = Entry(dto, p[1], p[2], p[3], n)
  BY <1>5
<1>9. \A e \in new : /\ e \in TimetableEntry /\ e.class = dto.class /\ e.section = dto.section
                     /\ e.batch = n
  BY <1>7, <1>8
<1>10. timetable \subseteq TimetableEntry /\ \A e \in timetable : e.batch <= batches /\ e.batch \in Nat
  BY TimetableAssumption DEF TimetableInv, TimetableTypeOK, TimetableEntry
<1>11. timetable' \subseteq TimetableEntry /\ \A e \in timetable' : e.batch <= batches'
  BY <1>3, <1>4, <1>6, <1>9, <1>10
<1>12. req'[r] = Idle /\ (\A x \in Requests \ {r} : req'[x] = req[x]) /\ UNCHANGED <<overlap, substitution>>
  BY DEF GenerateInsert, Ends, InFlightOK
<1>13. ~overlap => \A x \in Requests : req'[x].op = "idle"
  BY <1>1, <1>12 DEF Idle, InFlightOK, OneAtATime
<1>14. ~overlap => \A x \in Requests : PlanStands(req[x])'
  BY <1>13 DEF PlanStands
<1>15. Steps(TimetableReqs)
  BY <1>1, EndSteps DEF GenerateInsert, InFlightOK
<1>16. ASSUME ~overlap
       PROVE  LET rows == EntriesOf(req[r].dto, timetable')
              IN /\ rows = timetable' \ timetable
                 /\ \A row \in rows :
                      /\ AssignedTo(row.teacher, row.subject, req[r].dto)
                      /\ \A other \in timetable' \ {row} :
                           other.slot = row.slot => other.teacher # row.teacher
                                                    /\ other \notin rows
  <2>1. seen = EntriesOf(dto, timetable) /\ PeriodsStand(req[r])
    BY <1>1, <1>2, <1>16 DEF TimetableInv, PlanStands
  <2>2. EntriesOf(dto, timetable') = new
    BY <1>6, <1>9, <2>1 DEF EntriesOf
  <2>3. timetable' \ timetable = new
    <3>1. \A e \in new : e \notin timetable
      BY <1>3, <1>4, <1>9, <1>10
    <3> QED BY <1>6, <3>1
  <2>4. ASSUME NEW row \in new
        PROVE  /\ AssignedTo(row.teacher, row.subject, dto)
               /\ \A other \in timetable' \ {row} :
                    other.slot = row.slot => other.teacher # row.teacher /\ other \notin new
    <3>1. PICK p \in fill : row = Entry(dto, p[1], p[2], p[3], n)
      BY <1>8
    <3>2. row.slot = p[1] /\ row.subject = p[2] /\ row.teacher = p[3]
      BY <1>7, <3>1
    <3>3. AssignedTo(p[3], p[2], dto)
      BY <1>2, <2>1 DEF PeriodsStand
    <3>4. ASSUME NEW other \in timetable' \ {row}, other.slot = row.slot
          PROVE  other.teacher # row.teacher /\ other \notin new
      <4>1. other \notin new
        <5>1. SUFFICES ASSUME other \in new PROVE FALSE
          OBVIOUS
        <5>2. PICK o \in fill : other = Entry(dto, o[1], o[2], o[3], n)
          BY <1>8, <5>1
        <5>3. other.slot = o[1]
          BY <1>7, <5>2
        <5>4. o = p
          BY <1>2, <2>1, <3>2, <3>4, <5>3 DEF PeriodsStand
        <5> QED BY <3>1, <3>4, <5>2, <5>4
      <4>2. other \in timetable \ EntriesOf(dto, timetable)
        BY <1>6, <2>1, <4>1
      <4> QED BY <1>2, <2>1, <3>2, <3>4, <4>1, <4>2 DEF PeriodsStand
    <3> QED BY <3>2, <3>3, <3>4
  <2> QED BY <1>2, <2>2, <2>3, <2>4
<1>17. ~overlap => \A x \in Requests : At(x, "GenerateInsert") => x = r
  BY <1>1 DEF InFlightOK, OneAtATime, At
<1>18. ClashFree
  BY <1>16, <1>17 DEF ClashFree
<1>19. Known(TimetableOps, TimetableReqs)' => TimetableInv'
  BY <1>4, <1>11, <1>12, <1>14 DEF TimetableInv, TimetableTypeOK
<1> QED BY <1>15, <1>18, <1>19

LEMMA SubstitutionsKeep ==
  ASSUME TimetableInv, InFlightOK, SubstitutionsNext
  PROVE  TimetableInv' /\ ClashFree /\ AtOnce
<1>1. /\ AtOnce /\ UNCHANGED <<req, overlap, timetable, batches>>
      /\ (~overlap => \A r \in Requests : req[r].op = "idle")
  BY DEF SubstitutionsNext, CreateSubstitution, RemoveSubstitution, AtOnce, MayStart
<1>2. substitution' \in [Substitutions -> RowStatus]
  BY DEF SubstitutionsNext, CreateSubstitution, RemoveSubstitution, TimetableInv, TimetableTypeOK, RowStatus
<1>3. Known(TimetableOps, TimetableReqs)'
  BY <1>1 DEF TimetableInv, Known
<1>4. ~overlap => \A r \in Requests : PlanStands(req[r])'
  BY <1>1 DEF PlanStands
<1> QED BY <1>1, <1>2, <1>3, <1>4 DEF TimetableInv, TimetableTypeOK, ClashFree

LEMMA TimetableKeeps ==
  ASSUME TimetableInv, InFlightOK, TimetableEntries \/ SubstitutionsNext, Moves(TimetableOps)
  PROVE  TimetableInv' /\ ClashFree /\ Steps(TimetableReqs)
<1>1. Known(TimetableOps, TimetableReqs) /\ TimetableTypeOK
  BY DEF TimetableInv
<1>2. Steps(TimetableReqs)
  BY <1>1, AtOnceSteps, EntriesKeep, SubstitutionsKeep, GenerateReadSteps, GenerateAssignmentsSteps,
     GenerateOthersSteps, GenerateDeleteSteps, GenerateInsertKeeps, TimetableDiesSteps
     DEF TimetableEntries
<1>3. "idle" \notin TimetableOps
  BY DEF TimetableOps
<1>4. Known(TimetableOps, TimetableReqs)'
  BY <1>1, <1>2, <1>3, StepsKnown
<1> QED BY <1>1, <1>2, <1>4, EntriesKeep, SubstitutionsKeep, GenerateReadSteps, GenerateAssignmentsSteps,
           GenerateOthersSteps, GenerateDeleteSteps, GenerateInsertKeeps, TimetableDiesSteps
           DEF TimetableEntries

-----------------------------------------------------------------------------
(* Homework, attendance and leave                                           *)

\* What a row and the answers of it that were shown keep between them.
RowInv(row, shown) ==
  /\ row = None => shown = {}
  /\ row # None => shown \subseteq 1..row.answer
  /\ row # None /\ row.status = "graded" => GradedLast(row, shown)

ClassroomInv ==
  /\ ClassroomTypeOK
  /\ \A h \in Homeworks, s \in Students :
       /\ submission[h][s] # None => homework[h].status = "kept" /\ Placed(s)
       /\ RowInv(submission[h][s], listed[h][s])

LEMMA ClassroomInitOK == ClassroomInit => ClassroomInv
BY DEF ClassroomInit, ClassroomInv, ClassroomTypeOK, RowInv, HomeworkRow, RowStatus

LEMMA ClassroomElsewhere ==
  ASSUME ClassroomInv, UNCHANGED <<classroomTables, student>>
  PROVE  ClassroomInv'
BY DEF ClassroomInv, ClassroomTypeOK, Placed, classroomTables

\* A new answer takes the grade from view.
LEMMA SubmitKeeps ==
  ASSUME ClassroomInv, NEW h \in Homeworks, NEW s \in Students, Submit(h, s)
  PROVE  ClassroomInv'
<1>1. PICK new : new = Answered(submission[h][s])
  OBVIOUS
<1>2. submission' = [submission EXCEPT ![h] = [submission[h] EXCEPT ![s] = new]]
  BY <1>1 DEF Submit, ClassroomInv, ClassroomTypeOK
<1>3. new \in Submission /\ new # None /\ RowInv(new, listed[h][s])
  <2>1. CASE submission[h][s] = None
    <3>1. new = FirstAnswer
      BY <1>1, <2>1 DEF Answered
    <3>2. new \in Submission /\ new.status = "submitted"
      BY <3>1, ClassroomAssumption DEF Submission, FirstAnswer
    <3>3. listed[h][s] = {}
      BY <2>1 DEF ClassroomInv, RowInv
    <3> QED BY <3>2, <3>3, SubmissionAssumption DEF RowInv
  <2>2. CASE submission[h][s] # None
    <3>1. PICK old \in Submission : old = submission[h][s]
      BY <2>2 DEF ClassroomInv, ClassroomTypeOK
    <3>2. old.answer \in 1..MaxAnswers /\ old.answer < MaxAnswers
      BY <2>2, <3>1 DEF Submit, Submission
    <3>3. old.answer + 1 \in 1..MaxAnswers
      BY <3>2, ClassroomAssumption
    <3>4. new = [old EXCEPT !.status = "submitted", !.answer = old.answer + 1]
      BY <1>1, <2>2, <3>1 DEF Answered
    <3>5. new \in Submission /\ new.status = "submitted" /\ new.answer = old.answer + 1
      BY <3>3, <3>4 DEF Submission
    <3>6. listed[h][s] \subseteq 1..old.answer
      BY <2>2, <3>1 DEF ClassroomInv, RowInv
    <3>7. 1..old.answer \subseteq 1..(old.answer + 1)
      BY <3>2
    <3> QED BY <3>5, <3>6, <3>7, SubmissionAssumption DEF RowInv
  <2> QED BY <2>1, <2>2
<1>4. submission' \in [Homeworks -> [Students -> Submission \cup {None}]]
  BY <1>2, <1>3 DEF ClassroomInv, ClassroomTypeOK
<1>5. /\ submission'[h][s] = new
      /\ \A k \in Homeworks, t \in Students : k # h \/ t # s => submission'[k][t] = submission[k][t]
  BY <1>2 DEF ClassroomInv, ClassroomTypeOK
<1>6. UNCHANGED <<homework, listed, attendance, leave, student>> /\ homework[h].status = "kept" /\ Placed(s)
  BY DEF Submit, schoolTables, structureTables
<1> QED BY <1>3, <1>4, <1>5, <1>6 DEF ClassroomInv, ClassroomTypeOK, Placed

\* A queue that is read now shows the answer there is beside earlier ones.
LEMMA ListKeeps ==
  ASSUME ClassroomInv, NEW h \in Homeworks, ListSubmissions(h)
  PROVE  ClassroomInv'
<1>1. UNCHANGED <<homework, submission, attendance, leave, student>>
  BY DEF ListSubmissions, schoolTables, structureTables
<1>2. /\ \A k \in Homeworks \ {h} : listed'[k] = listed[k]
      /\ \A s \in Students : listed'[h][s] = IF submission[h][s] = None THEN listed[h][s]
                                              ELSE listed[h][s] \cup {submission[h][s].answer}
      /\ listed' \in [Homeworks -> [Students -> SUBSET (1..MaxAnswers)]]
  <2>1. \A s \in Students : submission[h][s] # None => submission[h][s].answer \in 1..MaxAnswers
    BY DEF ClassroomInv, ClassroomTypeOK, Submission
  <2> QED BY <2>1 DEF ListSubmissions, ClassroomInv, ClassroomTypeOK
<1>3. ASSUME NEW k \in Homeworks, NEW s \in Students
      PROVE  RowInv(submission[k][s], listed'[k][s])
  <2>1. CASE k = h /\ submission[k][s] # None
    <3>1. PICK row \in Submission : row = submission[k][s]
      BY <2>1 DEF ClassroomInv, ClassroomTypeOK
    <3>2. row.answer \in 1..MaxAnswers
      BY <3>1 DEF Submission
    <3>3. RowInv(row, listed[k][s]) /\ listed'[k][s] = listed[k][s] \cup {row.answer}
      BY <1>2, <2>1, <3>1 DEF ClassroomInv
    <3> QED BY <2>1, <3>1, <3>2, <3>3 DEF RowInv, GradedLast
  <2>2. CASE k # h \/ submission[k][s] = None
    BY <1>2, <2>2 DEF ClassroomInv
  <2> QED BY <2>1, <2>2
<1> QED BY <1>1, <1>2, <1>3 DEF ClassroomInv, ClassroomTypeOK, Placed

\* The grade is of an answer that was shown, none of which is newer than the row's.
LEMMA GradeKeeps ==
  ASSUME ClassroomInv, NEW h \in Homeworks, NEW s \in Students, GradeSubmission(h, s)
  PROVE  ClassroomInv'
<1>1. PICK old \in Submission : old = submission[h][s]
  BY DEF GradeSubmission, ClassroomInv, ClassroomTypeOK
<1>2. PICK seen \in listed[h][s] :
        submission' = [submission EXCEPT ![h][s].status = "graded", ![h][s].gradeOf = seen,
                                         ![h][s].gradedAt = submission[h][s].answer]
  BY DEF GradeSubmission
<1>3. PICK new : new = [old EXCEPT !.status = "graded", !.gradeOf = seen, !.gradedAt = old.answer]
  OBVIOUS
<1>4. submission' = [submission EXCEPT ![h] = [submission[h] EXCEPT ![s] = new]]
  BY <1>1, <1>2, <1>3 DEF ClassroomInv, ClassroomTypeOK
<1>5. seen \in 1..MaxAnswers /\ old.answer \in 1..MaxAnswers /\ old.answer \in 0..MaxAnswers
  BY ClassroomAssumption DEF ClassroomInv, ClassroomTypeOK, Submission
<1>6. /\ new \in Submission /\ new.gradeOf = seen /\ new.gradedAt = old.answer
      /\ new.answer = old.answer
  BY <1>3, <1>5 DEF Submission
<1>7. listed[h][s] \subseteq 1..old.answer
  BY <1>1, SubmissionAssumption DEF ClassroomInv, RowInv
<1>8. RowInv(new, listed[h][s])
  BY <1>2, <1>5, <1>6, <1>7, SubmissionAssumption DEF RowInv, GradedLast
<1>9. submission' \in [Homeworks -> [Students -> Submission \cup {None}]]
  BY <1>4, <1>6 DEF ClassroomInv, ClassroomTypeOK
<1>10. /\ submission'[h][s] = new
       /\ \A k \in Homeworks, t \in Students : k # h \/ t # s => submission'[k][t] = submission[k][t]
  BY <1>4 DEF ClassroomInv, ClassroomTypeOK
<1>11. UNCHANGED <<homework, listed, attendance, leave, student>> /\ submission[h][s] # None
  BY DEF GradeSubmission, schoolTables, structureTables
<1>12. ASSUME NEW k \in Homeworks, NEW t \in Students
       PROVE  /\ submission'[k][t] # None => homework'[k].status = "kept" /\ Placed(t)'
              /\ RowInv(submission'[k][t], listed'[k][t])
  <2>1. CASE k = h /\ t = s
    BY <1>8, <1>10, <1>11, <2>1 DEF ClassroomInv, Placed
  <2>2. CASE k # h \/ t # s
    BY <1>10, <1>11, <2>2 DEF ClassroomInv, Placed
  <2> QED BY <2>1, <2>2
<1> QED BY <1>9, <1>11, <1>12 DEF ClassroomInv, ClassroomTypeOK

LEMMA HomeworkRowsKeep ==
  ASSUME ClassroomInv, NEW h \in Homeworks, CreateHomework(h) \/ UpdateHomework(h) \/ RemoveHomework(h)
  PROVE  ClassroomInv'
<1>1. UNCHANGED <<attendance, leave, student>>
  BY DEF CreateHomework, UpdateHomework, RemoveHomework, schoolTables, structureTables
<1>2. CASE CreateHomework(h) \/ UpdateHomework(h)
  <2>1. PICK dto \in HomeworkDto : homework' = [homework EXCEPT ![h] = [status |-> "kept", classes |-> dto.classes]]
    <3>1. CASE CreateHomework(h)
      BY <3>1 DEF CreateHomework
    <3>2. CASE UpdateHomework(h)
      <4>1. PICK dto \in HomeworkDto : homework' = [homework EXCEPT ![h].classes = dto.classes]
        BY <3>2 DEF UpdateHomework
      <4>2. homework[h] \in HomeworkRow /\ homework[h].status = "kept"
        BY <3>2 DEF UpdateHomework, ClassroomInv, ClassroomTypeOK
      <4>3. [homework[h] EXCEPT !.classes = dto.classes] = [status |-> "kept", classes |-> dto.classes]
        BY <4>2 DEF HomeworkRow
      <4> QED BY <4>1, <4>3
    <3> QED BY <1>2, <3>1, <3>2
  <2>2. [status |-> "kept", classes |-> dto.classes] \in HomeworkRow
    BY DEF HomeworkDto, HomeworkRow, RowStatus
  <2>3. UNCHANGED <<submission, listed>>
    BY <1>2 DEF CreateHomework, UpdateHomework
  <2>4. homework' \in [Homeworks -> HomeworkRow]
    BY <2>1, <2>2 DEF ClassroomInv, ClassroomTypeOK
  <2>5. \A k \in Homeworks : homework[k].status = "kept" => homework'[k].status = "kept"
    BY <2>1 DEF ClassroomInv, ClassroomTypeOK
  <2> QED BY <1>1, <2>3, <2>4, <2>5 DEF ClassroomInv, ClassroomTypeOK, Placed
<1>3. CASE RemoveHomework(h)
  <2>1. PICK row : row = [homework[h] EXCEPT !.status = "deleted"]
    OBVIOUS
  <2>2. row \in HomeworkRow
    BY <2>1 DEF ClassroomInv, ClassroomTypeOK, HomeworkRow, RowStatus
  <2>3. /\ homework' = [homework EXCEPT ![h] = row]
        /\ submission' = [submission EXCEPT ![h] = [s \in Students |-> None]]
        /\ listed' = [listed EXCEPT ![h] = [s \in Students |-> {}]]
    BY <1>3, <2>1 DEF RemoveHomework
  <2>4. /\ homework' \in [Homeworks -> HomeworkRow]
        /\ submission' \in [Homeworks -> [Students -> Submission \cup {None}]]
        /\ listed' \in [Homeworks -> [Students -> SUBSET (1..MaxAnswers)]]
    BY <2>2, <2>3 DEF ClassroomInv, ClassroomTypeOK
  <2>5. /\ \A s \in Students : submission'[h][s] = None /\ listed'[h][s] = {}
        /\ \A k \in Homeworks \ {h} :
             homework'[k] = homework[k] /\ submission'[k] = submission[k] /\ listed'[k] = listed[k]
    BY <2>3 DEF ClassroomInv, ClassroomTypeOK
  <2>6. ASSUME NEW k \in Homeworks, NEW s \in Students
        PROVE  /\ submission'[k][s] # None => homework'[k].status = "kept" /\ Placed(s)'
               /\ RowInv(submission'[k][s], listed'[k][s])
    <3>1. CASE k = h
      BY <2>5, <3>1 DEF RowInv
    <3>2. CASE k # h
      BY <1>1, <2>5, <3>2 DEF ClassroomInv, Placed
    <3> QED BY <3>1, <3>2
  <2> QED BY <1>1, <2>4, <2>6 DEF ClassroomInv, ClassroomTypeOK
<1> QED BY <1>2, <1>3

LEMMA AttendanceKeeps ==
  ASSUME ClassroomInv, AttendanceController
  PROVE  ClassroomInv' /\ AtOnce
<1>1. PICK user \in Staff : BulkSubmit(user) \/ \E s \in Students, day \in Days : UpdateRecord(user, s, day)
  BY DEF AttendanceController
<1>2. AtOnce /\ UNCHANGED <<homework, submission, listed, leave, student>>
  BY <1>1 DEF BulkSubmit, UpdateRecord, schoolTables, structureTables
<1>3. attendance' \in [Students -> [Days -> AttendanceRecord \cup {None}]]
  <2>1. CASE BulkSubmit(user)
    <3>1. PICK dto \in BulkAttendanceDto, marked \in SUBSET Students \ {{}} :
            \E status \in [marked -> AttendanceStatus] :
              attendance' = [s \in Students |->
                IF s \in marked
                THEN [attendance[s] EXCEPT ![dto.day] =
                       [class |-> dto.class, section |-> dto.section, status |-> status[s], by |-> user]]
                ELSE attendance[s]]
      BY <2>1 DEF BulkSubmit
    <3>2. PICK status \in [marked -> AttendanceStatus] :
              attendance' = [s \in Students |->
                IF s \in marked
                THEN [attendance[s] EXCEPT ![dto.day] =
                       [class |-> dto.class, section |-> dto.section, status |-> status[s], by |-> user]]
                ELSE attendance[s]]
      BY <3>1
    <3>3. \A s \in marked :
            [class |-> dto.class, section |-> dto.section, status |-> status[s], by |-> user]
              \in AttendanceRecord
      BY DEF BulkAttendanceDto, AttendanceRecord
    <3> QED BY <3>2, <3>3 DEF ClassroomInv, ClassroomTypeOK
  <2>2. ASSUME NEW s \in Students, NEW day \in Days, UpdateRecord(user, s, day)
        PROVE  attendance' \in [Students -> [Days -> AttendanceRecord \cup {None}]]
    <3>1. PICK status \in AttendanceStatus :
            attendance' = [attendance EXCEPT ![s][day].status = status, ![s][day].by = user]
      BY <2>2 DEF UpdateRecord
    <3>2. PICK old \in AttendanceRecord : old = attendance[s][day]
      BY <2>2 DEF UpdateRecord, ClassroomInv, ClassroomTypeOK
    <3>3. PICK new : new = [old EXCEPT !.status = status, !.by = user]
      OBVIOUS
    <3>4. new \in AttendanceRecord
      BY <3>3 DEF AttendanceRecord
    <3>5. attendance' = [attendance EXCEPT ![s] = [attendance[s] EXCEPT ![day] = new]]
      BY <3>1, <3>2, <3>3 DEF ClassroomInv, ClassroomTypeOK
    <3> QED BY <3>4, <3>5 DEF ClassroomInv, ClassroomTypeOK
  <2> QED BY <1>1, <2>1, <2>2
<1> QED BY <1>2, <1>3 DEF ClassroomInv, ClassroomTypeOK, Placed

LEMMA LeaveKeeps ==
  ASSUME ClassroomInv, LeaveController
  PROVE  ClassroomInv' /\ AtOnce
<1>1. PICK v \in Leaves : ReviewLeave(v) \/ \E who \in Staff \cup Parents : SubmitLeave(who, v)
  BY DEF LeaveController
<1>2. AtOnce /\ UNCHANGED <<homework, submission, listed, attendance, student>>
  BY <1>1 DEF ReviewLeave, SubmitLeave, schoolTables, structureTables
<1>3. leave' \in [Leaves -> LeaveRequest \cup {None}]
  <2>1. CASE ReviewLeave(v)
    <3>1. PICK status \in Review : leave' = [leave EXCEPT ![v].status = status]
      BY <2>1 DEF ReviewLeave
    <3>2. leave[v] \in LeaveRequest
      BY <2>1 DEF ReviewLeave, ClassroomInv, ClassroomTypeOK
    <3>3. [leave[v] EXCEPT !.status = status] \in LeaveRequest
      BY <3>2 DEF LeaveRequest
    <3> QED BY <3>1, <3>3 DEF ClassroomInv, ClassroomTypeOK
  <2>2. ASSUME NEW who \in Staff \cup Parents, SubmitLeave(who, v)
        PROVE  leave' \in [Leaves -> LeaveRequest \cup {None}]
    <3>1. PICK dto \in SubmitLeaveDto :
            leave' = [leave EXCEPT ![v] = [status |-> "pending", student |-> dto.student]]
      BY <2>2 DEF SubmitLeave
    <3>2. [status |-> "pending", student |-> dto.student] \in LeaveRequest
      BY DEF SubmitLeaveDto, LeaveRequest
    <3> QED BY <3>1, <3>2 DEF ClassroomInv, ClassroomTypeOK
  <2> QED BY <1>1, <2>1, <2>2
<1> QED BY <1>2, <1>3 DEF ClassroomInv, ClassroomTypeOK, Placed

LEMMA ClassroomKeeps ==
  ASSUME ClassroomInv, HomeworkController \/ AttendanceController \/ LeaveController
  PROVE  ClassroomInv' /\ AtOnce
<1>1. CASE HomeworkController
  <2>1. PICK h \in Homeworks : \/ CreateHomework(h) \/ UpdateHomework(h) \/ RemoveHomework(h)
                               \/ ListSubmissions(h)
                               \/ \E s \in Students : Submit(h, s) \/ GradeSubmission(h, s)
    BY <1>1 DEF HomeworkController
  <2>2. AtOnce
    BY <2>1 DEF CreateHomework, UpdateHomework, RemoveHomework, ListSubmissions, Submit, GradeSubmission
  <2> QED BY <2>1, <2>2, HomeworkRowsKeep, ListKeeps, SubmitKeeps, GradeKeeps
<1> QED BY <1>1, AttendanceKeeps, LeaveKeeps

LEMMA ClassroomLosesStudent ==
  ASSUME ClassroomInv, SchoolTypeOK, NEW s \in Students, RemoveStudent(s), RecordsGo(s)
  PROVE  ClassroomInv'
<1>1. \A t \in Students \ {s} : Placed(t) => Placed(t)'
  BY DEF RemoveStudent, Placed, SchoolTypeOK, StudentRow
<1>2. /\ submission' \in [Homeworks -> [Students -> Submission \cup {None}]]
      /\ listed' \in [Homeworks -> [Students -> SUBSET (1..MaxAnswers)]]
      /\ \A h \in Homeworks : submission'[h][s] = None /\ listed'[h][s] = {}
      /\ \A h \in Homeworks, t \in Students \ {s} :
           submission'[h][t] = submission[h][t] /\ listed'[h][t] = listed[h][t]
  BY DEF RecordsGo, ClassroomInv, ClassroomTypeOK
<1>3. attendance' \in [Students -> [Days -> AttendanceRecord \cup {None}]]
  BY DEF RecordsGo, ClassroomInv, ClassroomTypeOK
<1>4. leave' \in [Leaves -> LeaveRequest \cup {None}] /\ UNCHANGED homework
  BY DEF RecordsGo, ClassroomInv, ClassroomTypeOK
<1>5. ASSUME NEW h \in Homeworks, NEW t \in Students
      PROVE  /\ submission'[h][t] # None => homework'[h].status = "kept" /\ Placed(t)'
             /\ RowInv(submission'[h][t], listed'[h][t])
  <2>1. CASE t = s
    BY <1>2, <2>1 DEF RowInv
  <2>2. CASE t # s
    BY <1>1, <1>2, <1>4, <2>2 DEF ClassroomInv
  <2> QED BY <2>1, <2>2
<1> QED BY <1>2, <1>3, <1>4, <1>5 DEF ClassroomInv, ClassroomTypeOK

-----------------------------------------------------------------------------
(* Communication                                                            *)

CommunicationReqs ==
  [op : {"Book"}, user : Linked, dto : PtmBookDto]
  \cup [op : {"Cancel"}, slot : MeetingSlots]
  \cup [op : {"Notify"}, recipients : SUBSET Linked]

ThreadRow == [messages : Seq(Linked),
              lastReadAt : UNION {[who -> (1..MaxMessages) \cup {None}] : who \in SUBSET Linked}]

\* One at a time, nobody has booked the slot between the look at it and the write.
StillFree ==
  ~overlap => \A r \in Requests : req[r].op = "Book" =>
    (slot[req[r].dto.slot].status = "kept" => slot[req[r].dto.slot].by = None)

\* Slots are of teachers who have an account.
CommunicationInv ==
  /\ CommunicationTypeOK /\ Known(CommunicationOps, CommunicationReqs)
  /\ thread \in [Threads -> ThreadRow \cup {None}]
  /\ \A p \in MeetingSlots : slot[p].status = "kept" => slot[p].teacher \in Teachers \cap Linked
  /\ StillFree

\* What a step may do to a slot that is booked.
SlotsStand ==
  \A p \in MeetingSlots :
    ~overlap /\ slot[p].by # None =>
      \/ slot'[p].by = None
      \/ slot'[p].by = slot[p].by /\ slot'[p].student = slot[p].student

LEMMA CommunicationReqOp == \A q \in CommunicationReqs : q.op \in CommunicationOps /\ q.op # "idle"
BY DEF CommunicationReqs, CommunicationOps

LEMMA CommunicationInitOK == CommunicationInit /\ HandlersInit => CommunicationInv
<1> SUFFICES ASSUME CommunicationInit, HandlersInit PROVE CommunicationInv
  OBVIOUS
<1>1. \A r \in Requests : req[r].op = "idle"
  BY DEF HandlersInit, Idle
<1>2. NoSlot \in PtmSlot /\ NoSlot.status = "none"
  BY DEF NoSlot, PtmSlot, RowStatus
<1>3. CommunicationTypeOK
  BY <1>2, CommunicationAssumption DEF CommunicationInit, CommunicationTypeOK
<1> QED BY <1>1, <1>2, <1>3 DEF CommunicationInit, CommunicationInv, Known, CommunicationOps, StillFree

LEMMA CommunicationElsewhere ==
  ASSUME CommunicationInv, UNCHANGED <<communicationTables, teacher>>, Keeps(CommunicationOps)
  PROVE  CommunicationInv' /\ SlotsStand
<1>1. Known(CommunicationOps, CommunicationReqs)'
  BY KeepsKnown DEF CommunicationInv
<1>2. StillFree'
  BY DEF CommunicationInv, StillFree, Keeps, communicationTables, CommunicationOps
<1> QED BY <1>1, <1>2 DEF CommunicationInv, CommunicationTypeOK, communicationTables, SlotsStand

\* The tables but the slots.
MessagesOK ==
  /\ \A h \in Threads : thread[h] # None =>
       /\ thread[h].messages \in Seq(Linked) /\ Len(thread[h].messages) \in 1..MaxMessages
       /\ \A u \in DOMAIN thread[h].lastReadAt :
            u \in Linked /\ thread[h].lastReadAt[u] \in (1..MaxMessages) \cup {None}
  /\ thread \in [Threads -> ThreadRow \cup {None}]
  /\ unread \in [Linked -> 0..MaxUnread] /\ preferences \subseteq Linked
  /\ post \in [Posts -> (SUBSET Classes) \cup {None}]

SlotsOK ==
  /\ slot \in [MeetingSlots -> PtmSlot]
  /\ \A p \in MeetingSlots : slot[p].status = "kept" =>
       slot[p].teacher \in Teachers \cap Linked /\ teacher[slot[p].teacher] = "kept"

LEMMA CommunicationParts ==
  CommunicationInv <=> MessagesOK /\ SlotsOK /\ Known(CommunicationOps, CommunicationReqs) /\ StillFree
BY DEF CommunicationInv, MessagesOK, SlotsOK, CommunicationTypeOK

LEMMA ThreadsTyped ==
  ASSUME MessagesOK, NEW h \in Threads, NEW row \in ThreadRow, Len(row.messages) \in 1..MaxMessages,
         thread' = [thread EXCEPT ![h] = row], UNCHANGED <<unread, preferences, post>>
  PROVE  MessagesOK'
<1>1. row.messages \in Seq(Linked) /\ \A u \in DOMAIN row.lastReadAt :
        u \in Linked /\ row.lastReadAt[u] \in (1..MaxMessages) \cup {None}
  BY DEF ThreadRow
<1>2. thread' \in [Threads -> ThreadRow \cup {None}]
  BY DEF MessagesOK
<1>3. thread'[h] = row /\ \A k \in Threads \ {h} : thread'[k] = thread[k]
  BY DEF MessagesOK
<1> QED BY <1>1, <1>2, <1>3 DEF MessagesOK

LEMMA SlotTyped ==
  ASSUME SlotsOK, NEW p \in MeetingSlots, NEW row \in PtmSlot, slot' = [slot EXCEPT ![p] = row],
         row.status = "kept" => row.teacher \in Teachers \cap Linked /\ teacher[row.teacher] = "kept",
         UNCHANGED teacher
  PROVE  SlotsOK' /\ slot'[p] = row /\ \A z \in MeetingSlots \ {p} : slot'[z] = slot[z]
<1>1. slot' \in [MeetingSlots -> PtmSlot] /\ slot'[p] = row
      /\ \A z \in MeetingSlots \ {p} : slot'[z] = slot[z]
  BY DEF SlotsOK
<1> QED BY <1>1 DEF SlotsOK

\* Statements that leave the slots alone, and start no booking.
LEMMA SlotsElse ==
  ASSUME CommunicationInv, UNCHANGED <<slot, teacher>>, Steps(CommunicationReqs), InFlightOK,
         \A r \in Requests : req'[r].op = "Book" => req'[r] = req[r]
  PROVE  SlotsOK' /\ StillFree' /\ SlotsStand
<1>1. UNCHANGED overlap
  BY DEF Steps
<1>2. StillFree'
  BY <1>1 DEF CommunicationInv, StillFree
<1>3. SlotsOK
  BY CommunicationParts
<1> QED BY <1>2, <1>3 DEF SlotsOK, SlotsStand

NotifyReq(recipients) == [op |-> "Notify", recipients |-> recipients]

LEMMA NotifyTyped ==
  ASSUME NEW recipients \in SUBSET Linked
  PROVE  NotifyReq(recipients) \in CommunicationReqs /\ NotifyReq(recipients).op = "Notify"
BY DEF NotifyReq, CommunicationReqs

LEMMA NotifyOneKeeps ==
  ASSUME CommunicationInv, InFlightOK, NEW r \in Requests, NotifyOne(r)
  PROVE  Steps(CommunicationReqs) /\ MessagesOK' /\ SlotsOK' /\ StillFree' /\ SlotsStand
<1>1. req[r] \in CommunicationReqs /\ req[r].op = "Notify"
  BY DEF NotifyOne, At, CommunicationInv, Known, CommunicationOps
<1>2. PICK recipients \in SUBSET Linked : recipients = req[r].recipients
  BY <1>1 DEF CommunicationReqs
<1>3. PICK u \in recipients :
        /\ unread[u] < MaxUnread /\ unread' = [unread EXCEPT ![u] = @ + 1]
        /\ IF recipients = {u} THEN Ends(r) ELSE Goes(r, NotifyReq(recipients \ {u}))
  BY <1>2 DEF NotifyOne, NotifyReq
<1>4. UNCHANGED <<slot, thread, preferences, post, teacher>>
  BY DEF NotifyOne, schoolTables, peopleTables
<1>5. NotifyReq(recipients \ {u}) \in CommunicationReqs /\ NotifyReq(recipients \ {u}).op = "Notify"
  BY NotifyTyped
<1>6. Steps(CommunicationReqs)
  BY <1>1, <1>3, <1>5, EndSteps, GoSteps DEF InFlightOK
<1>7. \A x \in Requests : req'[x].op = "Book" => req'[x] = req[x]
  <2>1. req'[r].op # "Book" /\ \A x \in Requests \ {r} : req'[x] = req[x]
    BY <1>3, <1>5 DEF Ends, Goes, Idle, InFlightOK
  <2> QED BY <2>1
<1>8. unread' \in [Linked -> 0..MaxUnread]
  BY <1>3, CommunicationAssumption DEF CommunicationInv, CommunicationTypeOK
<1> QED BY <1>4, <1>6, <1>7, <1>8, SlotsElse, CommunicationParts DEF MessagesOK

LEMMA NotificationsKeep ==
  ASSUME CommunicationInv, InFlightOK, NotificationsController \/ PostsControllers
  PROVE  Steps(CommunicationReqs) /\ MessagesOK' /\ SlotsOK' /\ StillFree' /\ SlotsStand
<1>1. AtOnce /\ UNCHANGED <<slot, thread, teacher>>
  BY DEF NotificationsController, PostsControllers, MarkRead, MarkAllRead, UpdatePreferences, CreatePost,
         UpdatePost, RemovePost, schoolTables, peopleTables
<1>2. Steps(CommunicationReqs) /\ \A r \in Requests : req'[r].op = "Book" => req'[r] = req[r]
  BY <1>1, AtOnceSteps DEF AtOnce
<1>3. CASE NotificationsController
  <2>1. UNCHANGED post
    BY <1>3 DEF NotificationsController, MarkRead, MarkAllRead, UpdatePreferences
  <2>2. PICK u \in Linked : MarkRead(u) \/ MarkAllRead(u) \/ UpdatePreferences(u)
    BY <1>3 DEF NotificationsController
  <2>3. unread' \in [Linked -> 0..MaxUnread]
    BY <2>2, CommunicationAssumption
       DEF MarkRead, MarkAllRead, UpdatePreferences, CommunicationInv, CommunicationTypeOK
  <2>4. preferences' \subseteq Linked
    BY <2>2 DEF MarkRead, MarkAllRead, UpdatePreferences, CommunicationInv, CommunicationTypeOK
  <2> QED BY <1>1, <1>2, <2>1, <2>3, <2>4, SlotsElse, CommunicationParts DEF MessagesOK
<1>4. CASE PostsControllers
  <2>1. PICK q \in Posts : CreatePost(q) \/ UpdatePost(q) \/ RemovePost(q)
    BY <1>4 DEF PostsControllers
  <2>2. UNCHANGED <<unread, preferences>>
    BY <2>1 DEF CreatePost, UpdatePost, RemovePost
  <2>3. \A dto \in PostDto : dto.classes \in SUBSET Classes
    BY DEF PostDto
  <2>4. post' \in [Posts -> (SUBSET Classes) \cup {None}]
    BY <2>1, <2>3 DEF CreatePost, UpdatePost, RemovePost, SavePost, CommunicationInv, CommunicationTypeOK
  <2> QED BY <1>1, <1>2, <2>2, <2>4, SlotsElse, CommunicationParts DEF MessagesOK
<1> QED BY <1>3, <1>4

LEMMA MessagesKeep ==
  ASSUME CommunicationInv, InFlightOK, NEW u \in Linked, NEW h \in Threads,
         MarkThreadRead(u, h) \/ \E r \in Requests : CreateThread(r, u, h) \/ Reply(r, u, h)
  PROVE  Steps(CommunicationReqs) /\ MessagesOK' /\ SlotsOK' /\ StillFree' /\ SlotsStand
<1>1. UNCHANGED <<slot, unread, preferences, post, teacher>>
  BY DEF MarkThreadRead, CreateThread, Reply, schoolTables, peopleTables
<1>2. MessagesOK
  BY CommunicationParts
<1>3. ASSUME NEW r \in Requests, NEW recipients \in SUBSET Linked,
             Starts(r, NotifyReq(recipients))
      PROVE  Steps(CommunicationReqs) /\ \A x \in Requests : req'[x].op = "Book" => req'[x] = req[x]
  <2>1. Steps(CommunicationReqs)
    BY <1>3, NotifyTyped, StartSteps DEF InFlightOK
  <2>2. req'[r].op # "Book" /\ \A x \in Requests \ {r} : req'[x] = req[x]
    BY <1>3, NotifyTyped DEF Starts, InFlightOK
  <2> QED BY <2>1, <2>2
<1>4. CASE MarkThreadRead(u, h)
  <2>1. PICK old \in ThreadRow : old = thread[h]
    BY <1>2, <1>4 DEF MarkThreadRead, Participates, MessagesOK
  <2>2. PICK n : n = Len(old.messages)
    OBVIOUS
  <2>3. n \in 1..MaxMessages /\ u \in DOMAIN old.lastReadAt
    BY <1>2, <1>4, <2>1, <2>2 DEF MarkThreadRead, Participates, MessagesOK
  <2>4. PICK new : new = [old EXCEPT !.lastReadAt = [old.lastReadAt EXCEPT ![u] = n]]
    OBVIOUS
  <2>5. new \in ThreadRow /\ new.messages = old.messages
    BY <2>3, <2>4 DEF ThreadRow
  <2>6. thread' = [thread EXCEPT ![h] = new]
    BY <1>4, <2>1, <2>2, <2>4 DEF MarkThreadRead, MessagesOK
  <2>7. MessagesOK'
    BY <1>1, <1>2, <2>2, <2>3, <2>5, <2>6, ThreadsTyped
  <2>8. Steps(CommunicationReqs) /\ \A x \in Requests : req'[x].op = "Book" => req'[x] = req[x]
    BY <1>4, AtOnceSteps DEF MarkThreadRead, AtOnce
  <2> QED BY <1>1, <2>7, <2>8, SlotsElse
<1>5. ASSUME NEW r \in Requests, CreateThread(r, u, h)
      PROVE  Steps(CommunicationReqs) /\ MessagesOK' /\ SlotsOK' /\ StillFree' /\ SlotsStand
  <2>1. PICK dto \in NewThreadDto :
          LET others == Recipients(dto) \ {u}
          IN /\ dto.type = "class" => schoolClass[dto.to] = "kept"
             /\ others # {}
             /\ thread' = [thread EXCEPT ![h] = [messages |-> <<u>>,
                  lastReadAt |-> [v \in others \cup {u} |-> IF v = u THEN 1 ELSE None]]]
             /\ Starts(r, [op |-> "Notify", recipients |-> others])
    BY <1>5 DEF CreateThread
  <2>2. PICK others : others = Recipients(dto) \ {u}
    OBVIOUS
  <2>3. others \in SUBSET Linked
    BY <2>2 DEF Recipients
  <2>4. PICK new : new = [messages |-> <<u>>,
                          lastReadAt |-> [v \in others \cup {u} |-> IF v = u THEN 1 ELSE None]]
    OBVIOUS
  <2>5. thread' = [thread EXCEPT ![h] = new] /\ Starts(r, NotifyReq(others))
    BY <2>1, <2>2, <2>4 DEF NotifyReq
  <2>6. new \in ThreadRow /\ Len(new.messages) \in 1..MaxMessages
    <3>1. <<u>> \in Seq(Linked) /\ Len(<<u>>) = 1
      OBVIOUS
    <3>2. 1 \in 1..MaxMessages
      BY CommunicationAssumption
    <3>3. [v \in others \cup {u} |-> IF v = u THEN 1 ELSE None]
            \in [others \cup {u} -> (1..MaxMessages) \cup {None}]
      BY <3>2
    <3>4. others \cup {u} \in SUBSET Linked
      BY <2>3
    <3> QED BY <2>4, <3>1, <3>2, <3>3, <3>4 DEF ThreadRow
  <2>7. MessagesOK'
    BY <1>1, <1>2, <2>5, <2>6, ThreadsTyped
  <2> QED BY <1>1, <1>3, <2>3, <2>5, <2>7, SlotsElse
<1>6. ASSUME NEW r \in Requests, Reply(r, u, h)
      PROVE  Steps(CommunicationReqs) /\ MessagesOK' /\ SlotsOK' /\ StillFree' /\ SlotsStand
  <2>1. PICK old \in ThreadRow : old = thread[h]
    BY <1>2, <1>6 DEF Reply, Participates, MessagesOK
  <2>2. PICK n : n = Len(old.messages)
    OBVIOUS
  <2>3. /\ n \in 1..MaxMessages /\ n < MaxMessages /\ old.messages \in Seq(Linked)
        /\ u \in DOMAIN old.lastReadAt /\ DOMAIN old.lastReadAt \in SUBSET Linked
    BY <1>2, <1>6, <2>1, <2>2 DEF Reply, Participates, MessagesOK
  <2>4. PICK all \in Seq(Linked), reads \in [DOMAIN old.lastReadAt -> (1..MaxMessages) \cup {None}] :
          all = Append(old.messages, u) /\ reads = [old.lastReadAt EXCEPT ![u] = n + 1]
    <3>1. Append(old.messages, u) \in Seq(Linked)
      BY <2>3
    <3>2. n + 1 \in 1..MaxMessages
      BY <2>3, CommunicationAssumption
    <3>3. old.lastReadAt \in [DOMAIN old.lastReadAt -> (1..MaxMessages) \cup {None}]
      BY DEF ThreadRow
    <3>4. [old.lastReadAt EXCEPT ![u] = n + 1] \in [DOMAIN old.lastReadAt -> (1..MaxMessages) \cup {None}]
      BY <3>2, <3>3
    <3> QED BY <3>1, <3>4
  <2>5. PICK new : new = [messages |-> all, lastReadAt |-> reads]
    OBVIOUS
  <2>6. new \in ThreadRow /\ Len(new.messages) \in 1..MaxMessages
    <3>1. reads \in UNION {[who -> (1..MaxMessages) \cup {None}] : who \in SUBSET Linked}
      BY <2>3
    <3>2. new \in ThreadRow /\ new.messages = all
      BY <2>5, <3>1 DEF ThreadRow
    <3>3. Len(all) = n + 1
      BY <2>2, <2>3, <2>4
    <3> QED BY <2>3, <3>2, <3>3, CommunicationAssumption
  <2>7. thread' = [thread EXCEPT ![h] = new]
    BY <1>6, <2>1, <2>2, <2>4, <2>5 DEF Reply
  <2>8. MessagesOK'
    BY <1>1, <1>2, <2>6, <2>7, ThreadsTyped
  <2>9. Starts(r, NotifyReq(DOMAIN old.lastReadAt \ {u}))
    BY <1>6, <2>1 DEF Reply, NotifyReq
  <2> QED BY <1>1, <1>3, <2>3, <2>8, <2>9, SlotsElse
<1> QED BY <1>4, <1>5, <1>6

\* One at a time, a request at Book is the only one.
LEMMA SlotsAtOnce ==
  ASSUME AtOnce
  PROVE  Steps(CommunicationReqs) /\ StillFree'
BY AtOnceSteps DEF AtOnce, MayStart, StillFree

LEMMA SlotRowsKeep ==
  ASSUME CommunicationInv, InFlightOK, NEW p \in MeetingSlots, CreateSlot(p) \/ DeleteSlot(p) \/ UpdateNotes(p)
  PROVE  Steps(CommunicationReqs) /\ MessagesOK' /\ SlotsOK' /\ StillFree' /\ SlotsStand
<1>1. AtOnce /\ UNCHANGED <<thread, unread, preferences, post, teacher>>
  BY DEF CreateSlot, DeleteSlot, UpdateNotes, schoolTables, peopleTables
<1>2. SlotsOK /\ MessagesOK
  BY CommunicationParts
<1>3. NoSlot \in PtmSlot /\ NoSlot.by = None
  BY DEF NoSlot, PtmSlot, RowStatus
<1>4. PICK row \in PtmSlot :
        /\ slot' = [slot EXCEPT ![p] = row]
        /\ row.status = "kept" => row.teacher \in Teachers \cap Linked /\ teacher[row.teacher] = "kept"
        /\ row.by = None \/ (row.by = slot[p].by /\ row.student = slot[p].student)
  <2>1. CASE CreateSlot(p)
    <3>1. PICK t \in Teachers \cap Linked :
            /\ teacher[t] = "kept"
            /\ slot' = [slot EXCEPT ![p] = [NoSlot EXCEPT !.status = "kept", !.teacher = t]]
      BY <2>1 DEF CreateSlot
    <3>2. PICK row : row = [NoSlot EXCEPT !.status = "kept", !.teacher = t]
      OBVIOUS
    <3>3. row \in PtmSlot /\ row.by = None /\ row.teacher = t
      BY <1>3, <3>2 DEF PtmSlot, RowStatus
    <3> QED BY <3>1, <3>2, <3>3
  <2>2. CASE DeleteSlot(p)
    <3>1. PICK row : row = [NoSlot EXCEPT !.status = "deleted"]
      OBVIOUS
    <3>2. row \in PtmSlot /\ row.by = None /\ row.status = "deleted"
      BY <1>3, <3>1 DEF PtmSlot, RowStatus
    <3> QED BY <2>2, <3>1, <3>2 DEF DeleteSlot
  <2>3. CASE UpdateNotes(p)
    <3>1. PICK old \in PtmSlot : old = slot[p]
      BY <1>2 DEF SlotsOK
    <3>2. PICK row : row = [old EXCEPT !.notes = TRUE]
      OBVIOUS
    <3>3. /\ row \in PtmSlot /\ row.by = old.by /\ row.student = old.student
          /\ row.teacher = old.teacher /\ row.status = old.status
      BY <3>2 DEF PtmSlot
    <3>4. slot' = [slot EXCEPT ![p] = row]
      BY <2>3, <3>1, <3>2 DEF UpdateNotes
    <3> QED BY <1>2, <3>1, <3>3, <3>4 DEF SlotsOK
  <2> QED BY <2>1, <2>2, <2>3
<1>5. SlotsOK' /\ slot'[p] = row /\ \A z \in MeetingSlots \ {p} : slot'[z] = slot[z]
  BY <1>1, <1>2, <1>4, SlotTyped
<1>6. SlotsStand
  BY <1>4, <1>5 DEF SlotsStand
<1>7. MessagesOK'
  BY <1>1, <1>2 DEF MessagesOK
<1> QED BY <1>1, <1>5, <1>6, <1>7, SlotsAtOnce

LEMMA MeetingReadsKeep ==
  ASSUME CommunicationInv, InFlightOK, NEW r \in Requests, NEW u \in Linked, BookRead(r, u) \/ CancelRead(r, u)
  PROVE  Steps(CommunicationReqs) /\ MessagesOK' /\ SlotsOK' /\ StillFree' /\ SlotsStand
<1>1. UNCHANGED <<slot, thread, unread, preferences, post, teacher>>
  BY DEF BookRead, CancelRead, communicationTables, schoolTables, peopleTables
<1>2. CASE BookRead(r, u)
  <2>1. PICK dto \in PtmBookDto :
          /\ slot[dto.slot].status = "kept" /\ slot[dto.slot].by = None
          /\ Starts(r, [op |-> "Book", user |-> u, dto |-> dto])
    BY <1>2 DEF BookRead
  <2>2. PICK q : q = [op |-> "Book", user |-> u, dto |-> dto]
    OBVIOUS
  <2>3. q \in CommunicationReqs /\ q.op = "Book" /\ q.dto = dto
    BY <2>2 DEF CommunicationReqs
  <2>4. Steps(CommunicationReqs)
    BY <2>1, <2>2, <2>3, StartSteps DEF InFlightOK
  <2>5. /\ req'[r] = q /\ \A x \in Requests \ {r} : req'[x] = req[x]
        /\ UNCHANGED overlap
    BY <2>1, <2>2 DEF Starts, InFlightOK
  <2>6. StillFree'
    BY <1>1, <2>1, <2>3, <2>5 DEF CommunicationInv, StillFree
  <2> QED BY <1>1, <2>4, <2>6, CommunicationParts DEF MessagesOK, SlotsOK, SlotsStand
<1>3. CASE CancelRead(r, u)
  <2>1. PICK p \in MeetingSlots : Starts(r, [op |-> "Cancel", slot |-> p])
    BY <1>3 DEF CancelRead
  <2>2. PICK q : q = [op |-> "Cancel", slot |-> p]
    OBVIOUS
  <2>3. q \in CommunicationReqs /\ q.op = "Cancel"
    BY <2>2 DEF CommunicationReqs
  <2>4. Steps(CommunicationReqs)
    BY <2>1, <2>2, <2>3, StartSteps DEF InFlightOK
  <2>5. req'[r] = q /\ \A x \in Requests \ {r} : req'[x] = req[x]
    BY <2>1, <2>2 DEF Starts, InFlightOK
  <2>6. \A x \in Requests : req'[x].op = "Book" => req'[x] = req[x]
    BY <2>3, <2>5
  <2> QED BY <1>1, <2>4, <2>6, SlotsElse, CommunicationParts DEF MessagesOK
<1> QED BY <1>2, <1>3

LEMMA BookWriteKeeps ==
  ASSUME CommunicationInv, InFlightOK, NEW r \in Requests, BookWrite(r)
  PROVE  Steps(CommunicationReqs) /\ MessagesOK' /\ SlotsOK' /\ StillFree' /\ SlotsStand
<1>1. req[r] \in CommunicationReqs /\ req[r].op = "Book"
  BY DEF BookWrite, At, CommunicationInv, Known, CommunicationOps
<1>2. PICK u \in Linked, p \in MeetingSlots, s \in Students :
        u = req[r].user /\ p = req[r].dto.slot /\ s = req[r].dto.student
  BY <1>1 DEF CommunicationReqs, PtmBookDto
<1>3. UNCHANGED <<thread, unread, preferences, post, teacher>> /\ slot[p].status = "kept"
  BY <1>2 DEF BookWrite, schoolTables, peopleTables
<1>4. SlotsOK /\ MessagesOK
  BY CommunicationParts
<1>5. PICK old \in PtmSlot : old = slot[p]
  BY <1>4 DEF SlotsOK
<1>6. PICK row : row = [old EXCEPT !.by = u, !.student = s]
  OBVIOUS
<1>7. row \in PtmSlot /\ row.status = old.status /\ row.teacher = old.teacher
  BY <1>6 DEF PtmSlot
<1>8. slot' = [slot EXCEPT ![p] = row]
  BY <1>2, <1>4, <1>5, <1>6 DEF BookWrite, SlotsOK
<1>9. SlotsOK' /\ slot'[p] = row /\ \A z \in MeetingSlots \ {p} : slot'[z] = slot[z]
  BY <1>3, <1>4, <1>5, <1>7, <1>8, SlotTyped DEF SlotsOK
<1>10. PICK recipients : recipients = {old.teacher}
  OBVIOUS
<1>11. recipients \in SUBSET Linked /\ recipients # {}
  BY <1>3, <1>4, <1>5, <1>10 DEF SlotsOK
<1>12. Goes(r, NotifyReq(recipients))
  BY <1>2, <1>5, <1>10, <1>11 DEF BookWrite, NotifyOrEnd, NotifyReq
<1>13. NotifyReq(recipients) \in CommunicationReqs /\ NotifyReq(recipients).op = "Notify"
  BY <1>11, NotifyTyped
<1>14. Steps(CommunicationReqs)
  BY <1>1, <1>12, <1>13, GoSteps DEF InFlightOK
<1>15. /\ req'[r].op # "Book" /\ \A x \in Requests \ {r} : req'[x] = req[x]
       /\ UNCHANGED overlap
  BY <1>12, <1>13 DEF Goes, InFlightOK
<1>16. ~overlap => \A x \in Requests : req'[x].op # "Book"
  BY <1>1, <1>15 DEF InFlightOK, OneAtATime
<1>17. StillFree'
  BY <1>15, <1>16 DEF StillFree
<1>18. ~overlap => slot[p].by = None
  BY <1>1, <1>2, <1>3 DEF CommunicationInv, StillFree
<1>19. SlotsStand
  BY <1>9, <1>18 DEF SlotsStand
<1>20. MessagesOK'
  BY <1>3, <1>4 DEF MessagesOK
<1> QED BY <1>9, <1>14, <1>17, <1>19, <1>20

LEMMA CancelWriteKeeps ==
  ASSUME CommunicationInv, InFlightOK, NEW r \in Requests, CancelWrite(r)
  PROVE  Steps(CommunicationReqs) /\ MessagesOK' /\ SlotsOK' /\ StillFree' /\ SlotsStand
<1>1. req[r] \in CommunicationReqs /\ req[r].op = "Cancel"
  BY DEF CancelWrite, At, CommunicationInv, Known, CommunicationOps
<1>2. PICK p \in MeetingSlots : p = req[r].slot
  BY <1>1 DEF CommunicationReqs
<1>3. UNCHANGED <<thread, unread, preferences, post, teacher>>
  BY DEF CancelWrite, schoolTables, peopleTables
<1>4. SlotsOK /\ MessagesOK
  BY CommunicationParts
<1>5. PICK old \in PtmSlot : old = slot[p]
  BY <1>4 DEF SlotsOK
<1>6. PICK row : row = [old EXCEPT !.by = None, !.student = None, !.notes = FALSE]
  OBVIOUS
<1>7. row \in PtmSlot /\ row.by = None /\ row.status = old.status /\ row.teacher = old.teacher
  BY <1>6 DEF PtmSlot
<1>8. slot' = [slot EXCEPT ![p] = row]
  BY <1>2, <1>4, <1>5, <1>6 DEF CancelWrite, SlotsOK
<1>9. SlotsOK' /\ slot'[p] = row /\ \A z \in MeetingSlots \ {p} : slot'[z] = slot[z]
  BY <1>3, <1>4, <1>5, <1>7, <1>8, SlotTyped DEF SlotsOK
<1>10. Steps(CommunicationReqs)
  BY <1>1, EndSteps DEF CancelWrite, InFlightOK
<1>11. /\ req'[r].op = "idle" /\ \A x \in Requests \ {r} : req'[x] = req[x]
       /\ UNCHANGED overlap
  BY DEF CancelWrite, Ends, Idle, InFlightOK
<1>12. ~overlap => \A x \in Requests : req'[x].op # "Book"
  BY <1>1, <1>11 DEF InFlightOK, OneAtATime
<1>13. StillFree'
  BY <1>11, <1>12 DEF StillFree
<1>14. SlotsStand
  BY <1>7, <1>9 DEF SlotsStand
<1>15. MessagesOK'
  BY <1>3, <1>4 DEF MessagesOK
<1> QED BY <1>9, <1>10, <1>13, <1>14, <1>15

\* The slots go with their teacher.
LEMMA TeacherLeaves ==
  ASSUME CommunicationInv, InFlightOK, SchoolTypeOK, NEW t \in Teachers, RemoveTeacherWithSlots(t)
  PROVE  Steps(CommunicationReqs) /\ MessagesOK' /\ SlotsOK' /\ StillFree' /\ SlotsStand
<1>1. AtOnce /\ UNCHANGED <<thread, unread, preferences, post>>
  BY DEF RemoveTeacherWithSlots, RemoveTeacher
<1>2. SlotsOK /\ MessagesOK
  BY CommunicationParts
<1>3. PICK gone : gone = [NoSlot EXCEPT !.status = "deleted"]
  OBVIOUS
<1>4. gone \in PtmSlot /\ gone.status = "deleted" /\ gone.by = None
  BY <1>3 DEF NoSlot, PtmSlot, RowStatus
<1>5. slot' = [p \in MeetingSlots |-> IF slot[p].teacher = t THEN gone ELSE slot[p]]
  BY <1>3 DEF RemoveTeacherWithSlots
<1>6. slot' \in [MeetingSlots -> PtmSlot]
  BY <1>2, <1>4, <1>5 DEF SlotsOK
<1>7. \A p \in MeetingSlots : slot'[p] = gone \/ (slot[p].teacher # t /\ slot'[p] = slot[p])
  BY <1>5
<1>8. \A x \in Teachers \ {t} : teacher'[x] = teacher[x]
  BY DEF RemoveTeacherWithSlots, RemoveTeacher, SchoolTypeOK
<1>9. SlotsOK'
  BY <1>2, <1>4, <1>6, <1>7, <1>8 DEF SlotsOK
<1>10. SlotsStand
  BY <1>4, <1>7 DEF SlotsStand
<1>11. MessagesOK'
  BY <1>1, <1>2 DEF MessagesOK
<1> QED BY <1>1, <1>9, <1>10, <1>11, SlotsAtOnce

LEMMA CommunicationDiesKeeps ==
  ASSUME CommunicationInv, InFlightOK, Moves(CommunicationOps), NEW r \in Requests, CommunicationDies(r)
  PROVE  Steps(CommunicationReqs) /\ MessagesOK' /\ SlotsOK' /\ StillFree' /\ SlotsStand
<1>1. Steps(CommunicationReqs)
  BY DiesSteps DEF CommunicationDies, InFlightOK, CommunicationInv, Known
<1>2. UNCHANGED <<slot, thread, unread, preferences, post, teacher>>
  BY DEF CommunicationDies, communicationTables, schoolTables, peopleTables
<1>3. \A x \in Requests : req'[x].op = "Book" => req'[x] = req[x]
  BY DEF CommunicationDies, Dies, Ends, Idle, InFlightOK
<1> QED BY <1>1, <1>2, <1>3, SlotsElse, CommunicationParts DEF MessagesOK

LEMMA FamiliesKeep ==
  ASSUME CommunicationInv, InFlightOK, Families, UNCHANGED communicationTables
  PROVE  Steps(CommunicationReqs) /\ MessagesOK' /\ SlotsOK' /\ StillFree' /\ SlotsStand
<1>1. AtOnce /\ UNCHANGED teacher
  BY DEF Families, LinkChild, UnlinkChild
<1>2. UNCHANGED <<slot, thread, unread, preferences, post, teacher>>
  BY <1>1 DEF communicationTables
<1> QED BY <1>1, <1>2, SlotsAtOnce, CommunicationParts DEF MessagesOK, SlotsOK, SlotsStand

LEMMA CommunicationKeeps ==
  ASSUME CommunicationInv, InFlightOK, SchoolTypeOK, NEW d, CommunicationDesk(d)
  PROVE  CommunicationInv' /\ SlotsStand /\ Steps(CommunicationReqs)
<1>1. Moves(CommunicationOps)
  BY DEF CommunicationDesk
<1>2. Steps(CommunicationReqs) /\ MessagesOK' /\ SlotsOK' /\ StillFree' /\ SlotsStand
  <2>1. CASE PtmController
    BY <2>1, SlotRowsKeep, BookWriteKeeps, CancelWriteKeeps, NotifyOneKeeps, MeetingReadsKeep, TeacherLeaves
       DEF PtmController
  <2>2. CASE MessagesController
    BY <2>2, MessagesKeep, NotifyOneKeeps DEF MessagesController
  <2> QED BY <1>1, <2>1, <2>2, FamiliesKeep, NotificationsKeep, CommunicationDiesKeeps
             DEF CommunicationDesk
<1>3. "idle" \notin CommunicationOps
  BY DEF CommunicationOps
<1>4. Known(CommunicationOps, CommunicationReqs)'
  BY <1>2, <1>3, StepsKnown DEF CommunicationInv
<1>5. CommunicationInv' <=> MessagesOK' /\ SlotsOK' /\ Known(CommunicationOps, CommunicationReqs)' /\ StillFree'
  BY CommunicationParts, PTL
<1> QED BY <1>2, <1>4, <1>5

-----------------------------------------------------------------------------
(* Documents and certificates                                               *)

FileReqs ==
  [op : {"UploadInsert"}, row : DocumentIds, owner : Students \cup {None}]
  \cup [op : {"RemoveFile", "RemoveRow"}, row : DocumentIds]
  \cup [op : {"GenerateCertificate"}, row : CertificateIds, student : Students]

\* Files are stored for the rows that requests are to insert, one request to a row;
\* requests that remove were given a row that was there; no row is without a file
\* that was ever stored.
FilesBehindRequests ==
  /\ \A r \in Requests : req[r].op = "GenerateCertificate" => stored[req[r].row] = "kept"
  /\ \A r \in Requests : req[r].op = "UploadInsert" =>
       stored[req[r].row] = "kept" /\ document[req[r].row].status = "none"
  /\ \A r, q \in Requests : req[r].op = "UploadInsert" /\ req[q].op = "UploadInsert"
                              /\ req[r].row = req[q].row => r = q
  /\ \A r \in Requests : req[r].op \in {"RemoveFile", "RemoveRow"} =>
       document[req[r].row].status # "none"
  /\ \A d \in DocumentIds : stored[d] = "none" => document[d].status = "none"

FilesInv ==
  /\ DocumentsTypeOK /\ Known(FileOps, FileReqs)
  /\ FilesBehindRequests /\ LinksCanBeFollowed

LEMMA FileReqOp == \A q \in FileReqs : q.op \in FileOps /\ q.op # "idle"
BY DEF FileReqs, FileOps

LEMMA FilesInitOK == DocumentsInit /\ HandlersInit => FilesInv
<1> SUFFICES ASSUME DocumentsInit, HandlersInit PROVE FilesInv
  OBVIOUS
<1>1. \A r \in Requests : req[r].op = "idle"
  BY DEF HandlersInit, Idle
<1>2. DocumentsTypeOK
  BY DEF DocumentsInit, DocumentsTypeOK, Document, RowStatus
<1>3. FilesBehindRequests /\ Known(FileOps, FileReqs)
  BY <1>1 DEF DocumentsInit, FilesBehindRequests, Known, FileOps
<1>4. LinksCanBeFollowed
  BY DEF DocumentsInit, LinksCanBeFollowed, Verified
<1> QED BY <1>2, <1>3, <1>4 DEF FilesInv

\* Whoever leaves has no certificate.
LEMMA FilesElsewhere ==
  ASSUME FilesInv, UNCHANGED documentTables, Keeps(FileOps),
         \A c \in CertificateIds : Verified(c) /\ Placed(certificate[c]) => Placed(certificate[c])'
  PROVE  FilesInv'
<1>1. Known(FileOps, FileReqs)'
  BY KeepsKnown DEF FilesInv
<1>2. FilesBehindRequests'
  BY DEF FilesInv, FilesBehindRequests, Keeps, documentTables, FileOps
<1>3. \A d \in DocumentIds : Removing(d) => Removing(d)'
  BY DEF Removing, Keeps, At, FileOps
<1>4. LinksCanBeFollowed'
  BY <1>3 DEF FilesInv, LinksCanBeFollowed, documentTables, Verified
<1> QED BY <1>1, <1>2, <1>4 DEF FilesInv, DocumentsTypeOK, documentTables

LEMMA UploadStoreKeeps ==
  ASSUME FilesInv, InFlightOK, NEW r \in Requests, NEW d \in DocumentIds, UploadStore(r, d)
  PROVE  /\ Steps(FileReqs) /\ DocumentsTypeOK'
         /\ (Known(FileOps, FileReqs)' => FilesBehindRequests' /\ LinksCanBeFollowed')
<1>1. PICK dto \in UploadDto : Starts(r, [op |-> "UploadInsert", row |-> d, owner |-> dto.owner])
  BY DEF UploadStore
<1>2. PICK q : q = [op |-> "UploadInsert", row |-> d, owner |-> dto.owner]
  OBVIOUS
<1>3. q \in FileReqs /\ q.op = "UploadInsert" /\ q.row = d
  BY <1>2 DEF FileReqs, UploadDto
<1>4. Steps(FileReqs)
  BY <1>1, <1>2, <1>3, StartSteps DEF InFlightOK
<1>5. req'[r] = q /\ (\A x \in Requests \ {r} : req'[x] = req[x]) /\ req[r].op = "idle"
  BY <1>1, <1>2 DEF Starts, InFlightOK
<1>6. UNCHANGED <<document, certificate, broken, student>> /\ stored[d] = "none"
  BY DEF UploadStore, schoolTables, structureTables
<1>7. /\ stored' \in [DocumentIds \cup CertificateIds -> RowStatus] /\ stored'[d] = "kept"
      /\ \A f \in (DocumentIds \cup CertificateIds) \ {d} : stored'[f] = stored[f]
  BY DEF UploadStore, FilesInv, DocumentsTypeOK, RowStatus
<1>8. DocumentsTypeOK'
  BY <1>6, <1>7 DEF FilesInv, DocumentsTypeOK
<1>9. \A x \in Requests \ {r} : req[x].op \in FileOps => req[x] \in FileReqs
  BY DEF FilesInv, Known
<1>10. document[d].status = "none" /\ \A x \in Requests : req[x].op = "UploadInsert" => req[x].row # d
  BY <1>6 DEF FilesInv, FilesBehindRequests
<1>11. FilesBehindRequests'
  <2>1. \A x \in Requests : req'[x].op = "GenerateCertificate" => stored'[req'[x].row] = "kept"
    <3> TAKE x \in Requests
    <3> HAVE req'[x].op = "GenerateCertificate"
    <3>1. x # r /\ req'[x] = req[x] /\ stored[req[x].row] = "kept"
      BY <1>3, <1>5 DEF FilesInv, FilesBehindRequests
    <3>2. req[x].row \in CertificateIds
      BY <1>9, <3>1 DEF FileReqs, FileOps
    <3> QED BY <1>7, <3>1, <3>2
  <2>2. \A x \in Requests : req'[x].op = "UploadInsert" =>
          stored'[req'[x].row] = "kept" /\ document'[req'[x].row].status = "none"
    <3> TAKE x \in Requests
    <3> HAVE req'[x].op = "UploadInsert"
    <3>1. CASE x = r
      BY <1>3, <1>5, <1>6, <1>7, <1>10, <3>1
    <3>2. CASE x # r
      <4>1. /\ req'[x] = req[x] /\ stored[req[x].row] = "kept" /\ document[req[x].row].status = "none"
            /\ req[x].row # d
        BY <1>5, <1>10, <3>2 DEF FilesInv, FilesBehindRequests
      <4>2. req[x].row \in DocumentIds
        BY <1>9, <3>2, <4>1 DEF FileReqs, FileOps
      <4> QED BY <1>6, <1>7, <4>1, <4>2
    <3> QED BY <3>1, <3>2
  <2>3. \A x, z \in Requests : req'[x].op = "UploadInsert" /\ req'[z].op = "UploadInsert"
                                 /\ req'[x].row = req'[z].row => x = z
    BY <1>3, <1>5, <1>10 DEF FilesInv, FilesBehindRequests
  <2>4. \A x \in Requests : req'[x].op \in {"RemoveFile", "RemoveRow"} =>
          document'[req'[x].row].status # "none"
    BY <1>3, <1>5, <1>6 DEF FilesInv, FilesBehindRequests
  <2>5. \A x \in DocumentIds : stored'[x] = "none" => document'[x].status = "none"
    BY <1>6, <1>7 DEF FilesInv, FilesBehindRequests
  <2> QED BY <2>1, <2>2, <2>3, <2>4, <2>5 DEF FilesBehindRequests
<1>12. LinksCanBeFollowed'
  <2>1. \A c \in CertificateIds : c # d
    BY DocumentsAssumption
  <2>2. \A x \in DocumentIds : Removing(x) => Removing(x)'
    BY <1>5 DEF Removing, At
  <2>3. ASSUME NEW c \in CertificateIds, Verified(c)' PROVE stored'[c] = "kept" /\ Placed(certificate[c])'
    BY <1>6, <1>7, <2>1, <2>3 DEF FilesInv, LinksCanBeFollowed, Verified, Placed
  <2>4. ASSUME NEW x \in DocumentIds, document'[x].status = "kept"
        PROVE  stored'[x] = "kept" \/ Removing(x)' \/ x \in broken'
    BY <1>6, <1>7, <2>2, <2>4 DEF FilesInv, LinksCanBeFollowed
  <2> QED BY <2>3, <2>4 DEF LinksCanBeFollowed
<1> QED BY <1>4, <1>8, <1>11, <1>12

LEMMA GenerateStoreKeeps ==
  ASSUME FilesInv, InFlightOK, NEW r \in Requests, NEW c \in CertificateIds, GenerateStore(r, c)
  PROVE  /\ Steps(FileReqs) /\ DocumentsTypeOK'
         /\ (Known(FileOps, FileReqs)' => FilesBehindRequests' /\ LinksCanBeFollowed')
<1>1. PICK dto \in GenerateCertificateDto :
        Starts(r, [op |-> "GenerateCertificate", row |-> c, student |-> dto.student])
  BY DEF GenerateStore
<1>2. PICK q : q = [op |-> "GenerateCertificate", row |-> c, student |-> dto.student]
  OBVIOUS
<1>3. q \in FileReqs /\ q.op = "GenerateCertificate" /\ q.row = c
  BY <1>2 DEF FileReqs, GenerateCertificateDto
<1>4. Steps(FileReqs)
  BY <1>1, <1>2, <1>3, StartSteps DEF InFlightOK
<1>5. req'[r] = q /\ (\A x \in Requests \ {r} : req'[x] = req[x]) /\ req[r].op = "idle"
  BY <1>1, <1>2 DEF Starts, InFlightOK
<1>6. UNCHANGED <<document, certificate, broken, student>>
  BY DEF GenerateStore, schoolTables, structureTables
<1>7. /\ stored' \in [DocumentIds \cup CertificateIds -> RowStatus] /\ stored'[c] = "kept"
      /\ \A f \in (DocumentIds \cup CertificateIds) \ {c} : stored'[f] = stored[f]
  BY DEF GenerateStore, FilesInv, DocumentsTypeOK, RowStatus
<1>8. DocumentsTypeOK'
  BY <1>6, <1>7 DEF FilesInv, DocumentsTypeOK
<1>9. \A f \in DocumentIds \cup CertificateIds : stored[f] = "kept" => stored'[f] = "kept"
  BY <1>7
<1>10. \A x \in Requests \ {r} : req[x].op \in FileOps => req[x].row \in DocumentIds \cup CertificateIds
  BY DEF FilesInv, Known, FileReqs
<1>11. \A x \in DocumentIds : stored'[x] = stored[x]
  BY <1>7, DocumentsAssumption
<1>12. FilesBehindRequests'
  <2>1. \A x \in Requests : req'[x].op = "GenerateCertificate" => stored'[req'[x].row] = "kept"
    BY <1>3, <1>5, <1>7, <1>9, <1>10 DEF FilesInv, FilesBehindRequests, FileOps
  <2>2. \A x \in Requests : req'[x].op = "UploadInsert" =>
          stored'[req'[x].row] = "kept" /\ document'[req'[x].row].status = "none"
    BY <1>3, <1>5, <1>6, <1>9, <1>10 DEF FilesInv, FilesBehindRequests, FileOps
  <2>3. \A x, z \in Requests : req'[x].op = "UploadInsert" /\ req'[z].op = "UploadInsert"
                                 /\ req'[x].row = req'[z].row => x = z
    BY <1>3, <1>5 DEF FilesInv, FilesBehindRequests
  <2>4. \A x \in Requests : req'[x].op \in {"RemoveFile", "RemoveRow"} =>
          document'[req'[x].row].status # "none"
    BY <1>3, <1>5, <1>6 DEF FilesInv, FilesBehindRequests
  <2>5. \A x \in DocumentIds : stored'[x] = "none" => document'[x].status = "none"
    BY <1>6, <1>11 DEF FilesInv, FilesBehindRequests
  <2> QED BY <2>1, <2>2, <2>3, <2>4, <2>5 DEF FilesBehindRequests
<1>13. LinksCanBeFollowed'
  <2>1. \A x \in DocumentIds : Removing(x) => Removing(x)'
    BY <1>5 DEF Removing, At
  <2>2. ASSUME NEW k \in CertificateIds, Verified(k)' PROVE stored'[k] = "kept" /\ Placed(certificate[k])'
    BY <1>6, <1>9, <2>2 DEF FilesInv, LinksCanBeFollowed, Verified, Placed
  <2>3. ASSUME NEW x \in DocumentIds, document'[x].status = "kept"
        PROVE  stored'[x] = "kept" \/ Removing(x)' \/ x \in broken'
    BY <1>6, <1>11, <2>1, <2>3 DEF FilesInv, LinksCanBeFollowed
  <2> QED BY <2>2, <2>3 DEF LinksCanBeFollowed
<1> QED BY <1>4, <1>8, <1>12, <1>13

\* A handler that ends, or goes on to the next delete.
LEMMA FileRequestsMove ==
  ASSUME InFlightOK, NEW r \in Requests, NEW q, req' = [req EXCEPT ![r] = q],
         FilesBehindRequests, Known(FileOps, FileReqs),
         q = Idle \/ (q.op = "RemoveRow" /\ req[r].op = "RemoveFile" /\ q.row = req[r].row),
         \A d \in DocumentIds : document'[d].status = "none" <=> document[d].status = "none" /\
                                  ~(req[r].op = "UploadInsert" /\ d = req[r].row),
         \A c \in CertificateIds : stored'[c] = stored[c],
         \A d \in DocumentIds : stored'[d] = stored[d] \/ (stored'[d] = "deleted" /\ document[d].status # "none")
  PROVE  FilesBehindRequests'
<1>1. req'[r] = q /\ \A x \in Requests \ {r} : req'[x] = req[x]
  BY DEF InFlightOK
<1>2. Idle.op = "idle"
  BY DEF Idle
<1>3. \A x \in Requests : /\ req[x].op = "GenerateCertificate" => req[x].row \in CertificateIds
                          /\ req[x].op \in {"UploadInsert", "RemoveFile", "RemoveRow"} => req[x].row \in DocumentIds
  BY DEF Known, FileReqs, FileOps
<1>4. \A x \in Requests : req'[x].op = "GenerateCertificate" => stored'[req'[x].row] = "kept"
  BY <1>1, <1>2, <1>3 DEF FilesBehindRequests
<1>5. \A x \in Requests : req'[x].op = "UploadInsert" =>
        stored'[req'[x].row] = "kept" /\ document'[req'[x].row].status = "none"
  <2> TAKE x \in Requests
  <2> HAVE req'[x].op = "UploadInsert"
  <2>1. x # r /\ req'[x] = req[x]
    BY <1>1, <1>2
  <2>2. /\ req[x].row \in DocumentIds /\ stored[req[x].row] = "kept"
        /\ document[req[x].row].status = "none"
    BY <1>3, <2>1 DEF FilesBehindRequests
  <2>3. req[r].op = "UploadInsert" => req[r].row # req[x].row
    BY <2>1 DEF FilesBehindRequests
  <2> QED BY <2>1, <2>2, <2>3
<1>6. \A x, z \in Requests : req'[x].op = "UploadInsert" /\ req'[z].op = "UploadInsert"
                               /\ req'[x].row = req'[z].row => x = z
  BY <1>1, <1>2 DEF FilesBehindRequests
<1>7. \A x \in Requests : req'[x].op \in {"RemoveFile", "RemoveRow"} => document'[req'[x].row].status # "none"
  <2> TAKE x \in Requests
  <2> HAVE req'[x].op \in {"RemoveFile", "RemoveRow"}
  <2>1. req[x].op \in {"RemoveFile", "RemoveRow"} /\ req'[x].row = req[x].row
    BY <1>1, <1>2
  <2>2. req[x].row \in DocumentIds /\ document[req[x].row].status # "none"
    BY <1>3, <2>1 DEF FilesBehindRequests
  <2> QED BY <2>1, <2>2
<1>8. \A d \in DocumentIds : stored'[d] = "none" => document'[d].status = "none"
  <2> TAKE d \in DocumentIds
  <2> HAVE stored'[d] = "none"
  <2>1. stored[d] = "none" /\ document[d].status = "none"
    BY DEF FilesBehindRequests
  <2>2. ~(req[r].op = "UploadInsert" /\ d = req[r].row)
    BY <2>1 DEF FilesBehindRequests
  <2> QED BY <2>1, <2>2
<1> QED BY <1>4, <1>5, <1>6, <1>7, <1>8 DEF FilesBehindRequests

LEMMA UploadInsertKeeps ==
  ASSUME FilesInv, InFlightOK, NEW r \in Requests, UploadInsert(r)
  PROVE  Steps(FileReqs) /\ DocumentsTypeOK' /\ FilesBehindRequests' /\ LinksCanBeFollowed'
<1>1. req[r] \in FileReqs /\ req[r].op = "UploadInsert"
  BY DEF UploadInsert, At, FilesInv, Known, FileOps
<1>2. PICK d \in DocumentIds, owner \in Students \cup {None} : d = req[r].row /\ owner = req[r].owner
  BY <1>1 DEF FileReqs
<1>3. PICK row : row = [status |-> "kept", owner |-> owner]
  OBVIOUS
<1>4. row \in Document /\ row.status = "kept"
  BY <1>3 DEF Document, RowStatus
<1>5. document' = [document EXCEPT ![d] = row] /\ UNCHANGED <<certificate, stored, broken, student>>
  BY <1>2, <1>3 DEF UploadInsert, schoolTables, structureTables
<1>6. DocumentsTypeOK'
  BY <1>4, <1>5 DEF FilesInv, DocumentsTypeOK
<1>7. document'[d] = row /\ \A x \in DocumentIds \ {d} : document'[x] = document[x]
  BY <1>5 DEF FilesInv, DocumentsTypeOK
<1>8. Steps(FileReqs)
  BY <1>1, EndSteps DEF UploadInsert, InFlightOK
<1>9. stored[d] = "kept" /\ req' = [req EXCEPT ![r] = Idle]
  BY <1>1, <1>2 DEF UploadInsert, Ends, FilesInv, FilesBehindRequests
<1>10. FilesBehindRequests'
  BY <1>1, <1>2, <1>4, <1>5, <1>7, <1>9, FileRequestsMove DEF FilesInv
<1>11. \A x \in DocumentIds : Removing(x) => Removing(x)'
  BY <1>1, <1>9 DEF Removing, At, InFlightOK
<1>12. LinksCanBeFollowed'
  <2>1. ASSUME NEW c \in CertificateIds, Verified(c)' PROVE stored'[c] = "kept" /\ Placed(certificate[c])'
    BY <1>5, <2>1 DEF FilesInv, LinksCanBeFollowed, Verified, Placed
  <2>2. ASSUME NEW x \in DocumentIds, document'[x].status = "kept"
        PROVE  stored'[x] = "kept" \/ Removing(x)' \/ x \in broken'
    BY <1>5, <1>7, <1>9, <1>11, <2>2 DEF FilesInv, LinksCanBeFollowed
  <2> QED BY <2>1, <2>2 DEF LinksCanBeFollowed
<1> QED BY <1>6, <1>8, <1>10, <1>12

LEMMA UpdateOwnerKeeps ==
  ASSUME FilesInv, InFlightOK, NEW d \in DocumentIds, UpdateOwner(d)
  PROVE  Steps(FileReqs) /\ DocumentsTypeOK' /\ FilesBehindRequests' /\ LinksCanBeFollowed'
<1>1. PICK s \in Students : document' = [document EXCEPT ![d].owner = s]
  BY DEF UpdateOwner, UpdateOwnerDto
<1>2. AtOnce /\ UNCHANGED <<req, certificate, stored, broken, student>>
  BY DEF UpdateOwner, AtOnce, schoolTables, structureTables
<1>3. PICK old \in Document : old = document[d]
  BY DEF FilesInv, DocumentsTypeOK
<1>4. PICK row : row = [old EXCEPT !.owner = s]
  OBVIOUS
<1>5. row \in Document /\ row.status = old.status
  BY <1>4 DEF Document
<1>6. document' = [document EXCEPT ![d] = row]
  BY <1>1, <1>3, <1>4
<1>7. DocumentsTypeOK' /\ \A x \in DocumentIds : document'[x].status = document[x].status
  BY <1>2, <1>3, <1>5, <1>6 DEF FilesInv, DocumentsTypeOK
<1>8. Steps(FileReqs)
  BY <1>2, AtOnceSteps
<1>9. \A r \in Requests : req[r].op \in {"UploadInsert", "RemoveFile", "RemoveRow"} => req[r].row \in DocumentIds
  BY DEF FilesInv, Known, FileReqs, FileOps
<1>10. FilesBehindRequests'
  BY <1>2, <1>7, <1>9 DEF FilesInv, FilesBehindRequests
<1>11. LinksCanBeFollowed'
  BY <1>2, <1>7 DEF FilesInv, LinksCanBeFollowed, Verified, Placed, Removing, At
<1> QED BY <1>7, <1>8, <1>10, <1>11

LEMMA RemoveReadKeeps ==
  ASSUME FilesInv, InFlightOK, NEW r \in Requests, NEW d \in DocumentIds, RemoveRead(r, d)
  PROVE  Steps(FileReqs) /\ DocumentsTypeOK' /\ FilesBehindRequests' /\ LinksCanBeFollowed'
<1>1. PICK q : q = [op |-> "RemoveFile", row |-> d]
  OBVIOUS
<1>2. q \in FileReqs /\ q.op = "RemoveFile" /\ q.row = d
  BY <1>1 DEF FileReqs
<1>3. Starts(r, q) /\ document[d].status = "kept"
  BY <1>1 DEF RemoveRead
<1>4. Steps(FileReqs)
  BY <1>2, <1>3, StartSteps DEF InFlightOK
<1>5. req'[r] = q /\ (\A x \in Requests \ {r} : req'[x] = req[x]) /\ req[r].op = "idle"
  BY <1>3 DEF Starts, InFlightOK
<1>6. UNCHANGED <<document, certificate, stored, broken, student>>
  BY DEF RemoveRead, documentTables, schoolTables, structureTables
<1>7. DocumentsTypeOK'
  BY <1>6 DEF FilesInv, DocumentsTypeOK
<1>8. FilesBehindRequests'
  BY <1>2, <1>3, <1>5, <1>6 DEF FilesInv, FilesBehindRequests
<1>9. \A x \in DocumentIds : Removing(x) => Removing(x)'
  BY <1>5 DEF Removing, At
<1>10. LinksCanBeFollowed'
  BY <1>6, <1>9 DEF FilesInv, LinksCanBeFollowed, Verified, Placed
<1> QED BY <1>4, <1>7, <1>8, <1>10

\* From here on the document is being removed.
LEMMA RemoveFileKeeps ==
  ASSUME FilesInv, InFlightOK, NEW r \in Requests, RemoveFile(r)
  PROVE  Steps(FileReqs) /\ DocumentsTypeOK' /\ FilesBehindRequests' /\ LinksCanBeFollowed'
<1>1. req[r] \in FileReqs /\ req[r].op = "RemoveFile"
  BY DEF RemoveFile, At, FilesInv, Known, FileOps
<1>2. PICK d \in DocumentIds : d = req[r].row
  BY <1>1 DEF FileReqs
<1>3. PICK q : q = [op |-> "RemoveRow", row |-> d]
  OBVIOUS
<1>4. q \in FileReqs /\ q.op = "RemoveRow" /\ q.row = d
  BY <1>3 DEF FileReqs
<1>5. Goes(r, q)
  BY <1>2, <1>3 DEF RemoveFile
<1>6. Steps(FileReqs)
  BY <1>1, <1>4, <1>5, GoSteps DEF InFlightOK
<1>7. UNCHANGED <<document, certificate, broken, student>>
  BY DEF RemoveFile, schoolTables, structureTables
<1>8. /\ stored' \in [DocumentIds \cup CertificateIds -> RowStatus] /\ stored'[d] = "deleted"
      /\ \A f \in (DocumentIds \cup CertificateIds) \ {d} : stored'[f] = stored[f]
  BY <1>2 DEF RemoveFile, FilesInv, DocumentsTypeOK, RowStatus
<1>9. DocumentsTypeOK'
  BY <1>7, <1>8 DEF FilesInv, DocumentsTypeOK
<1>10. document[d].status # "none"
  BY <1>1, <1>2 DEF FilesInv, FilesBehindRequests
<1>11. \A c \in CertificateIds : stored'[c] = stored[c]
  BY <1>8, DocumentsAssumption
<1>12. req' = [req EXCEPT ![r] = q] /\ req'[r] = q /\ \A x \in Requests \ {r} : req'[x] = req[x]
  BY <1>5 DEF Goes, InFlightOK
<1>13. FilesBehindRequests'
  BY <1>1, <1>2, <1>4, <1>7, <1>8, <1>10, <1>11, <1>12, FileRequestsMove DEF FilesInv
<1>14. Removing(d)' /\ \A x \in DocumentIds : Removing(x) => Removing(x)'
  BY <1>1, <1>4, <1>12 DEF Removing, At
<1>15. LinksCanBeFollowed'
  <2>1. ASSUME NEW c \in CertificateIds, Verified(c)' PROVE stored'[c] = "kept" /\ Placed(certificate[c])'
    BY <1>7, <1>11, <2>1 DEF FilesInv, LinksCanBeFollowed, Verified, Placed
  <2>2. ASSUME NEW x \in DocumentIds, document'[x].status = "kept"
        PROVE  stored'[x] = "kept" \/ Removing(x)' \/ x \in broken'
    BY <1>7, <1>8, <1>14, <2>2 DEF FilesInv, LinksCanBeFollowed
  <2> QED BY <2>1, <2>2 DEF LinksCanBeFollowed
<1> QED BY <1>6, <1>9, <1>13, <1>15

LEMMA RemoveRowKeeps ==
  ASSUME FilesInv, InFlightOK, NEW r \in Requests, RemoveRow(r)
  PROVE  Steps(FileReqs) /\ DocumentsTypeOK' /\ FilesBehindRequests' /\ LinksCanBeFollowed'
<1>1. req[r] \in FileReqs /\ req[r].op = "RemoveRow"
  BY DEF RemoveRow, At, FilesInv, Known, FileOps
<1>2. PICK d \in DocumentIds : d = req[r].row
  BY <1>1 DEF FileReqs
<1>3. PICK old \in Document : old = document[d] /\ old.status = "kept"
  BY <1>2 DEF RemoveRow, FilesInv, DocumentsTypeOK
<1>4. PICK row : row = [old EXCEPT !.status = "deleted"]
  OBVIOUS
<1>5. row \in Document /\ row.status = "deleted"
  BY <1>4 DEF Document, RowStatus
<1>6. document' = [document EXCEPT ![d] = row] /\ UNCHANGED <<certificate, stored, broken, student>>
  BY <1>2, <1>3, <1>4 DEF RemoveRow, schoolTables, structureTables
<1>7. DocumentsTypeOK'
  BY <1>5, <1>6 DEF FilesInv, DocumentsTypeOK
<1>8. document'[d] = row /\ \A x \in DocumentIds \ {d} : document'[x] = document[x]
  BY <1>6 DEF FilesInv, DocumentsTypeOK
<1>9. Steps(FileReqs)
  BY <1>1, EndSteps DEF RemoveRow, InFlightOK
<1>10. req' = [req EXCEPT ![r] = Idle] /\ \A x \in Requests \ {r} : req'[x] = req[x]
  BY DEF RemoveRow, Ends, InFlightOK
<1>11. FilesBehindRequests'
  <2>1. \A x \in DocumentIds : document'[x].status = "none" <=> document[x].status = "none" /\
                                   ~(req[r].op = "UploadInsert" /\ x = req[r].row)
    <3>1. document'[d].status # "none" /\ document[d].status # "none"
      BY <1>3, <1>5, <1>8
    <3> QED BY <1>1, <1>8, <3>1
  <2> QED BY <1>6, <1>10, <2>1, FileRequestsMove DEF FilesInv
<1>12. \A x \in DocumentIds \ {d} : Removing(x) => Removing(x)'
  BY <1>2, <1>10 DEF Removing, At
<1>13. LinksCanBeFollowed'
  <2>1. ASSUME NEW c \in CertificateIds, Verified(c)' PROVE stored'[c] = "kept" /\ Placed(certificate[c])'
    BY <1>6, <2>1 DEF FilesInv, LinksCanBeFollowed, Verified, Placed
  <2>2. ASSUME NEW x \in DocumentIds, document'[x].status = "kept"
        PROVE  stored'[x] = "kept" \/ Removing(x)' \/ x \in broken'
    BY <1>5, <1>6, <1>8, <1>12, <2>2 DEF FilesInv, LinksCanBeFollowed
  <2> QED BY <2>1, <2>2 DEF LinksCanBeFollowed
<1> QED BY <1>7, <1>9, <1>11, <1>13

LEMMA GenerateCertificateKeeps ==
  ASSUME FilesInv, InFlightOK, NEW r \in Requests, GenerateCertificate(r)
  PROVE  Steps(FileReqs) /\ DocumentsTypeOK' /\ FilesBehindRequests' /\ LinksCanBeFollowed'
<1>1. req[r] \in FileReqs /\ req[r].op = "GenerateCertificate"
  BY DEF GenerateCertificate, At, FilesInv, Known, FileOps
<1>2. PICK c \in CertificateIds, s \in Students : c = req[r].row /\ s = req[r].student
  BY <1>1 DEF FileReqs
<1>3. /\ certificate' = [certificate EXCEPT ![c] = s] /\ UNCHANGED <<document, stored, broken, student>>
      /\ Placed(s)
  BY <1>2 DEF GenerateCertificate, schoolTables, structureTables
<1>4. DocumentsTypeOK'
  BY <1>3 DEF FilesInv, DocumentsTypeOK
<1>5. certificate'[c] = s /\ \A x \in CertificateIds \ {c} : certificate'[x] = certificate[x]
  BY <1>3 DEF FilesInv, DocumentsTypeOK
<1>6. Steps(FileReqs)
  BY <1>1, EndSteps DEF GenerateCertificate, InFlightOK
<1>7. req' = [req EXCEPT ![r] = Idle] /\ stored[c] = "kept"
  BY <1>1, <1>2 DEF GenerateCertificate, Ends, FilesInv, FilesBehindRequests
<1>8. FilesBehindRequests'
  BY <1>1, <1>3, <1>7, FileRequestsMove DEF FilesInv
<1>9. \A x \in DocumentIds : Removing(x) => Removing(x)'
  BY <1>1, <1>7 DEF Removing, At, InFlightOK
<1>10. LinksCanBeFollowed'
  <2>1. ASSUME NEW k \in CertificateIds, Verified(k)' PROVE stored'[k] = "kept" /\ Placed(certificate[k])'
    <3>1. CASE k = c
      BY <1>3, <1>5, <1>7, <3>1 DEF Placed
    <3>2. CASE k # c
      BY <1>3, <1>5, <2>1, <3>2 DEF FilesInv, LinksCanBeFollowed, Verified, Placed
    <3> QED BY <3>1, <3>2
  <2>2. ASSUME NEW x \in DocumentIds, document'[x].status = "kept"
        PROVE  stored'[x] = "kept" \/ Removing(x)' \/ x \in broken'
    BY <1>3, <1>9, <2>2 DEF FilesInv, LinksCanBeFollowed
  <2> QED BY <2>1, <2>2 DEF LinksCanBeFollowed
<1> QED BY <1>4, <1>6, <1>8, <1>10

\* The history remembers a removal that is cut short between its deletes.
LEMMA DocumentsDiesKeeps ==
  ASSUME FilesInv, InFlightOK, Moves(FileOps), NEW r \in Requests, DocumentsDies(r)
  PROVE  Steps(FileReqs) /\ DocumentsTypeOK' /\ FilesBehindRequests' /\ LinksCanBeFollowed'
<1>1. Steps(FileReqs)
  BY DiesSteps DEF DocumentsDies, InFlightOK, FilesInv, Known
<1>2. UNCHANGED <<document, certificate, stored, student>>
  BY DEF DocumentsDies, schoolTables, structureTables
<1>3. broken' = broken \cup (IF req[r].op = "RemoveRow" THEN {req[r].row} ELSE {})
  BY DEF DocumentsDies, At
<1>4. req' = [req EXCEPT ![r] = Idle] /\ \A x \in Requests \ {r} : req'[x] = req[x]
  BY DEF DocumentsDies, Dies, Ends, InFlightOK
<1>5. req[r].op = "RemoveRow" => req[r].row \in DocumentIds
  BY DEF FilesInv, Known, FileReqs, FileOps
<1>6. DocumentsTypeOK'
  BY <1>2, <1>3, <1>5 DEF FilesInv, DocumentsTypeOK
<1>7. FilesBehindRequests'
  <2>1. req'[r] = Idle /\ Idle.op = "idle"
    BY <1>4 DEF InFlightOK, Idle
  <2> QED BY <1>2, <1>4, <2>1 DEF FilesInv, FilesBehindRequests
<1>8. \A x \in DocumentIds : Removing(x) => Removing(x)' \/ x \in broken'
  BY <1>3, <1>4 DEF Removing, At
<1>9. LinksCanBeFollowed'
  <2>1. ASSUME NEW c \in CertificateIds, Verified(c)' PROVE stored'[c] = "kept" /\ Placed(certificate[c])'
    BY <1>2, <2>1 DEF FilesInv, LinksCanBeFollowed, Verified, Placed
  <2>2. ASSUME NEW x \in DocumentIds, document'[x].status = "kept"
        PROVE  stored'[x] = "kept" \/ Removing(x)' \/ x \in broken'
    BY <1>2, <1>3, <1>8, <2>2 DEF FilesInv, LinksCanBeFollowed
  <2> QED BY <2>1, <2>2 DEF LinksCanBeFollowed
<1> QED BY <1>1, <1>6, <1>7, <1>9

LEMMA FilesKeep ==
  ASSUME FilesInv, InFlightOK, NEW d, FilesDesk(d)
  PROVE  FilesInv' /\ Steps(FileReqs)
<1>1. Moves(FileOps)
  BY DEF FilesDesk
<1>2. /\ Steps(FileReqs) /\ DocumentsTypeOK'
      /\ (Known(FileOps, FileReqs)' => FilesBehindRequests' /\ LinksCanBeFollowed')
  BY <1>1, UploadStoreKeeps, GenerateStoreKeeps, UploadInsertKeeps, UpdateOwnerKeeps, RemoveReadKeeps,
     RemoveFileKeeps, RemoveRowKeeps, GenerateCertificateKeeps, DocumentsDiesKeeps
     DEF FilesDesk, DocumentsController, CertificatesController
<1>3. "idle" \notin FileOps
  BY DEF FileOps
<1>4. Known(FileOps, FileReqs)'
  BY <1>2, <1>3, StepsKnown DEF FilesInv
<1> QED BY <1>2, <1>4 DEF FilesInv

-----------------------------------------------------------------------------
(* All desks                                                                *)

AcademicsInv ==
  /\ InFlightOK /\ SchoolTypeOK
  /\ ExamInv /\ TimetableInv /\ ClassroomInv /\ CommunicationInv /\ FilesInv

\* What a step may do.
StepStands == MarksStand /\ ClashFree /\ SlotsStand

LEMMA SchoolTyped == RunningSchool => SchoolTypeOK
<1> SUFFICES ASSUME RunningSchool PROVE SchoolTypeOK
  OBVIOUS
<1>1. 0 \in 0..MaxReplaced /\ 1 \in 0..MaxReplaced
  BY SchoolAssumption
<1>2. [status |-> "kept", children |-> {}, writes |-> 1] \in WithChildren
  BY <1>1 DEF WithChildren, RowStatus
<1>3. /\ year \in [Years -> WithChildren] /\ branch \in [Branches -> WithChildren] /\ profile \in {0, 1}
      /\ schoolClass \in [Classes -> RowStatus] /\ link \subseteq Parents \X Students
      /\ parent \in [Parents -> RowStatus] /\ teacher \in [Teachers -> RowStatus]
  BY <1>2 DEF RunningSchool, RowStatus
<1>4. section \in [Sections -> SectionRow] /\ subject \in [Subjects -> SubjectRow]
  BY DEF RunningSchool, RowStatus, SectionRow, SubjectRow
<1>5. assignment \in [Assignments -> AssignmentRow]
  BY DEF RunningSchool, RowStatus, AssignmentRow
<1>6. /\ student \in [Students -> StudentRow]
      /\ \A s \in Students : student[s].placement \in PlacementDto
  BY DEF RunningSchool, RowStatus, StudentRow
<1>7. \A s \in Students : history[s] \in Seq(PlacementDto) /\ Len(history[s]) <= MaxPlacements
  <2> TAKE s \in Students
  <2>1. history[s] = <<student[s].placement>>
    BY DEF RunningSchool
  <2>2. history[s] \in Seq(PlacementDto) /\ Len(history[s]) = 1
    BY <1>6, <2>1
  <2> QED BY <2>2, SchoolAssumption
<1> QED BY <1>3, <1>4, <1>5, <1>6, <1>7 DEF SchoolTypeOK

LEMMA LeaverTyped ==
  ASSUME SchoolTypeOK, NEW s \in Students, RemoveStudent(s)
  PROVE  SchoolTypeOK'
<1>1. PICK row \in StudentRow : row = student[s]
  BY DEF SchoolTypeOK
<1>2. [row EXCEPT !.status = "deleted"] \in StudentRow
  BY DEF StudentRow, RowStatus
<1>3. student' \in [Students -> StudentRow]
  BY <1>1, <1>2 DEF RemoveStudent, SchoolTypeOK
<1>4. \A x \in Students : history'[x] \in Seq(PlacementDto) /\ Len(history'[x]) <= MaxPlacements
  <2>1. \A h : h = <<>> => h \in Seq(PlacementDto) /\ Len(h) = 0
    OBVIOUS
  <2>2. \A x \in Students : history'[x] = <<>> \/ history'[x] = history[x]
    BY DEF RemoveStudent
  <2> QED BY <2>1, <2>2, SchoolAssumption DEF SchoolTypeOK
<1>5. link' \subseteq Parents \X Students
  BY DEF RemoveStudent, SchoolTypeOK
<1>6. UNCHANGED <<schoolClass, section, subject, year, branch, profile, parent, teacher, assignment>>
  BY DEF RemoveStudent, listTables
<1> QED BY <1>3, <1>4, <1>5, <1>6 DEF SchoolTypeOK

LEMMA FamiliesTyped ==
  ASSUME SchoolTypeOK, Families
  PROVE  SchoolTypeOK' /\ AtOnce /\ UNCHANGED <<student, teacher, assignment>>
<1>1. PICK p \in Parents, s \in Students : LinkChild(p, s) \/ UnlinkChild(p, s)
  BY DEF Families
<1>2. link' \subseteq Parents \X Students
  BY <1>1 DEF LinkChild, UnlinkChild, SchoolTypeOK
<1>3. /\ AtOnce
      /\ UNCHANGED <<schoolClass, section, subject, student, history, year, branch, profile, parent,
                     teacher, assignment>>
  BY <1>1 DEF LinkChild, UnlinkChild, structureTables, listTables
<1> QED BY <1>2, <1>3 DEF SchoolTypeOK

LEMMA TeacherLeavesTyped ==
  ASSUME SchoolTypeOK, NEW t \in Teachers, RemoveTeacher(t)
  PROVE  SchoolTypeOK' /\ AtOnce /\ UNCHANGED student
<1>1. \A g \in Assignments : [assignment[g] EXCEPT !.status = "deleted"] \in AssignmentRow
  BY DEF SchoolTypeOK, AssignmentRow, RowStatus
<1>2. assignment' \in [Assignments -> AssignmentRow]
  BY <1>1 DEF RemoveTeacher, SchoolTypeOK
<1>3. teacher' \in [Teachers -> RowStatus]
  BY DEF RemoveTeacher, SchoolTypeOK, RowStatus
<1>4. /\ AtOnce
      /\ UNCHANGED <<schoolClass, section, subject, student, history, year, branch, profile, link, parent>>
  BY DEF RemoveTeacher, structureTables, listTables
<1> QED BY <1>2, <1>3, <1>4 DEF SchoolTypeOK

LEMMA SameSchool ==
  ASSUME SchoolTypeOK, UNCHANGED schoolTables
  PROVE  SchoolTypeOK' /\ UNCHANGED <<student, teacher, assignment>>
BY DEF SchoolTypeOK, schoolTables, structureTables, listTables, peopleTables

\* The desks share no names of statements.
LEMMA DesksApart ==
  /\ \A q \in ExamReqs : q.op # "idle" /\ q.op \notin TimetableOps \cup CommunicationOps \cup FileOps
  /\ \A q \in TimetableReqs : q.op # "idle" /\ q.op \notin ExamOps \cup CommunicationOps \cup FileOps
  /\ \A q \in CommunicationReqs : q.op # "idle" /\ q.op \notin ExamOps \cup TimetableOps \cup FileOps
  /\ \A q \in FileReqs : q.op # "idle" /\ q.op \notin ExamOps \cup TimetableOps \cup CommunicationOps
  /\ "idle" \notin ExamOps \cup TimetableOps \cup CommunicationOps \cup FileOps
<1>1. /\ ExamOps \cap (TimetableOps \cup CommunicationOps \cup FileOps) = {}
      /\ TimetableOps \cap (CommunicationOps \cup FileOps) = {} /\ CommunicationOps \cap FileOps = {}
      /\ "idle" \notin ExamOps \cup TimetableOps \cup CommunicationOps \cup FileOps
  BY DEF ExamOps, TimetableOps, CommunicationOps, FileOps
<1> QED BY <1>1, ExamReqOp, TimetableReqOp, CommunicationReqOp, FileReqOp

LEMMA AcademicsInitOK == AcademicsInit => AcademicsInv
<1> SUFFICES ASSUME AcademicsInit PROVE AcademicsInv
  OBVIOUS
<1>1. InFlightOK
  <2>1. DOMAIN req = Requests /\ overlap \in BOOLEAN /\ \A r \in Requests : req[r].op = "idle"
    BY DEF AcademicsInit, HandlersInit, Idle
  <2> QED BY <2>1 DEF InFlightOK, OneAtATime
<1> QED BY <1>1, SchoolTyped, ExamsInitOK, TimetableInitOK, ClassroomInitOK, CommunicationInitOK, FilesInitOK
        DEF AcademicsInit, AcademicsInv

LEMMA ExamsDeskOK ==
  ASSUME AcademicsInv, NEW d, ExamsDesk(d)
  PROVE  AcademicsInv' /\ StepStands
<1>1. /\ InFlightOK /\ SchoolTypeOK
      /\ ExamInv /\ TimetableInv /\ ClassroomInv /\ CommunicationInv /\ FilesInv
  BY DEF AcademicsInv
<1>2. ExamInv' /\ MarksStand /\ Steps(ExamReqs)
  BY <1>1, ExamsKeep DEF ExamsDesk
<1>3. UNCHANGED schoolTables
  BY DEF ExamsDesk, ExamsController, CreateExam, Publish, UpdateExamWrite, MarksRoster, MarksCommit,
         ExamDies, UpdateExamRead, MarksRead
<1>4. SchoolTypeOK' /\ UNCHANGED <<student, teacher, assignment>>
  BY <1>1, <1>3, SameSchool
<1>5. /\ UNCHANGED <<timetableTables, classroomTables, communicationTables, documentTables>>
  BY DEF ExamsDesk
<1>6. InFlightOK' /\ Keeps(TimetableOps) /\ Keeps(CommunicationOps) /\ Keeps(FileOps)
  BY <1>1, <1>2, DesksApart, StepsInFlight, StepsKeep
<1>7. TimetableInv' /\ ClashFree
  BY <1>1, <1>4, <1>5, <1>6, TimetableElsewhere
<1>8. CommunicationInv' /\ SlotsStand
  BY <1>1, <1>4, <1>5, <1>6, CommunicationElsewhere
<1>9. ClassroomInv' /\ FilesInv'
  BY <1>1, <1>4, <1>5, <1>6, ClassroomElsewhere, FilesElsewhere DEF Placed, documentTables
<1> QED BY <1>2, <1>4, <1>6, <1>7, <1>8, <1>9 DEF AcademicsInv, StepStands

LEMMA TimetableDeskOK ==
  ASSUME AcademicsInv, NEW d, TimetableDesk(d)
  PROVE  AcademicsInv' /\ StepStands
<1>1. /\ InFlightOK /\ SchoolTypeOK
      /\ ExamInv /\ TimetableInv /\ ClassroomInv /\ CommunicationInv /\ FilesInv
  BY DEF AcademicsInv
<1>2. TimetableInv' /\ ClashFree /\ Steps(TimetableReqs)
  BY <1>1, TimetableKeeps DEF TimetableDesk
<1>3. UNCHANGED schoolTables
  <2>1. TimetableEntries \/ SubstitutionsNext
    BY DEF TimetableDesk
  <2> QED BY <2>1 DEF TimetableEntries, SubstitutionsNext, CreateEntry, UpdateEntry, RemoveEntry,
                      GenerateRead, GenerateAssignments, GenerateOthers, GenerateDelete, GenerateInsert,
                      TimetableDies, CreateSubstitution, RemoveSubstitution
<1>4. SchoolTypeOK' /\ UNCHANGED <<student, teacher, assignment>>
  BY <1>1, <1>3, SameSchool
<1>5. /\ UNCHANGED <<examTables, classroomTables, communicationTables, documentTables>>
  BY DEF TimetableDesk
<1>6. InFlightOK' /\ Keeps(ExamOps) /\ Keeps(CommunicationOps) /\ Keeps(FileOps)
  BY <1>1, <1>2, DesksApart, StepsInFlight, StepsKeep
<1>7. ExamInv' /\ MarksStand
  BY <1>1, <1>5, <1>6, ExamsElsewhere
<1>8. CommunicationInv' /\ SlotsStand
  BY <1>1, <1>4, <1>5, <1>6, CommunicationElsewhere
<1>9. ClassroomInv' /\ FilesInv'
  BY <1>1, <1>4, <1>5, <1>6, ClassroomElsewhere, FilesElsewhere DEF Placed, documentTables
<1> QED BY <1>2, <1>4, <1>6, <1>7, <1>8, <1>9 DEF AcademicsInv, StepStands

LEMMA ClassroomDeskOK ==
  ASSUME AcademicsInv, NEW d, ClassroomDesk(d)
  PROVE  AcademicsInv' /\ StepStands
<1>1. /\ InFlightOK /\ SchoolTypeOK
      /\ ExamInv /\ TimetableInv /\ ClassroomInv /\ CommunicationInv /\ FilesInv
  BY DEF AcademicsInv
<1>2. \/ HomeworkController \/ AttendanceController \/ LeaveController
      \/ Families /\ UNCHANGED classroomTables
  BY DEF ClassroomDesk
<1>3. AtOnce /\ ClassroomInv' /\ SchoolTypeOK' /\ UNCHANGED <<student, teacher, assignment>>
  <2>1. CASE HomeworkController \/ AttendanceController \/ LeaveController
    <3>1. ClassroomInv' /\ AtOnce
      BY <1>1, <2>1, ClassroomKeeps
    <3>2. UNCHANGED schoolTables
      BY <2>1 DEF HomeworkController, AttendanceController, LeaveController, CreateHomework,
         UpdateHomework, RemoveHomework, ListSubmissions, Submit, GradeSubmission, BulkSubmit, UpdateRecord, SubmitLeave,
         ReviewLeave
    <3> QED BY <1>1, <3>1, <3>2, SameSchool
  <2>2. CASE Families /\ UNCHANGED classroomTables
    BY <1>1, <2>2, FamiliesTyped, ClassroomElsewhere
  <2> QED BY <1>2, <2>1, <2>2
<1>4. UNCHANGED <<examTables, timetableTables, communicationTables, documentTables>>
  BY DEF ClassroomDesk
<1>5. /\ Keeps(ExamOps) /\ Keeps(TimetableOps) /\ Keeps(CommunicationOps) /\ Keeps(FileOps)
      /\ InFlightOK'
  <2>1. InFlightOK'
    BY <1>1, <1>3 DEF AtOnce, InFlightOK, OneAtATime
  <2> QED BY <1>3, <2>1, AtOnceKeeps
<1>6. ExamInv' /\ MarksStand /\ TimetableInv' /\ ClashFree
  BY <1>1, <1>3, <1>4, <1>5, ExamsElsewhere, TimetableElsewhere
<1>7. CommunicationInv' /\ SlotsStand
  BY <1>1, <1>3, <1>4, <1>5, CommunicationElsewhere
<1>8. FilesInv'
  BY <1>1, <1>3, <1>4, <1>5, FilesElsewhere DEF Placed, documentTables
<1> QED BY <1>3, <1>5, <1>6, <1>7, <1>8 DEF AcademicsInv, StepStands

LEMMA CommunicationDeskOK ==
  ASSUME AcademicsInv, NEW d, CommunicationDesk(d)
  PROVE  AcademicsInv' /\ StepStands
<1>1. /\ InFlightOK /\ SchoolTypeOK
      /\ ExamInv /\ TimetableInv /\ ClassroomInv /\ CommunicationInv /\ FilesInv
  BY DEF AcademicsInv
<1>2. CommunicationInv' /\ SlotsStand /\ Steps(CommunicationReqs)
  BY <1>1, CommunicationKeeps
<1>3. SchoolTypeOK' /\ UNCHANGED student /\ (UNCHANGED assignment \/ AtOnce)
  <2>1. CASE \E t \in Teachers : RemoveTeacherWithSlots(t)
    BY <1>1, <2>1, TeacherLeavesTyped DEF RemoveTeacherWithSlots
  <2>2. CASE Families
    BY <1>1, <2>2, FamiliesTyped
  <2>3. CASE UNCHANGED schoolTables
    BY <1>1, <2>3, SameSchool
  <2>4. CASE PtmController
    BY <2>1, <2>3, <2>4 DEF PtmController, CreateSlot, DeleteSlot, UpdateNotes, BookWrite, CancelWrite,
       NotifyOne, BookRead, CancelRead
  <2>5. CASE MessagesController
    BY <2>3, <2>5 DEF MessagesController, MarkThreadRead, CreateThread, Reply, NotifyOne
  <2>6. CASE NotificationsController \/ PostsControllers
    BY <2>3, <2>6 DEF NotificationsController, PostsControllers, MarkRead, MarkAllRead, UpdatePreferences,
       CreatePost, UpdatePost, RemovePost
  <2>7. CASE \E r \in Requests : CommunicationDies(r)
    BY <2>3, <2>7 DEF CommunicationDies
  <2> QED BY <2>2, <2>4, <2>5, <2>6, <2>7 DEF CommunicationDesk
<1>4. /\ UNCHANGED <<examTables, timetableTables, classroomTables, documentTables>>
  BY DEF CommunicationDesk
<1>5. InFlightOK' /\ Keeps(ExamOps) /\ Keeps(TimetableOps) /\ Keeps(FileOps)
  BY <1>1, <1>2, DesksApart, StepsInFlight, StepsKeep
<1>6. ExamInv' /\ MarksStand /\ TimetableInv' /\ ClashFree
  BY <1>1, <1>3, <1>4, <1>5, ExamsElsewhere, TimetableElsewhere
<1>7. ClassroomInv' /\ FilesInv'
  BY <1>1, <1>3, <1>4, <1>5, ClassroomElsewhere, FilesElsewhere DEF Placed, documentTables
<1> QED BY <1>2, <1>3, <1>5, <1>6, <1>7 DEF AcademicsInv, StepStands

LEMMA FilesDeskOK ==
  ASSUME AcademicsInv, NEW d, FilesDesk(d)
  PROVE  AcademicsInv' /\ StepStands
<1>1. /\ InFlightOK /\ SchoolTypeOK
      /\ ExamInv /\ TimetableInv /\ ClassroomInv /\ CommunicationInv /\ FilesInv
  BY DEF AcademicsInv
<1>2. FilesInv' /\ Steps(FileReqs)
  BY <1>1, FilesKeep
<1>3. UNCHANGED schoolTables
  BY DEF FilesDesk, DocumentsController, CertificatesController, UploadInsert, RemoveFile, RemoveRow,
         UploadStore, UpdateOwner, RemoveRead, GenerateCertificate, GenerateStore, DocumentsDies
<1>4. SchoolTypeOK' /\ UNCHANGED <<student, teacher, assignment>>
  BY <1>1, <1>3, SameSchool
<1>5. UNCHANGED <<examTables, timetableTables, classroomTables, communicationTables>>
  BY DEF FilesDesk
<1>6. InFlightOK' /\ Keeps(ExamOps) /\ Keeps(TimetableOps) /\ Keeps(CommunicationOps)
  BY <1>1, <1>2, DesksApart, StepsInFlight, StepsKeep
<1>7. ExamInv' /\ MarksStand /\ TimetableInv' /\ ClashFree
  BY <1>1, <1>4, <1>5, <1>6, ExamsElsewhere, TimetableElsewhere
<1>8. CommunicationInv' /\ SlotsStand
  BY <1>1, <1>4, <1>5, <1>6, CommunicationElsewhere
<1>9. ClassroomInv'
  BY <1>1, <1>4, <1>5, ClassroomElsewhere
<1> QED BY <1>2, <1>4, <1>6, <1>7, <1>8, <1>9 DEF AcademicsInv, StepStands

\* With a student go the rows that name the student, and nobody else's.
LEMMA LeaversOK ==
  ASSUME AcademicsInv, NEW s \in Students, RemoveStudentWithRecords(s)
  PROVE  AcademicsInv' /\ StepStands
<1>1. /\ InFlightOK /\ SchoolTypeOK
      /\ ExamInv /\ TimetableInv /\ ClassroomInv /\ CommunicationInv /\ FilesInv
  BY DEF AcademicsInv
<1>2. /\ RemoveStudent(s) /\ ~Certified(s) /\ MarksGo(s) /\ RecordsGo(s)
      /\ UNCHANGED <<timetableTables, communicationTables, documentTables>>
  BY DEF RemoveStudentWithRecords
<1>3. AtOnce /\ UNCHANGED <<teacher, assignment>>
  BY <1>2 DEF RemoveStudent
<1>4. InFlightOK' /\ SchoolTypeOK'
  BY <1>1, <1>2, <1>3, LeaverTyped DEF AtOnce, InFlightOK, OneAtATime
<1>5. ExamInv' /\ MarksStand /\ ClassroomInv'
  BY <1>1, <1>2, ExamsLoseStudent, ClassroomLosesStudent
<1>6. TimetableInv' /\ ClashFree /\ CommunicationInv' /\ SlotsStand
  BY <1>1, <1>2, <1>3, AtOnceKeeps, TimetableElsewhere, CommunicationElsewhere
<1>7. \A c \in CertificateIds : Verified(c) /\ Placed(certificate[c]) => Placed(certificate[c])'
  <2> SUFFICES ASSUME NEW c \in CertificateIds, Verified(c), Placed(certificate[c])
               PROVE  Placed(certificate[c])'
    OBVIOUS
  <2>1. certificate[c] \in Students \ {s} /\ certificate' = certificate
    BY <1>1, <1>2 DEF Certified, FilesInv, DocumentsTypeOK, Verified, documentTables
  <2>2. \A t \in Students \ {s} : student'[t] = student[t]
    BY <1>1, <1>2 DEF RemoveStudent, SchoolTypeOK
  <2> QED BY <2>1, <2>2 DEF Placed
<1>8. FilesInv'
  BY <1>1, <1>2, <1>3, <1>7, AtOnceKeeps, FilesElsewhere
<1> QED BY <1>4, <1>5, <1>6, <1>8 DEF AcademicsInv, StepStands

LEMMA AcademicsNextOK == AcademicsInv /\ AcademicsNext => AcademicsInv' /\ StepStands
<1> SUFFICES ASSUME AcademicsInv, NEW d \in Desks, AtDesk(d) PROVE AcademicsInv' /\ StepStands
  BY DEF AcademicsNext
<1>1. CASE Leavers(d)
  BY <1>1, LeaversOK DEF Leavers
<1> QED BY <1>1, ExamsDeskOK, TimetableDeskOK, ClassroomDeskOK, CommunicationDeskOK, FilesDeskOK DEF AtDesk

LEMMA AcademicsStutter == AcademicsInv /\ UNCHANGED academicsVars => AcademicsInv' /\ StepStands
<1> SUFFICES ASSUME AcademicsInv, UNCHANGED academicsVars PROVE AcademicsInv' /\ StepStands
  OBVIOUS
<1>1. /\ UNCHANGED <<schoolTables, examTables, timetableTables, classroomTables, communicationTables,
                     documentTables, req, overlap>>
  BY DEF academicsVars, academicsTables
<1>2. /\ InFlightOK /\ SchoolTypeOK
      /\ ExamInv /\ TimetableInv /\ ClassroomInv /\ CommunicationInv /\ FilesInv
  BY DEF AcademicsInv
<1>3. SchoolTypeOK' /\ UNCHANGED <<student, teacher, assignment>>
  BY <1>1, <1>2, SameSchool
<1>4. InFlightOK' /\ \A ops : Keeps(ops)
  BY <1>1, <1>2 DEF InFlightOK, OneAtATime, Keeps
<1>5. ExamInv' /\ MarksStand /\ TimetableInv' /\ ClashFree
  BY <1>1, <1>2, <1>3, <1>4, ExamsElsewhere, TimetableElsewhere
<1>6. CommunicationInv' /\ SlotsStand /\ ClassroomInv'
  BY <1>1, <1>2, <1>3, <1>4, CommunicationElsewhere, ClassroomElsewhere
<1>7. FilesInv'
  BY <1>1, <1>2, <1>3, <1>4, FilesElsewhere DEF Placed, documentTables
<1> QED BY <1>3, <1>4, <1>5, <1>6, <1>7 DEF AcademicsInv, StepStands

LEMMA AcademicsInvariant == AcademicsSpec => []AcademicsInv
<1>1. AcademicsInv /\ [AcademicsNext]_academicsVars => AcademicsInv'
  BY AcademicsNextOK, AcademicsStutter
<1> QED BY AcademicsInitOK, <1>1, PTL DEF AcademicsSpec

\* All desks at once, every variable holds a value of its table.
THEOREM AcademicsTyped == AcademicsSpec => []AcademicsTypeOK
<1>1. AcademicsInv => AcademicsTypeOK
  BY DEF AcademicsInv, AcademicsTypeOK, ExamInv, TimetableInv, ClassroomInv, CommunicationInv, FilesInv
<1> QED BY AcademicsInvariant, <1>1, PTL

\* All desks at once, a submission that shows as graded has had no answer since its
\* grade was saved, and the grade is of this answer unless a queue has shown an earlier
\* one; every submission is of homework and a student that are kept.
THEOREM GradesFollowAnswers == AcademicsSpec => []GradedSinceAnswered
<1>1. AcademicsInv => GradedSinceAnswered
  BY DEF AcademicsInv, ClassroomInv, RowInv, GradedSinceAnswered
<1> QED BY AcademicsInvariant, <1>1, PTL

\* All desks at once, in any interleaving, a certificate that verifies names a student
\* who is kept and a file that is stored; a document has its file unless its removal is
\* between the two deletes, or was cut short there.
THEOREM LinksLeadSomewhere == AcademicsSpec => []LinksCanBeFollowed
<1>1. AcademicsInv => LinksCanBeFollowed
  BY DEF AcademicsInv, FilesInv
<1> QED BY AcademicsInvariant, <1>1, PTL

\* All desks at once, one request at a time, a published exam and the marks in it of
\* those who are still students change only by a user who may publish.
THEOREM PublicationLocks == AcademicsSpec => PublishedMarksStand
<1>1. AcademicsInv /\ [AcademicsNext]_academicsVars => [MarksStand]_<<exam, mark>>
  BY AcademicsNextOK, AcademicsStutter DEF StepStands
<1> QED BY AcademicsInvariant, <1>1, PTL DEF AcademicsSpec, PublishedMarksStand, MarksStand

\* All desks at once, one request at a time, a generation replaces every period of its
\* section, with periods of teachers assigned to the subject who are nowhere else then.
THEOREM GenerationsAvoidClashes == AcademicsSpec => GeneratedClashFree
<1> DEFINE Told ==
      \A r \in Requests : At(r, "GenerateInsert") /\ ~overlap =>
        LET rows == EntriesOf(req[r].dto, timetable')
        IN /\ rows = timetable' \ timetable
           /\ \A row \in rows :
                /\ AssignedTo(row.teacher, row.subject, req[r].dto)
                /\ \A other \in timetable' \ {row} :
                     other.slot = row.slot => other.teacher # row.teacher
                                              /\ other \notin rows
<1>1. AcademicsInv /\ [AcademicsNext]_academicsVars => [Told]_timetable
  BY AcademicsNextOK, AcademicsStutter DEF StepStands, ClashFree
<1> QED BY AcademicsInvariant, <1>1, PTL DEF AcademicsSpec, GeneratedClashFree

\* All desks at once, one request at a time, a booked slot is freed before anybody else,
\* or anybody for another student, has it.
THEOREM BookingsStand == AcademicsSpec => BookingStands
<1>1. AcademicsInv /\ [AcademicsNext]_academicsVars => [SlotsStand]_slot
  BY AcademicsNextOK, AcademicsStutter DEF StepStands
<1> QED BY AcademicsInvariant, <1>1, PTL DEF AcademicsSpec, BookingStands, SlotsStand

-----------------------------------------------------------------------------
(* Report cards                                                             *)
(*                                                                          *)
(* computeRanks goes down a sorted list with a recursive function.  One     *)
(* more than the number of values above is a function that follows the      *)
(* recursion (CountsPlace), and no other does (OnePlacing): the least place *)
(* at which two differ would have a smaller one before it.                  *)

\* From LeastSubset, of the intervals from 0.
LEMMA LeastNatural ==
  ASSUME NEW T \in SUBSET Nat, T # {}
  PROVE  \E t \in T : \A u \in T : t <= u
<1>1. PICK m \in T : TRUE
  OBVIOUS
<1>2. PICK B : B = {0..t : t \in {u \in T : u <= m}}
  OBVIOUS
<1>3. PICK S : S = 0..m
  OBVIOUS
<1>4. PICK b \in B : \A c \in B : c \subseteq b => c = b
  <2>1. IsFiniteSet(S)
    BY <1>3, FS_Interval
  <2>2. \A c \in B : c \subseteq S
    BY <1>1, <1>2, <1>3
  <2>3. 0..m \in B
    BY <1>1, <1>2
  <2> QED BY <2>1, <2>2, <2>3, LeastSubset
<1>5. PICK t \in T : t <= m /\ b = 0..t
  BY <1>2, <1>4
<1>6. ASSUME NEW u \in T, u < t PROVE FALSE
  <2>1. 0..u \in B /\ 0..u \subseteq b
    BY <1>1, <1>2, <1>5, <1>6
  <2>2. 0..u = 0..t
    BY <1>4, <1>5, <2>1
  <2> QED BY <1>5, <1>6, <2>2
<1> QED BY <1>5, <1>6

Falls(q, value) == \A i, j \in DOMAIN q : i < j => value[q[i]] >= value[q[j]]

\* A finite set can be listed in falling order: of a least set that cannot, the list
\* of all but one with the least value, followed by that one, would be such a list.
LEMMA SortedExists ==
  ASSUME NEW S, IsFiniteSet(S), NEW value, \A s \in S : value[s] \in Nat
  PROVE  \E q \in SetToSeqs(S) : Falls(q, value)
<1> DEFINE Bad == {s \in SUBSET S : ~\E q \in SetToSeqs(s) : Falls(q, value)}
<1> SUFFICES ASSUME Bad # {} PROVE FALSE
  OBVIOUS
<1>1. Bad \in SUBSET SUBSET S
  OBVIOUS
<1>2. PICK s \in Bad : \A u \in Bad : u \subseteq s => u = s
  <2> HIDE DEF Bad
  <2> QED BY <1>1, LeastSubset
<1>3. s \in SUBSET S /\ ~\E q \in SetToSeqs(s) : Falls(q, value)
  OBVIOUS
<1>4. s # {}
  <2> SUFFICES ASSUME s = {} PROVE FALSE
    OBVIOUS
  <2>1. PICK q : q = [i \in 1..0 |-> i]
    OBVIOUS
  <2>2. q \in [1..Cardinality(s) -> s] /\ DOMAIN q = {}
    BY <2>1, FS_EmptySet
  <2>3. q \in SetToSeqs(s) /\ Falls(q, value)
    BY <2>2, FS_EmptySet DEF SetToSeqs, Falls
  <2> QED BY <1>3, <2>3
<1>5. PICK m \in s : \A t \in s : value[m] <= value[t]
  <2>1. PICK V : V = {value[t] : t \in s}
    OBVIOUS
  <2>2. V \in SUBSET Nat /\ V # {}
    BY <1>3, <1>4, <2>1
  <2>3. PICK v \in V : \A u \in V : v <= u
    BY <2>2, LeastNatural
  <2> QED BY <2>1, <2>3
<1>6. PICK n : n = Cardinality(s \ {m})
  OBVIOUS
<1>7. IsFiniteSet(s) /\ IsFiniteSet(s \ {m}) /\ n \in Nat /\ Cardinality(s) = n + 1
  <2>1. IsFiniteSet(s)
    BY <1>3, FS_Subset
  <2>2. IsFiniteSet(s \ {m}) /\ n = Cardinality(s) - 1
    BY <1>6, <2>1, FS_RemoveElement
  <2>3. Cardinality(s) \in Nat /\ n \in Nat
    BY <1>6, <2>1, <2>2, FS_CardinalityType
  <2> QED BY <2>1, <2>2, <2>3
<1>8. PICK p \in SetToSeqs(s \ {m}) : Falls(p, value)
  <2>1. s \ {m} \in SUBSET S /\ s \ {m} # s /\ s \ {m} \subseteq s
    BY <1>3, <1>5
  <2> QED BY <1>2, <2>1
<1>9. p \in [1..n -> s \ {m}] /\ \A i, j \in 1..n : i # j => p[i] # p[j]
  BY <1>6, <1>8 DEF SetToSeqs
<1>10. PICK q : q = [i \in 1..(n + 1) |-> IF i = n + 1 THEN m ELSE p[i]]
  OBVIOUS
<1>11. q \in [1..(n + 1) -> s] /\ q[n + 1] = m /\ \A i \in 1..n : q[i] = p[i] /\ p[i] \in s \ {m}
  BY <1>7, <1>9, <1>10
<1>12. q \in SetToSeqs(s)
  <2>1. \A i, j \in 1..(n + 1) : i # j => q[i] # q[j]
    <3> SUFFICES ASSUME NEW i \in 1..(n + 1), NEW j \in 1..(n + 1), i # j PROVE q[i] # q[j]
      OBVIOUS
    <3>1. (i \in 1..n \/ i = n + 1) /\ (j \in 1..n \/ j = n + 1)
      BY <1>7
    <3> QED BY <1>9, <1>11, <3>1
  <2> QED BY <1>7, <1>11, <2>1 DEF SetToSeqs
<1>13. Falls(q, value)
  <2> SUFFICES ASSUME NEW i \in 1..(n + 1), NEW j \in 1..(n + 1), i < j PROVE value[q[i]] >= value[q[j]]
    BY <1>11 DEF Falls
  <2>1. i \in 1..n /\ (j \in 1..n \/ j = n + 1)
    BY <1>7
  <2>2. CASE j \in 1..n
    BY <1>8, <1>9, <1>11, <2>1, <2>2 DEF Falls
  <2>3. CASE j = n + 1
    <3>1. q[i] \in s /\ q[j] = m
      BY <1>11, <2>1, <2>3
    <3>2. value[m] <= value[q[i]] /\ value[m] \in Nat /\ value[q[i]] \in Nat
      BY <1>3, <1>5, <3>1
    <3> QED BY <3>1, <3>2
  <2> QED BY <2>1, <2>2, <2>3
<1> QED BY <1>3, <1>12, <1>13

\* r gives each place of q its rank, as the recursion has it.
Places(q, value, r) ==
  r = [i \in DOMAIN q |-> IF i > 1 /\ value[q[i]] = value[q[i - 1]] THEN r[i - 1] ELSE i]

\* The recursion has one solution.
LEMMA OnePlacing ==
  ASSUME NEW n \in Nat, NEW q, DOMAIN q = 1..n, NEW value, NEW r, NEW p,
         Places(q, value, r), Places(q, value, p)
  PROVE  \A i \in 1..n : r[i] = p[i]
<1> DEFINE Bad == {i \in 1..n : r[i] # p[i]}
<1> SUFFICES ASSUME Bad # {} PROVE FALSE
  OBVIOUS
<1>1. Bad \in SUBSET Nat
  OBVIOUS
<1>2. PICK i \in Bad : \A j \in Bad : i <= j
  <2> HIDE DEF Bad
  <2> QED BY <1>1, LeastNatural
<1>3. i \in 1..n /\ r[i] # p[i]
  OBVIOUS
<1>4. i > 1 => r[i - 1] = p[i - 1]
  <2> SUFFICES ASSUME i > 1 PROVE i - 1 \notin Bad /\ i - 1 \in 1..n
    OBVIOUS
  <2> HIDE DEF Bad
  <2> QED BY <1>2, <1>3
<1>5. /\ r[i] = IF i > 1 /\ value[q[i]] = value[q[i - 1]] THEN r[i - 1] ELSE i
      /\ p[i] = IF i > 1 /\ value[q[i]] = value[q[i - 1]] THEN p[i - 1] ELSE i
  BY <1>3 DEF Places
<1> QED BY <1>3, <1>4, <1>5

\* One more than the number of those above is such a placing.
LEMMA CountsPlace ==
  ASSUME NEW S, IsFiniteSet(S), NEW value, \A s \in S : value[s] \in Nat,
         NEW q \in SetToSeqs(S), Falls(q, value)
  PROVE  Places(q, value, [i \in DOMAIN q |-> 1 + Cardinality({t \in S : value[t] > value[q[i]]})])
<1>1. PICK n : n = Cardinality(S)
  OBVIOUS
<1>2. n \in Nat /\ q \in [1..n -> S] /\ \A i, j \in 1..n : i # j => q[i] # q[j]
  BY <1>1, FS_CardinalityType DEF SetToSeqs
<1>3. \A t \in S : \E i \in 1..n : q[i] = t
  <2>1. IsFiniteSet(1..n) /\ Cardinality(1..n) = n
    BY <1>2, FS_Interval
  <2>2. q \in Injection(1..n, S)
    BY <1>2 DEF Injection, IsInjective
  <2>3. q \in Surjection(1..n, S)
    BY <1>1, <2>1, <2>2, FS_Injection
  <2> QED BY <2>3 DEF Surjection
<1> DEFINE Above(i) == {t \in S : value[t] > value[q[i]]}
           g == [i \in DOMAIN q |-> 1 + Cardinality(Above(i))]
<1>4. ASSUME NEW i \in 1..n, ~(i > 1 /\ value[q[i]] = value[q[i - 1]]) PROVE g[i] = i
  <2>1. ASSUME NEW j \in 1..n PROVE value[q[j]] > value[q[i]] <=> j < i
    <3>1. value[q[i]] \in Nat /\ value[q[j]] \in Nat
      BY <1>2
    <3>2. CASE j >= i
      <4>1. j = i \/ value[q[i]] >= value[q[j]]
        BY <1>2, <3>2 DEF Falls
      <4> QED BY <1>2, <3>1, <3>2, <4>1
    <3>3. CASE j < i
      <4>1. i - 1 \in 1..n /\ value[q[i - 1]] \in Nat /\ value[q[i]] # value[q[i - 1]]
        BY <1>2, <1>4, <3>3
      <4>2. value[q[i - 1]] >= value[q[i]]
        BY <1>2, <4>1 DEF Falls
      <4>3. j = i - 1 \/ value[q[j]] >= value[q[i - 1]]
        BY <1>2, <3>3, <4>1 DEF Falls
      <4> QED BY <3>1, <3>3, <4>1, <4>2, <4>3
    <3> QED BY <1>2, <3>2, <3>3
  <2>2. PICK f : f = [j \in 1..(i - 1) |-> q[j]]
    OBVIOUS
  <2>3. f \in Surjection(1..(i - 1), Above(i)) /\ f \in Injection(1..(i - 1), Above(i))
    <3>1. \A j \in 1..(i - 1) : j \in 1..n /\ j < i /\ f[j] = q[j]
      BY <1>2, <2>2
    <3>2. \A j \in 1..(i - 1) : f[j] \in Above(i)
      BY <1>2, <2>1, <3>1
    <3>3. \A t \in Above(i) : \E j \in 1..(i - 1) : f[j] = t
      <4> SUFFICES ASSUME NEW t \in Above(i) PROVE \E j \in 1..(i - 1) : f[j] = t
        OBVIOUS
      <4>1. PICK j \in 1..n : q[j] = t
        BY <1>3
      <4>2. j < i
        BY <2>1, <4>1
      <4>3. j \in 1..(i - 1)
        BY <1>2, <4>2
      <4> QED BY <3>1, <4>1, <4>3
    <3>4. \A j, k \in 1..(i - 1) : f[j] = f[k] => j = k
      BY <1>2, <3>1
    <3> HIDE DEF Above
    <3>5. f \in [1..(i - 1) -> Above(i)]
      BY <2>2, <3>2
    <3> QED BY <3>3, <3>4, <3>5 DEF Surjection, Injection, IsInjective
  <2>4. IsFiniteSet(1..(i - 1)) /\ Cardinality(1..(i - 1)) = i - 1
    BY <1>2, FS_Interval
  <2>5. Cardinality(Above(i)) = i - 1
    <3> HIDE DEF Above
    <3> QED BY <2>3, <2>4, FS_Surjection
  <2>6. g[i] = 1 + Cardinality(Above(i))
    BY <1>2
  <2> QED BY <1>2, <2>5, <2>6
<1>5. ASSUME NEW i \in 1..n, i > 1, value[q[i]] = value[q[i - 1]] PROVE g[i] = g[i - 1]
  <2>1. i - 1 \in 1..n
    BY <1>2, <1>5
  <2>2. Above(i) = Above(i - 1)
    BY <1>5
  <2> HIDE DEF Above
  <2> QED BY <1>2, <2>1, <2>2
<1>6. DOMAIN q = 1..n /\ DOMAIN g = 1..n /\ g = [i \in 1..n |-> g[i]]
  BY <1>2
<1> HIDE DEF g
<1>7. g = [i \in 1..n |-> IF i > 1 /\ value[q[i]] = value[q[i - 1]] THEN g[i - 1] ELSE i]
  BY <1>4, <1>5, <1>6
<1>8. Places(q, value, g)
  BY <1>6, <1>7 DEF Places
<1> QED BY <1>8 DEF g

\* What computeRanks computes: one more than the number of higher values.
LEMMA RanksAre ==
  ASSUME NEW who, IsFiniteSet(who), NEW value, \A s \in who : value[s] \in Nat \cup {None}
  PROVE  Ranks(value, who) =
           [s \in who |-> IF value[s] = None THEN None
                          ELSE 1 + Cardinality({t \in who : value[t] # None /\ value[t] > value[s]})]
<1>1. PICK S : S = {s \in who : value[s] # None}
  OBVIOUS
<1>2. IsFiniteSet(S) /\ \A s \in S : value[s] \in Nat
  BY <1>1, FS_Subset
<1>3. PICK q : q = Ranked(value, who)
  OBVIOUS
<1>4. q \in SetToSeqs(S) /\ Falls(q, value)
  BY <1>1, <1>2, <1>3, SortedExists DEF Ranked, Falls
<1>5. PICK n : n = Cardinality(S)
  OBVIOUS
<1>6. n \in Nat /\ q \in [1..n -> S] /\ \A i, j \in 1..n : i # j => q[i] # q[j]
  BY <1>2, <1>4, <1>5, FS_CardinalityType DEF SetToSeqs
<1>7. \A t \in S : \E i \in 1..n : q[i] = t
  <2>1. IsFiniteSet(1..n) /\ Cardinality(1..n) = n
    BY <1>6, FS_Interval
  <2>2. q \in Injection(1..n, S)
    BY <1>6 DEF Injection, IsInjective
  <2>3. q \in Surjection(1..n, S)
    BY <1>2, <1>5, <2>1, <2>2, FS_Injection
  <2> QED BY <2>3 DEF Surjection
<1>8. PICK g : g = [i \in DOMAIN q |-> 1 + Cardinality({t \in S : value[t] > value[q[i]]})]
  OBVIOUS
<1>9. Places(q, value, g)
  BY <1>2, <1>4, <1>8, CountsPlace
<1>10. PICK rank : rank = CHOOSE r : Places(q, value, r)
  OBVIOUS
<1>11. Places(q, value, rank)
  BY <1>9, <1>10
<1>12. \A i \in 1..n : rank[i] = g[i]
  BY <1>6, <1>9, <1>11, OnePlacing
<1>13. Ranks(value, who) = [s \in who |-> IF value[s] = None THEN None
                                          ELSE rank[CHOOSE i \in DOMAIN q : q[i] = s]]
  BY <1>3, <1>10 DEF Ranks, Places
<1>14. ASSUME NEW s \in who, value[s] # None
       PROVE  rank[CHOOSE i \in DOMAIN q : q[i] = s]
                = 1 + Cardinality({t \in who : value[t] # None /\ value[t] > value[s]})
  <2>1. PICK i : i = CHOOSE j \in DOMAIN q : q[j] = s
    OBVIOUS
  <2>2. i \in 1..n /\ q[i] = s
    BY <1>1, <1>6, <1>7, <1>14, <2>1
  <2>3. {t \in S : value[t] > value[q[i]]} = {t \in who : value[t] # None /\ value[t] > value[s]}
    BY <1>1, <2>2
  <2> QED BY <1>6, <1>8, <1>12, <2>1, <2>2, <2>3
<1>15. PICK d : d = [s \in who |-> rank[CHOOSE i \in DOMAIN q : q[i] = s]]
  OBVIOUS
<1>16. PICK c : c = [s \in who |-> 1 + Cardinality({t \in who : value[t] # None /\ value[t] > value[s]})]
  OBVIOUS
<1>17. \A s \in who : value[s] # None => d[s] = c[s]
  BY <1>14, <1>15, <1>16
<1>18. Ranks(value, who) = [s \in who |-> IF value[s] = None THEN None ELSE d[s]]
  BY <1>13, <1>15, Zenon
<1>19. @ = [s \in who |-> IF value[s] = None THEN None ELSE c[s]]
  BY <1>17
<1> QED BY <1>16, <1>18, <1>19, Zenon

\* Who attempted something is ranked on the total the card shows; others have 0 on it.
LEMMA CardsAdd ==
  ASSUME ExamsTypeOK, NEW e \in Exams, NEW s \in Students
  PROVE  /\ CardTotal(e, s) \in Nat
         /\ (\E x \in Series(e) : Attempted(x, s)) => RankedOn(e, s) = CardTotal(e, s)
         /\ (\A x \in Series(e) : ~Attempted(x, s)) => RankedOn(e, s) = None /\ CardTotal(e, s) = 0
<1>1. PICK S : S = Series(e)
  OBVIOUS
<1>2. IsFiniteSet(S) /\ S \subseteq Exams
  BY <1>1, ExamsAssumption, FS_Subset DEF Series
<1>3. PICK f : f = [x \in S |-> IF Attempted(x, s) THEN mark[x][s].obtained ELSE 0]
  OBVIOUS
<1>4. PICK g : g = [x \in S |-> IF mark[x][s].absent \/ mark[x][s].obtained = None THEN 0
                               ELSE mark[x][s].obtained]
  OBVIOUS
<1>5. f = g
  BY <1>3, <1>4 DEF Attempted
<1>6. \A x \in S : g[x] \in Nat
  <2>1. \A x \in S : mark[x][s] \in MarkRecord
    BY <1>2 DEF ExamsTypeOK
  <2> QED BY <1>4, <2>1 DEF MarkRecord
<1>7. CardTotal(e, s) = SumFunctionOnSet(g, S)
  <2>1. DOMAIN g = S
    BY <1>4
  <2> QED BY <1>1, <1>4, <2>1 DEF CardTotal, SumFunction
<1>8. CardTotal(e, s) \in Nat
  BY <1>2, <1>6, <1>7, SumMonotone
<1>9. ASSUME \E x \in S : Attempted(x, s) PROVE RankedOn(e, s) = CardTotal(e, s)
  <2>1. DOMAIN f = S
    BY <1>3
  <2>2. RankedOn(e, s) = SumFunctionOnSet(f, S)
    BY <1>1, <1>3, <1>9, <2>1 DEF RankedOn, SumFunction
  <2> QED BY <1>5, <1>7, <2>2
<1>10. ASSUME \A x \in S : ~Attempted(x, s) PROVE RankedOn(e, s) = None /\ CardTotal(e, s) = 0
  <2>1. \A x \in S : g[x] = 0
    BY <1>3, <1>5, <1>10
  <2>2. SumFunctionOnSet(g, S) = 0
    BY <1>2, <2>1, SumZero
  <2> QED BY <1>1, <1>7, <1>10, <2>2 DEF RankedOn
<1> QED BY <1>1, <1>8, <1>9, <1>10

LEMMA CardsRank ==
  ASSUME ExamsTypeOK PROVE RanksAreCompetition
<1> SUFFICES ASSUME NEW e \in Exams
             PROVE  CardRanks(e) = [s \in InSection(exam[e].class, exam[e].section) |->
                      IF \A x \in Series(e) : ~Attempted(x, s) THEN None
                      ELSE 1 + Cardinality({t \in InSection(exam[e].class, exam[e].section) :
                                              CardTotal(e, t) > CardTotal(e, s)})]
  BY DEF RanksAreCompetition
<1>1. PICK who : who = InSection(exam[e].class, exam[e].section)
  OBVIOUS
<1>2. IsFiniteSet(who) /\ who \subseteq Students
  BY <1>1, ExamsAssumption, FS_Subset DEF InSection
<1>3. PICK value : value = [s \in who |-> RankedOn(e, s)]
  OBVIOUS
<1>4. \A s \in who : value[s] = RankedOn(e, s)
  BY <1>3
<1>5. \A s \in who : CardTotal(e, s) \in Nat /\ (value[s] = None \/ value[s] = CardTotal(e, s))
  BY <1>2, <1>4, CardsAdd
<1>6. \A s \in who : value[s] = None <=> \A x \in Series(e) : ~Attempted(x, s)
  <2>1. None \notin Nat
    BY ExamsAssumption
  <2> QED BY <1>2, <1>4, <2>1, CardsAdd
<1>7. \A s \in who : value[s] = None => CardTotal(e, s) = 0
  BY <1>2, <1>6, CardsAdd
<1>8. CardRanks(e) = Ranks(value, who)
  BY <1>1, <1>3 DEF CardRanks
<1>9. @ = [s \in who |-> IF value[s] = None THEN None
                 ELSE 1 + Cardinality({t \in who : value[t] # None /\ value[t] > value[s]})]
  BY <1>2, <1>5, RanksAre
<1>10. ASSUME NEW s \in who, value[s] # None
       PROVE  {t \in who : value[t] # None /\ value[t] > value[s]}
                = {t \in who : CardTotal(e, t) > CardTotal(e, s)}
  <2>1. value[s] = CardTotal(e, s) /\ CardTotal(e, s) \in Nat
    BY <1>5, <1>10
  <2>2. ASSUME NEW t \in who
        PROVE  value[t] # None /\ value[t] > value[s] <=> CardTotal(e, t) > CardTotal(e, s)
    <3>1. CardTotal(e, t) \in Nat
      BY <1>5
    <3>2. CASE value[t] = None
      BY <1>7, <2>1, <3>1, <3>2
    <3>3. CASE value[t] # None
      BY <1>5, <2>1, <3>3
    <3> QED BY <3>2, <3>3
  <2> QED BY <2>2
<1>11. PICK d : d = [s \in who |-> 1 + Cardinality({t \in who : value[t] # None /\ value[t] > value[s]})]
  OBVIOUS
<1>12. PICK c : c = [s \in who |-> 1 + Cardinality({t \in who : CardTotal(e, t) > CardTotal(e, s)})]
  OBVIOUS
<1>13. \A s \in who : value[s] # None => d[s] = c[s]
  BY <1>10, <1>11, <1>12
<1>14. CardRanks(e) = [s \in who |-> IF value[s] = None THEN None ELSE d[s]]
  BY <1>8, <1>9, <1>11, Zenon
<1>15. @ = [s \in who |-> IF \A x \in Series(e) : ~Attempted(x, s) THEN None ELSE c[s]]
  BY <1>6, <1>13
<1> QED BY <1>1, <1>12, <1>14, <1>15, Zenon

\* All desks at once, at any moment, the ranks that computeRanks would put on the report
\* cards of a section are those of a competition on the totals the cards show.
THEOREM RanksFollowTotals == AcademicsSpec => []RanksAreCompetition
<1>1. AcademicsInv => RanksAreCompetition
  BY CardsRank DEF AcademicsInv, ExamInv
<1> QED BY AcademicsInvariant, <1>1, PTL
=============================================================================
