---------------------------- MODULE LibraryProofs ----------------------------
(***************************************************************************)
(* Theorems about Library, for any number of copies, members, loans and    *)
(* requests: the bound on open loans and what the rows say of the loans in *)
(* any interleaving, and the lending desk it implements one request at a   *)
(* time.                                                                   *)
(***************************************************************************)
EXTENDS Library, FiniteSetTheorems, TLAPS

LEMMA IdleTyped == IdleReq \in RequestState
BY DEF IdleReq, RequestState

LEMMA EndsTyped ==
  ASSUME LibTypeOK, NEW r \in Requests, Ends(r)
  PROVE  req' \in [Requests -> RequestState]
BY IdleTyped DEF LibTypeOK, Ends

LEMMA GoesTyped ==
  ASSUME LibTypeOK, NEW r \in Requests, NEW pc \in {"count", "lend", "fulfil", "drop book"},
         Goes(r, pc)
  PROVE  req' \in [Requests -> RequestState]
<1>1. [req[r] EXCEPT !.pc = pc] \in RequestState
  BY DEF LibTypeOK, RequestState
<1> QED BY <1>1 DEF LibTypeOK, Goes

\* A request that starts: its record is IdleReq with some fields given.
LEMMA StartTyped ==
  ASSUME LibTypeOK, NEW r \in Requests, NEW q \in RequestState, req' = [req EXCEPT ![r] = q]
  PROVE  req' \in [Requests -> RequestState]
BY DEF LibTypeOK

LEMMA CascadeTyped ==
  ASSUME LibTypeOK, NEW C, NEW M, NEW B, Cascade(C, M, B)
  PROVE  loan' \in [Loans -> LoanRow] /\ resv' \in [Reservations -> ReservationRow]
<1>1. \A l \in Loans : [loan[l] EXCEPT !.status = "gone"] \in LoanRow
  BY DEF LibTypeOK, LoanRow
<1>2. \A v \in Reservations : [resv[v] EXCEPT !.status = "gone"] \in ReservationRow
  BY DEF LibTypeOK, ReservationRow
<1> QED BY <1>1, <1>2 DEF Cascade, LibTypeOK

LEMMA TypeInit == Init => LibTypeOK
<1> SUFFICES ASSUME Init PROVE LibTypeOK
  OBVIOUS
<1>1. copy \in [Copies -> CopyRow] /\ loan \in [Loans -> LoanRow]
      /\ resv \in [Reservations -> ReservationRow]
  BY DEF Init, CopyRow, LoanRow, ReservationRow
<1> QED BY <1>1, IdleTyped DEF Init, LibTypeOK

\* Requests read: rows stay, the request's record keeps its type.
LEMMA ReadsTyped ==
  ASSUME LibTypeOK, NEW r \in Requests,
         \/ \E c \in Copies : IssueReadCopy(r, c) \/ RemoveCopyRead(r, c)
         \/ \E m \in Members : RemoveMemberRead(r, m)
         \/ \E b \in Books : RemoveBookRead(r, b)
         \/ \E l \in Loans : ReturnRead(r, l) \/ SettleRead(r, l)
         \/ \E v \in Reservations : FulfilRead(r, v) \/ CancelRead(r, v)
         \/ IssueReadMember(r) \/ IssueCount(r) \/ RemoveBookCount(r)
         \/ Refused(r) \/ CutShort(r)
  PROVE  LibTypeOK' /\ NothingWritten
<1>1. NothingWritten
  BY DEF IssueReadCopy, RemoveCopyRead, RemoveMemberRead, RemoveBookRead, ReturnRead, SettleRead,
         FulfilRead, CancelRead, IssueReadMember, IssueCount, RemoveBookCount, Refused, CutShort
<1>2. ASSUME NEW c \in Copies, IssueReadCopy(r, c) PROVE req' \in [Requests -> RequestState]
  <2>1. ASSUME req' = [req EXCEPT ![r].pc = "member", ![r].copy = c]
        PROVE  req' \in [Requests -> RequestState]
    <3>1. [req[r] EXCEPT !.pc = "member", !.copy = c] \in RequestState
      BY DEF LibTypeOK, RequestState
    <3> QED BY <2>1, <3>1 DEF LibTypeOK
  <2>2. ASSUME NEW m \in Members, req' = [req EXCEPT ![r] =
                 [IdleReq EXCEPT !.pc = "member", !.copy = c, !.member = m]]
        PROVE  req' \in [Requests -> RequestState]
    <3>1. [IdleReq EXCEPT !.pc = "member", !.copy = c, !.member = m] \in RequestState
      BY DEF IdleReq, RequestState
    <3> QED BY <2>2, <3>1, StartTyped
  <2> QED BY <1>2, <2>1, <2>2 DEF IssueReadCopy
<1>3. ASSUME NEW c \in Copies, RemoveCopyRead(r, c) PROVE req' \in [Requests -> RequestState]
  <2>1. [IdleReq EXCEPT !.pc = "drop copy", !.copy = c] \in RequestState
    BY DEF IdleReq, RequestState
  <2> QED BY <1>3, <2>1, StartTyped DEF RemoveCopyRead
<1>4. ASSUME NEW m \in Members, RemoveMemberRead(r, m)
      PROVE  req' \in [Requests -> RequestState]
  <2>1. [IdleReq EXCEPT !.pc = "drop member", !.member = m] \in RequestState
    BY DEF IdleReq, RequestState
  <2> QED BY <1>4, <2>1, StartTyped DEF RemoveMemberRead
<1>5. ASSUME NEW b \in Books, RemoveBookRead(r, b) PROVE req' \in [Requests -> RequestState]
  <2>1. [IdleReq EXCEPT !.pc = "reservations", !.book = b] \in RequestState
    BY DEF IdleReq, RequestState
  <2> QED BY <1>5, <2>1, StartTyped DEF RemoveBookRead
<1>6. ASSUME NEW l \in Loans, ReturnRead(r, l) \/ SettleRead(r, l)
      PROVE  req' \in [Requests -> RequestState]
  <2>1. /\ [IdleReq EXCEPT !.pc = "return", !.loan = l] \in RequestState
        /\ [IdleReq EXCEPT !.pc = "settle", !.loan = l] \in RequestState
    BY DEF IdleReq, RequestState
  <2> QED BY <1>6, <2>1, StartTyped DEF ReturnRead, SettleRead
<1>7. ASSUME NEW v \in Reservations, FulfilRead(r, v)
      PROVE  req' \in [Requests -> RequestState]
  <2>1. resv[v].member \in Members \cup {None}
    BY DEF LibTypeOK, ReservationRow
  <2>2. [IdleReq EXCEPT !.pc = "reserved", !.resv = v, !.member = resv[v].member]
          \in RequestState
    BY <2>1 DEF IdleReq, RequestState
  <2> QED BY <1>7, <2>2, StartTyped DEF FulfilRead
<1>8. ASSUME NEW v \in Reservations, CancelRead(r, v)
      PROVE  req' \in [Requests -> RequestState]
  <2>1. [IdleReq EXCEPT !.pc = "cancel", !.resv = v] \in RequestState
    BY DEF IdleReq, RequestState
  <2> QED BY <1>8, <2>1, StartTyped DEF CancelRead
<1>9. ASSUME IssueReadMember(r) \/ IssueCount(r) \/ RemoveBookCount(r)
      PROVE  req' \in [Requests -> RequestState]
  BY <1>9, GoesTyped DEF IssueReadMember, IssueCount, RemoveBookCount
<1>10. ASSUME Refused(r) \/ CutShort(r) PROVE req' \in [Requests -> RequestState]
  BY <1>10, EndsTyped DEF Refused, CutShort
<1>11. req' \in [Requests -> RequestState]
  BY <1>2, <1>3, <1>4, <1>5, <1>6, <1>7, <1>8, <1>9, <1>10
<1> QED BY <1>1, <1>11 DEF NothingWritten, LibTypeOK

LEMMA FineTyped ==
  ASSUME NEW d \in LateDays, NEW rate \in Rates, NEW cap \in Caps
  PROVE  CalculateFine(d, rate, cap) \in Nat
<1>1. d \in Nat /\ rate \in Nat /\ cap \in Nat \cup {None}
  BY LibraryAssumption
<1>2. d * rate \in Nat
  BY <1>1
<1> QED BY <1>1, <1>2 DEF CalculateFine

LEMMA ReturnedTyped ==
  ASSUME LibTypeOK, NEW l, NEW fine \in Nat
  PROVE  [loan EXCEPT ![l].status = "returned", ![l].fine = fine,
            ![l].fineStatus = IF fine > 0 THEN "pending" ELSE "none"] \in [Loans -> LoanRow]
<1>1. ASSUME NEW row \in LoanRow, NEW s \in {"pending", "none"}
      PROVE  [row EXCEPT !.status = "returned", !.fine = fine, !.fineStatus = s] \in LoanRow
  BY DEF LoanRow
<1>2. (IF fine > 0 THEN "pending" ELSE "none") \in {"pending", "none"}
  OBVIOUS
<1> QED BY <1>1, <1>2 DEF LibTypeOK

LEMMA SettledTyped ==
  ASSUME LibTypeOK, NEW l, NEW s \in {"paid", "waived"}
  PROVE  [loan EXCEPT ![l].fineStatus = s] \in [Loans -> LoanRow]
<1>1. ASSUME NEW row \in LoanRow PROVE [row EXCEPT !.fineStatus = s] \in LoanRow
  BY DEF LoanRow
<1> QED BY <1>1 DEF LibTypeOK

LEMMA CopyStatusTyped ==
  ASSUME LibTypeOK, NEW c, NEW status \in {"available", "issued", "unfit", "gone"}
  PROVE  [copy EXCEPT ![c].status = status] \in [Copies -> CopyRow]
<1>1. ASSUME NEW row \in CopyRow PROVE [row EXCEPT !.status = status] \in CopyRow
  BY DEF CopyRow
<1> QED BY <1>1 DEF LibTypeOK

\* The writing steps.
LEMMA WritesTyped ==
  ASSUME LibTypeOK, NEW r \in Requests,
         \/ IssueCommit(r) \/ FulfilMark(r) \/ ReturnCommit(r) \/ Settle(r) \/ Cancel(r)
         \/ RemoveCopy(r) \/ RemoveMember(r) \/ RemoveBook(r)
  PROVE  LibTypeOK'
<1> USE DEF LibTypeOK
<1>0. req[r] \in RequestState
  OBVIOUS
<1>1. CASE IssueCommit(r)
  <2>1. PICK l \in Loans :
          loan' = [loan EXCEPT ![l] = [@ EXCEPT !.status = "active",
                     !.copy = req[r].copy, !.member = req[r].member]]
    BY <1>1 DEF IssueCommit
  <2>2. [loan[l] EXCEPT !.status = "active", !.copy = req[r].copy, !.member = req[r].member]
          \in LoanRow
    <3>1. loan[l] \in LoanRow
      OBVIOUS
    <3>2. req[r].copy \in Copies \cup {None} /\ req[r].member \in Members \cup {None}
      BY <1>0 DEF RequestState
    <3> HIDE DEF LibTypeOK
    <3> QED BY <3>1, <3>2 DEF LoanRow
  <2>3. loan' \in [Loans -> LoanRow]
    BY <2>1, <2>2
  <2>4. copy' \in [Copies -> CopyRow]
    BY <1>1 DEF IssueCommit, CopyRow
  <2>5. req' \in [Requests -> RequestState]
    BY <1>1, EndsTyped, GoesTyped DEF IssueCommit
  <2> QED BY <1>1, <2>3, <2>4, <2>5 DEF IssueCommit
<1>2. CASE FulfilMark(r) \/ Cancel(r)
  <2>1. resv' \in [Reservations -> ReservationRow]
    BY <1>2 DEF FulfilMark, Cancel, ReservationRow
  <2>2. req' \in [Requests -> RequestState]
    BY <1>2, EndsTyped DEF FulfilMark, Cancel
  <2> QED BY <1>2, <2>1, <2>2 DEF FulfilMark, Cancel
<1>3. CASE ReturnCommit(r)
  <2>1. PICK fine \in Fines :
          loan' = [loan EXCEPT ![req[r].loan].status = "returned", ![req[r].loan].fine = fine,
                     ![req[r].loan].fineStatus = IF fine > 0 THEN "pending" ELSE "none"]
    BY <1>3 DEF ReturnCommit
  <2>2. fine \in Nat
    BY FineTyped DEF Fines
  <2>3. loan' \in [Loans -> LoanRow]
    BY <2>1, <2>2, ReturnedTyped
  <2>4. copy' \in [Copies -> CopyRow]
    <3>1. PICK status \in {"available", "unfit"} :
            copy' = [copy EXCEPT ![loan[req[r].loan].copy].status = status]
      BY <1>3 DEF ReturnCommit
    <3> QED BY <3>1, CopyStatusTyped
  <2>5. Ends(r)
    BY <1>3 DEF ReturnCommit
  <2>6. req' \in [Requests -> RequestState]
    BY <2>5, EndsTyped
  <2>7. UNCHANGED <<book, member, resv, overlap>>
    BY <1>3 DEF ReturnCommit
  <2> QED BY <2>3, <2>4, <2>6, <2>7
<1>4. CASE Settle(r)
  <2>1. PICK s \in {"paid", "waived"} : loan' = [loan EXCEPT ![req[r].loan].fineStatus = s]
    BY <1>4 DEF Settle
  <2>2. loan' \in [Loans -> LoanRow]
    BY <2>1, SettledTyped
  <2>3. req' \in [Requests -> RequestState]
    BY <1>4, EndsTyped DEF Settle
  <2> QED BY <1>4, <2>2, <2>3 DEF Settle
<1>5. CASE RemoveCopy(r)
  <2>1. copy' \in [Copies -> CopyRow]
    BY <1>5 DEF RemoveCopy, CopyRow
  <2>2. req' \in [Requests -> RequestState]
    BY <1>5, EndsTyped DEF RemoveCopy
  <2>3. loan' \in [Loans -> LoanRow] /\ resv' \in [Reservations -> ReservationRow]
    BY <1>5, CascadeTyped DEF RemoveCopy
  <2> QED BY <1>5, <2>1, <2>2, <2>3 DEF RemoveCopy
<1>6. CASE RemoveMember(r)
  <2>1. req' \in [Requests -> RequestState]
    BY <1>6, EndsTyped DEF RemoveMember
  <2>2. loan' \in [Loans -> LoanRow] /\ resv' \in [Reservations -> ReservationRow]
    BY <1>6, CascadeTyped DEF RemoveMember
  <2> QED BY <1>6, <2>1, <2>2 DEF RemoveMember
<1>7. CASE RemoveBook(r)
  <2>1. \A c \in Copies : [copy[c] EXCEPT !.status = "gone"] \in CopyRow
    BY DEF CopyRow
  <2>2. copy' \in [Copies -> CopyRow]
    BY <1>7, <2>1 DEF RemoveBook
  <2>3. req' \in [Requests -> RequestState]
    BY <1>7, EndsTyped DEF RemoveBook
  <2>4. loan' \in [Loans -> LoanRow] /\ resv' \in [Reservations -> ReservationRow]
    BY <1>7, CascadeTyped DEF RemoveBook
  <2> QED BY <1>7, <2>2, <2>3, <2>4 DEF RemoveBook
<1> QED BY <1>1, <1>2, <1>3, <1>4, <1>5, <1>6, <1>7

\* Handlers with one write.
LEMMA SingleWritesTyped ==
  ASSUME LibTypeOK,
         \/ \E b \in Books : CreateBook(b) \/ \E c \in Copies : CreateCopy(c, b)
         \/ \E m \in Members :
              JoinLibrary(m) \/ UpdateMemberStatus(m) \/ \E b \in Books : Reserve(m, b)
  PROVE  LibTypeOK'
<1> USE DEF LibTypeOK
<1>1. ASSUME NEW b \in Books, CreateBook(b) PROVE LibTypeOK'
  BY <1>1 DEF CreateBook
<1>2. ASSUME NEW b \in Books, NEW c \in Copies, CreateCopy(c, b) PROVE LibTypeOK'
  BY <1>2 DEF CreateCopy, CopyRow
<1>3. ASSUME NEW m \in Members, JoinLibrary(m) \/ UpdateMemberStatus(m) PROVE LibTypeOK'
  BY <1>3 DEF JoinLibrary, UpdateMemberStatus
<1>4. ASSUME NEW m \in Members, NEW b \in Books, Reserve(m, b) PROVE LibTypeOK'
  BY <1>4 DEF Reserve, ReservationRow
<1> QED BY <1>1, <1>2, <1>3, <1>4

LEMMA TypeStep == LibTypeOK /\ [Next]_vars => LibTypeOK'
<1> SUFFICES ASSUME LibTypeOK, [Next]_vars PROVE LibTypeOK'
  OBVIOUS
<1>1. ASSUME NEW r \in Requests, RequestStep(r) PROVE LibTypeOK'
  BY <1>1, ReadsTyped, WritesTyped DEF RequestStep
<1>2. CASE UNCHANGED vars
  BY <1>2 DEF vars, LibTypeOK
<1> QED BY <1>1, <1>2, SingleWritesTyped DEF Next

\* The library's rows and its requests keep their types, in every behaviour.
THEOREM TypeCorrect == Spec => []LibTypeOK
BY TypeInit, TypeStep, PTL DEF Spec

-----------------------------------------------------------------------------
(* The limit.  A request that has counted a member's loans and not committed  *)
(* yet is as good as one more loan; what is counted with it stays bounded.    *)

Passed(m) == {r \in Requests : req[r].pc = "lend" /\ req[r].member = m}

Bounded ==
  \A m \in Members : Cardinality(ActiveLoans(m)) + Cardinality(Passed(m))
                       <= MaxBooks[m] + Cardinality(Requests) - 1

LEMMA Finite ==
  ASSUME NEW m
  PROVE  /\ IsFiniteSet(ActiveLoans(m)) /\ Cardinality(ActiveLoans(m)) \in Nat
         /\ IsFiniteSet(Passed(m)) /\ Cardinality(Passed(m)) \in Nat
         /\ Cardinality(Passed(m)) <= Cardinality(Requests)
         /\ Cardinality(Requests) \in Nat
<1>1. ActiveLoans(m) \subseteq Loans /\ Passed(m) \subseteq Requests
  BY DEF ActiveLoans, Passed
<1>2. IsFiniteSet(Loans) /\ IsFiniteSet(Requests)
  BY LibraryAssumption
<1>3. IsFiniteSet(ActiveLoans(m)) /\ IsFiniteSet(Passed(m))
  BY <1>1, <1>2, FS_Subset
<1>4. Cardinality(Passed(m)) <= Cardinality(Requests)
  BY <1>1, <1>2, FS_Subset
<1> QED BY <1>2, <1>3, <1>4, FS_CardinalityType

LEMMA BoundedInit == Init => Bounded
<1> SUFFICES ASSUME Init, NEW m \in Members
             PROVE  Cardinality(ActiveLoans(m)) + Cardinality(Passed(m))
                      <= MaxBooks[m] + Cardinality(Requests) - 1
  BY DEF Bounded
<1>1. ActiveLoans(m) = {} /\ Passed(m) = {}
  BY DEF Init, ActiveLoans, Passed, IdleReq
<1>2. Cardinality(ActiveLoans(m)) = 0 /\ Cardinality(Passed(m)) = 0
  BY <1>1, FS_EmptySet
<1>3. MaxBooks[m] \in Nat \ {0}
  BY LibraryAssumption
<1>4. Cardinality(Requests) \in Nat
  BY Finite
<1> QED BY <1>2, <1>3, <1>4

\* No loan becomes active and no request passes the count.
NothingNew ==
  /\ \A l \in Loans : loan'[l].status = "active" =>
       loan[l].status = "active" /\ loan'[l].member = loan[l].member
  /\ \A q \in Requests : req'[q].pc = "lend" =>
       req[q].pc = "lend" /\ req'[q].member = req[q].member

LEMMA NothingNewBounded ==
  ASSUME Bounded, NothingNew PROVE Bounded'
<1> SUFFICES ASSUME NEW m \in Members
             PROVE  Cardinality(ActiveLoans(m)') + Cardinality(Passed(m)')
                      <= MaxBooks[m] + Cardinality(Requests) - 1
  BY DEF Bounded
<1>1. ActiveLoans(m)' \subseteq ActiveLoans(m) /\ Passed(m)' \subseteq Passed(m)
  BY DEF NothingNew, ActiveLoans, Passed
<1>2. /\ Cardinality(ActiveLoans(m)') <= Cardinality(ActiveLoans(m))
      /\ Cardinality(Passed(m)') <= Cardinality(Passed(m))
      /\ Cardinality(ActiveLoans(m)') \in Nat /\ Cardinality(Passed(m)') \in Nat
  BY <1>1, Finite, FS_Subset, FS_CardinalityType
<1>3. MaxBooks[m] \in Nat
  BY LibraryAssumption
<1>4. Cardinality(ActiveLoans(m)) + Cardinality(Passed(m))
        <= MaxBooks[m] + Cardinality(Requests) - 1
  BY DEF Bounded
<1> QED BY <1>2, <1>3, <1>4, Finite

LEMMA EndsPasses ==
  ASSUME LibTypeOK, NEW r \in Requests, Ends(r), NEW q \in Requests, req'[q].pc = "lend"
  PROVE  q # r /\ req'[q] = req[q]
BY DEF LibTypeOK, Ends, IdleReq

LEMMA GoesPasses ==
  ASSUME LibTypeOK, NEW r \in Requests, NEW pc, pc # "lend", Goes(r, pc),
         NEW q \in Requests, req'[q].pc = "lend"
  PROVE  q # r /\ req'[q] = req[q]
<1>1. req'[r].pc = pc
  BY DEF LibTypeOK, Goes, RequestState
<1> QED BY <1>1 DEF LibTypeOK, Goes

\* A deletion makes no loan active.
LEMMA CascadeLoans ==
  ASSUME LibTypeOK, NEW C, NEW M, NEW B, Cascade(C, M, B), NEW l \in Loans,
         loan'[l].status = "active"
  PROVE  loan'[l] = loan[l]
<1>1. [loan[l] EXCEPT !.status = "gone"].status = "gone"
  BY DEF LibTypeOK, LoanRow
<1> QED BY <1>1 DEF Cascade

LEMMA OtherReads ==
  ASSUME LibTypeOK, NEW r \in Requests,
         \/ \E c \in Copies : IssueReadCopy(r, c) \/ RemoveCopyRead(r, c)
         \/ \E m \in Members : RemoveMemberRead(r, m)
         \/ \E b \in Books : RemoveBookRead(r, b)
         \/ \E l \in Loans : ReturnRead(r, l) \/ SettleRead(r, l)
         \/ \E v \in Reservations : FulfilRead(r, v) \/ CancelRead(r, v)
         \/ IssueReadMember(r) \/ RemoveBookCount(r) \/ Refused(r) \/ CutShort(r)
  PROVE  NothingNew
<1>1. UNCHANGED loan
  BY ReadsTyped DEF NothingWritten
<1> SUFFICES ASSUME NEW q \in Requests, req'[q].pc = "lend" PROVE req'[q] = req[q]
  BY <1>1 DEF NothingNew
<1>2. CASE \/ IssueReadMember(r) \/ RemoveBookCount(r)
  BY <1>2, GoesPasses DEF IssueReadMember, RemoveBookCount
<1>3. CASE Refused(r) \/ CutShort(r)
  BY <1>3, EndsPasses DEF Refused, CutShort
<1>4. ASSUME NEW c \in Copies, req' = [req EXCEPT ![r].pc = "member", ![r].copy = c]
      PROVE  req'[q] = req[q]
  <2>1. req'[r].pc = "member"
    BY <1>4 DEF LibTypeOK, RequestState
  <2> QED BY <1>4, <2>1 DEF LibTypeOK
<1>5. ASSUME NEW row, row.pc # "lend", req' = [req EXCEPT ![r] = row]
      PROVE  req'[q] = req[q]
  BY <1>5 DEF LibTypeOK
<1>6. ASSUME NEW c \in Copies, IssueReadCopy(r, c) PROVE req'[q] = req[q]
  <2>1. ASSUME NEW m \in Members, req' = [req EXCEPT ![r] =
                 [IdleReq EXCEPT !.pc = "member", !.copy = c, !.member = m]]
        PROVE  req'[q] = req[q]
    <3>1. [IdleReq EXCEPT !.pc = "member", !.copy = c, !.member = m].pc # "lend"
      BY DEF IdleReq
    <3> QED BY <2>1, <3>1, <1>5
  <2> QED BY <1>4, <1>6, <2>1 DEF IssueReadCopy
<1>7. ASSUME NEW c \in Copies, RemoveCopyRead(r, c) PROVE req'[q] = req[q]
  <2>1. [IdleReq EXCEPT !.pc = "drop copy", !.copy = c].pc # "lend"
    BY DEF IdleReq
  <2> QED BY <1>7, <2>1, <1>5 DEF RemoveCopyRead
<1>8. ASSUME NEW m \in Members, RemoveMemberRead(r, m) PROVE req'[q] = req[q]
  <2>1. [IdleReq EXCEPT !.pc = "drop member", !.member = m].pc # "lend"
    BY DEF IdleReq
  <2> QED BY <1>8, <2>1, <1>5 DEF RemoveMemberRead
<1>9. ASSUME NEW b \in Books, RemoveBookRead(r, b) PROVE req'[q] = req[q]
  <2>1. [IdleReq EXCEPT !.pc = "reservations", !.book = b].pc # "lend"
    BY DEF IdleReq
  <2> QED BY <1>9, <2>1, <1>5 DEF RemoveBookRead
<1>10. ASSUME NEW l \in Loans, ReturnRead(r, l) \/ SettleRead(r, l) PROVE req'[q] = req[q]
  <2>1. /\ [IdleReq EXCEPT !.pc = "return", !.loan = l].pc # "lend"
        /\ [IdleReq EXCEPT !.pc = "settle", !.loan = l].pc # "lend"
    BY DEF IdleReq
  <2> QED BY <1>10, <2>1, <1>5 DEF ReturnRead, SettleRead
<1>11. ASSUME NEW v \in Reservations, FulfilRead(r, v) \/ CancelRead(r, v)
       PROVE  req'[q] = req[q]
  <2>1. /\ [IdleReq EXCEPT !.pc = "reserved", !.resv = v, !.member = resv[v].member].pc # "lend"
        /\ [IdleReq EXCEPT !.pc = "cancel", !.resv = v].pc # "lend"
    BY DEF IdleReq
  <2> QED BY <1>11, <2>1, <1>5 DEF FulfilRead, CancelRead
<1> QED BY <1>2, <1>3, <1>6, <1>7, <1>8, <1>9, <1>10, <1>11

LEMMA OtherWrites ==
  ASSUME LibTypeOK, NEW r \in Requests,
         \/ FulfilMark(r) \/ ReturnCommit(r) \/ Settle(r) \/ Cancel(r)
         \/ RemoveCopy(r) \/ RemoveMember(r) \/ RemoveBook(r)
  PROVE  NothingNew
<1>1. Ends(r)
  BY DEF FulfilMark, ReturnCommit, Settle, Cancel, RemoveCopy, RemoveMember, RemoveBook
<1>2. \A q \in Requests : req'[q].pc = "lend" => req'[q] = req[q]
  BY <1>1, EndsPasses
<1> SUFFICES ASSUME NEW l \in Loans, loan'[l].status = "active"
             PROVE  loan[l].status = "active" /\ loan'[l].member = loan[l].member
  BY <1>2 DEF NothingNew
<1>3. CASE FulfilMark(r) \/ Cancel(r)
  BY <1>3 DEF FulfilMark, Cancel
<1>4. CASE RemoveCopy(r) \/ RemoveMember(r) \/ RemoveBook(r)
  BY <1>4, CascadeLoans DEF RemoveCopy, RemoveMember, RemoveBook
<1>5. CASE Settle(r)
  BY <1>5 DEF Settle, LibTypeOK, LoanRow
<1>6. CASE ReturnCommit(r)
  <2>1. PICK fine \in Fines :
          loan' = [loan EXCEPT ![req[r].loan].status = "returned", ![req[r].loan].fine = fine,
                     ![req[r].loan].fineStatus = IF fine > 0 THEN "pending" ELSE "none"]
    BY <1>6 DEF ReturnCommit
  <2>2. ASSUME l = req[r].loan PROVE loan'[l].status = "returned"
    BY <2>1, <2>2 DEF LibTypeOK, LoanRow
  <2>3. ASSUME l # req[r].loan PROVE loan'[l] = loan[l]
    BY <2>1, <2>3 DEF LibTypeOK
  <2> QED BY <2>2, <2>3
<1> QED BY <1>3, <1>4, <1>5, <1>6

LEMMA IssueCountBounded ==
  ASSUME LibTypeOK, Bounded, NEW r \in Requests, IssueCount(r) PROVE Bounded'
<1> SUFFICES ASSUME NEW m \in Members
             PROVE  Cardinality(ActiveLoans(m)') + Cardinality(Passed(m)')
                      <= MaxBooks[m] + Cardinality(Requests) - 1
  BY DEF Bounded
<1>1. ActiveLoans(m)' = ActiveLoans(m)
  BY DEF IssueCount, NothingWritten, ActiveLoans
<1>2. /\ Cardinality(ActiveLoans(m)) \in Nat /\ Cardinality(Passed(m)) \in Nat
      /\ Cardinality(Requests) \in Nat /\ MaxBooks[m] \in Nat
  BY Finite, LibraryAssumption
<1>3. Passed(m)' \subseteq Requests
  BY DEF Passed
<1>4. IsFiniteSet(Requests)
  BY LibraryAssumption
<1>5. Cardinality(Passed(m)') \in Nat /\ Cardinality(Passed(m)') <= Cardinality(Requests)
  BY <1>3, <1>4, FS_Subset, FS_CardinalityType
<1>6. CASE m = req[r].member
  <2>1. Cardinality(ActiveLoans(m)) < MaxBooks[m]
    BY <1>6 DEF IssueCount
  <2> QED BY <1>1, <1>2, <1>5, <2>1
<1>7. CASE m # req[r].member
  <2>1. Passed(m)' \subseteq Passed(m)
    BY <1>7 DEF IssueCount, Goes, Passed, LibTypeOK, RequestState
  <2>2. Cardinality(Passed(m)') <= Cardinality(Passed(m))
    BY <2>1, Finite, FS_Subset
  <2>3. Cardinality(ActiveLoans(m)) + Cardinality(Passed(m))
          <= MaxBooks[m] + Cardinality(Requests) - 1
    BY DEF Bounded
  <2> QED BY <1>1, <1>2, <1>5, <2>2, <2>3
<1> QED BY <1>6, <1>7

LEMMA IssueCommitBounded ==
  ASSUME LibTypeOK, Bounded, NEW r \in Requests, IssueCommit(r) PROVE Bounded'
<1> SUFFICES ASSUME NEW m \in Members
             PROVE  Cardinality(ActiveLoans(m)') + Cardinality(Passed(m)')
                      <= MaxBooks[m] + Cardinality(Requests) - 1
  BY DEF Bounded
<1>1. PICK l \in Loans : /\ loan[l].status = "free"
                         /\ loan' = [loan EXCEPT ![l] = [@ EXCEPT !.status = "active",
                              !.copy = req[r].copy, !.member = req[r].member]]
  BY DEF IssueCommit
<1>2. \A q \in Requests : req'[q].pc = "lend" => q # r /\ req'[q] = req[q]
  BY EndsPasses, GoesPasses DEF IssueCommit
<1>3. Passed(m)' \subseteq Passed(m) \ {r}
  BY <1>2 DEF Passed
<1>4. /\ Cardinality(ActiveLoans(m)) \in Nat /\ Cardinality(Passed(m)) \in Nat
      /\ Cardinality(Requests) \in Nat /\ MaxBooks[m] \in Nat
      /\ IsFiniteSet(ActiveLoans(m)) /\ IsFiniteSet(Passed(m))
  BY Finite, LibraryAssumption
<1>5. Cardinality(ActiveLoans(m)) + Cardinality(Passed(m))
        <= MaxBooks[m] + Cardinality(Requests) - 1
  BY DEF Bounded
<1>6. loan'[l].member = req[r].member /\ \A k \in Loans : k # l => loan'[k] = loan[k]
  BY <1>1 DEF LibTypeOK, LoanRow
<1>7. CASE m = req[r].member
  <2>1. ActiveLoans(m)' \subseteq ActiveLoans(m) \cup {l}
    BY <1>6 DEF ActiveLoans
  <2>2. l \notin ActiveLoans(m)
    BY <1>1 DEF ActiveLoans
  <2>3. /\ IsFiniteSet(ActiveLoans(m) \cup {l})
        /\ Cardinality(ActiveLoans(m) \cup {l}) = Cardinality(ActiveLoans(m)) + 1
    BY <1>4, <2>2, FS_AddElement
  <2>4. /\ Cardinality(ActiveLoans(m)') <= Cardinality(ActiveLoans(m)) + 1
        /\ Cardinality(ActiveLoans(m)') \in Nat
    BY <2>1, <2>3, FS_Subset, FS_CardinalityType
  <2>5. r \in Passed(m)
    BY <1>7 DEF IssueCommit, Passed
  <2>6. /\ IsFiniteSet(Passed(m) \ {r})
        /\ Cardinality(Passed(m) \ {r}) = Cardinality(Passed(m)) - 1
    BY <1>4, <2>5, FS_RemoveElement
  <2>7. /\ Cardinality(Passed(m)') <= Cardinality(Passed(m)) - 1
        /\ Cardinality(Passed(m)') \in Nat
    BY <1>3, <2>6, FS_Subset, FS_CardinalityType
  <2> QED BY <1>4, <1>5, <2>4, <2>7
<1>8. CASE m # req[r].member
  <2>1. ActiveLoans(m)' \subseteq ActiveLoans(m) /\ Passed(m)' \subseteq Passed(m)
    BY <1>3, <1>6, <1>8 DEF ActiveLoans
  <2>2. /\ Cardinality(ActiveLoans(m)') <= Cardinality(ActiveLoans(m))
        /\ Cardinality(Passed(m)') <= Cardinality(Passed(m))
        /\ Cardinality(ActiveLoans(m)') \in Nat /\ Cardinality(Passed(m)') \in Nat
    BY <1>4, <2>1, FS_Subset, FS_CardinalityType
  <2> QED BY <1>4, <1>5, <2>2
<1> QED BY <1>7, <1>8

LEMMA BoundedStep == LibTypeOK /\ Bounded /\ [Next]_vars => Bounded'
<1> SUFFICES ASSUME LibTypeOK, Bounded, [Next]_vars PROVE Bounded'
  OBVIOUS
<1>1. ASSUME NEW r \in Requests, RequestStep(r) PROVE Bounded'
  <2>1. CASE IssueCount(r)
    BY <2>1, IssueCountBounded
  <2>2. CASE IssueCommit(r)
    BY <2>2, IssueCommitBounded
  <2>3. CASE ~IssueCount(r) /\ ~IssueCommit(r)
    <3>1. NothingNew
      BY <1>1, <2>3, OtherReads, OtherWrites DEF RequestStep
    <3> QED BY <3>1, NothingNewBounded
  <2> QED BY <2>1, <2>2, <2>3
<1>2. ASSUME UNCHANGED <<loan, req>> PROVE Bounded'
  <2>1. NothingNew
    BY <1>2 DEF NothingNew
  <2> QED BY <2>1, NothingNewBounded
<1>3. CASE UNCHANGED vars
  BY <1>2, <1>3 DEF vars
<1>4. ASSUME NEW b \in Books, CreateBook(b) \/ \E c \in Copies : CreateCopy(c, b)
      PROVE  Bounded'
  BY <1>2, <1>4 DEF CreateBook, CreateCopy
<1>5. ASSUME NEW m \in Members,
             JoinLibrary(m) \/ UpdateMemberStatus(m) \/ \E b \in Books : Reserve(m, b)
      PROVE  Bounded'
  BY <1>2, <1>5 DEF JoinLibrary, UpdateMemberStatus, Reserve
<1> QED BY <1>1, <1>3, <1>4, <1>5 DEF Next

\* However many requests race, a member's open loans never exceed maxBooks by as
\* many as there are requests: each can pass the count before another commits.
THEOREM OverrunLimited == Spec => []LimitOverrun
<1>1. Bounded => LimitOverrun
  <2> SUFFICES ASSUME Bounded, NEW m \in Members
               PROVE  Cardinality(ActiveLoans(m)) <= MaxBooks[m] + Cardinality(Requests) - 1
    BY DEF LimitOverrun
  <2>1. Cardinality(ActiveLoans(m)) + Cardinality(Passed(m))
          <= MaxBooks[m] + Cardinality(Requests) - 1
    BY DEF Bounded
  <2>2. MaxBooks[m] \in Nat
    BY LibraryAssumption
  <2> QED BY <2>1, <2>2, Finite
<1> QED BY TypeInit, TypeStep, BoundedInit, BoundedStep, <1>1, PTL DEF Spec

-----------------------------------------------------------------------------
(* What the rows say of the loans.  A request names rows that exist or once   *)
(* did; one at a time, what it read is still true when it writes.             *)

Named(q) ==
  /\ q.pc \in {"reserved", "member", "count", "lend", "drop member"} => q.member \in Members
  /\ q.pc \in {"member", "count", "lend", "drop copy"} => q.copy \in Copies
  /\ q.pc \in {"reserved", "fulfil", "cancel"} => q.resv \in Reservations
  /\ q.pc \in {"return", "settle"} => q.loan \in Loans
  /\ q.pc \in {"reservations", "drop book"} => q.book \in Books

\* A request that has a reservation lends to the member who made it.
ForItsMember(q) ==
  q.resv \in Reservations =>
    /\ resv[q.resv].status # "free"
    /\ q.pc \in {"reserved", "member", "count", "lend"} => resv[q.resv].member = q.member

RowsNamed ==
  /\ \A l \in Loans : loan[l].status # "free" =>
       loan[l].copy \in Copies /\ loan[l].member \in Members
  /\ \A v \in Reservations : resv[v].status # "free" => resv[v].member \in Members

NamesRight == RowsNamed /\ \A r \in Requests : Named(req[r]) /\ ForItsMember(req[r])

\* A reservation whose copy is lent counts as fulfilled before it is marked.
Marked(m) ==
  {v \in Reservations :
     /\ resv[v].member = m
     /\ \/ resv[v].status = "fulfilled"
        \/ \E r \in Requests : req[r].pc = "fulfil" /\ req[r].resv = v}

LentFor ==
  \A m \in Members : /\ IsFiniteSet(Marked(m))
                     /\ Cardinality(Marked(m)) <= Cardinality(EverLent(m))

StillTrue(q) ==
  /\ q.pc \in {"member", "count", "lend", "drop copy"} => copy[q.copy].status = "available"
  /\ q.pc = "lend" => Cardinality(ActiveLoans(q.member)) < MaxBooks[q.member]
  /\ q.pc = "return" => loan[q.loan].status = "active"
  /\ q.pc = "settle" => loan[q.loan].fineStatus = "pending"
  /\ q.pc = "drop member" => ActiveLoans(q.member) = {}
  /\ q.pc \in {"reservations", "drop book"} =>
       \A c \in Copies : HasCopy(c) => copy[c].book # q.book

LentOnce ==
  /\ \A l \in Loans : loan[l].status = "active" => copy[loan[l].copy].status = "issued"
  /\ \A l, k \in Loans :
       loan[l].status = "active" /\ loan[k].status = "active" /\ loan[l].copy = loan[k].copy
         => l = k
  /\ \A c \in Copies : copy[c].status = "issued" =>
       \E l \in Loans : loan[l].status = "active" /\ loan[l].copy = c
  /\ \A l \in Loans : loan[l].status \in {"free", "active"} => loan[l].fineStatus = "none"

Alone(r) == \A s \in Requests : s # r => req[s].pc = "idle"

InTurn ==
  ~overlap => /\ \A r \in Requests : req[r].pc # "idle" => Alone(r)
              /\ \A r \in Requests : StillTrue(req[r])
              /\ LentOnce

LibInv == LibTypeOK /\ NamesRight /\ LentFor /\ InTurn

\* A request whose rows stay goes on, or ends, with a record that is right.
Answers(r) ==
  \E q \in RequestState :
    /\ req' = [req EXCEPT ![r] = q]
    /\ q.pc # "fulfil" /\ Named(q) /\ ForItsMember(q)
    /\ ~overlap => StillTrue(q)

LEMMA IdleRight == IdleReq.pc = "idle" /\ Named(IdleReq) /\ ForItsMember(IdleReq) /\ StillTrue(IdleReq)
BY LibraryAssumption DEF IdleReq, Named, ForItsMember, StillTrue

LEMMA EndsAnswers ==
  ASSUME NEW r \in Requests, Ends(r) PROVE Answers(r)
BY IdleTyped, IdleRight DEF Ends, Answers

LEMMA StepAlone ==
  ASSUME LibTypeOK, InTurn, ~overlap, NEW r \in Requests, RequestStep(r) PROVE Alone(r)
<1>1. CASE Starts(r)
  BY <1>1 DEF Starts, MayStart, Alone
<1>2. CASE req[r].pc # "idle"
  BY <1>2 DEF InTurn
<1> QED BY <1>1, <1>2 DEF RequestStep, IssueReadCopy, RemoveCopyRead, RemoveMemberRead,
           RemoveBookRead, ReturnRead, SettleRead, FulfilRead, CancelRead, IssueReadMember,
           IssueCount, IssueCommit, FulfilMark, ReturnCommit, Settle, Cancel, RemoveCopy,
           RemoveMember, RemoveBookCount, RemoveBook, Refused, CutShort

\* One lemma per read: its record is right.
LEMMA FulfilReadAnswers ==
  ASSUME LibTypeOK, NamesRight, NEW r \in Requests, NEW v \in Reservations, FulfilRead(r, v)
  PROVE  Answers(r)
<1>1. resv[v].member \in Members /\ resv[v].status # "free"
  BY DEF NamesRight, RowsNamed, FulfilRead
<1>2. PICK m : m = resv[v].member
  OBVIOUS
<1>3. PICK q : q = [IdleReq EXCEPT !.pc = "reserved", !.resv = v, !.member = m]
  OBVIOUS
<1>4. q \in RequestState /\ q.pc = "reserved" /\ q.resv = v /\ q.member = m
  BY <1>1, <1>2, <1>3 DEF IdleReq, RequestState
<1>5. Named(q) /\ ForItsMember(q) /\ StillTrue(q)
  BY <1>1, <1>2, <1>4 DEF Named, ForItsMember, StillTrue
<1>6. req' = [req EXCEPT ![r] = q]
  BY <1>2, <1>3 DEF FulfilRead
<1> QED BY <1>4, <1>5, <1>6 DEF Answers

LEMMA IssueReadCopyAnswers ==
  ASSUME LibTypeOK, NamesRight, NEW r \in Requests, NEW c \in Copies, IssueReadCopy(r, c)
  PROVE  Answers(r)
<1>1. ASSUME NEW m \in Members, req' = [req EXCEPT ![r] =
               [IdleReq EXCEPT !.pc = "member", !.copy = c, !.member = m]]
      PROVE  Answers(r)
  <2>1. PICK q : q = [IdleReq EXCEPT !.pc = "member", !.copy = c, !.member = m]
    OBVIOUS
  <2>2. q \in RequestState /\ q.pc = "member" /\ q.copy = c /\ q.member = m /\ q.resv = None
    BY <2>1 DEF IdleReq, RequestState
  <2>3. Named(q) /\ ForItsMember(q) /\ StillTrue(q)
    BY <2>2, LibraryAssumption DEF Named, ForItsMember, StillTrue, IssueReadCopy
  <2> QED BY <1>1, <2>1, <2>2, <2>3 DEF Answers
<1>2. ASSUME req[r].pc = "reserved", req' = [req EXCEPT ![r].pc = "member", ![r].copy = c]
      PROVE  Answers(r)
  <2>1. PICK o : o = req[r]
    OBVIOUS
  <2>2. PICK q : q = [o EXCEPT !.pc = "member", !.copy = c]
    OBVIOUS
  <2>3. o \in RequestState /\ o.pc = "reserved" /\ Named(o) /\ ForItsMember(o)
    BY <1>2, <2>1 DEF LibTypeOK, NamesRight
  <2>4. q \in RequestState /\ q.pc = "member" /\ q.copy = c /\ q.member = o.member
        /\ q.resv = o.resv
    BY <2>2, <2>3 DEF RequestState
  <2>5. Named(q) /\ ForItsMember(q) /\ StillTrue(q)
    BY <2>3, <2>4 DEF Named, ForItsMember, StillTrue, IssueReadCopy
  <2>6. req' = [req EXCEPT ![r] = q]
    BY <1>2, <2>1, <2>2 DEF LibTypeOK
  <2> QED BY <2>4, <2>5, <2>6 DEF Answers
<1> QED BY <1>1, <1>2 DEF IssueReadCopy

\* A request that goes on: only its pc changes.
LEMMA GoesAnswers ==
  ASSUME LibTypeOK, NamesRight, InTurn, NEW r \in Requests,
         IssueReadMember(r) \/ IssueCount(r) \/ RemoveBookCount(r)
  PROVE  Answers(r)
<1>1. PICK o : o = req[r]
  OBVIOUS
<1>2. /\ o \in RequestState /\ Named(o) /\ ForItsMember(o)
      /\ ~overlap => StillTrue(o)
  BY <1>1 DEF LibTypeOK, NamesRight, InTurn
<1>3. ASSUME NEW pc \in {"count", "lend", "drop book"}, Goes(r, pc),
             pc # "drop book" => o.pc \in {"member", "count"},
             pc = "drop book" => o.pc = "reservations",
             pc = "lend" => Cardinality(ActiveLoans(o.member)) < MaxBooks[o.member]
      PROVE  Answers(r)
  <2>1. PICK q : q = [o EXCEPT !.pc = pc]
    OBVIOUS
  <2>2. /\ q \in RequestState /\ q.pc = pc /\ q.copy = o.copy /\ q.member = o.member
        /\ q.resv = o.resv /\ q.book = o.book
    BY <1>2, <2>1 DEF RequestState
  <2>3. Named(q) /\ ForItsMember(q)
    BY <1>2, <1>3, <2>2 DEF Named, ForItsMember
  <2>4. ASSUME ~overlap PROVE StillTrue(q)
    <3>1. StillTrue(o)
      BY <1>2, <2>4
    <3>2. CASE pc = "drop book"
      BY <1>3, <2>2, <3>1, <3>2 DEF StillTrue
    <3>3. CASE pc # "drop book"
      <4>1. copy[q.copy].status = "available"
        BY <1>3, <2>2, <3>1, <3>3 DEF StillTrue
      <4>2. q.pc \in {"count", "lend"}
        BY <2>2, <3>3
      <4>3. q.pc = "lend" => Cardinality(ActiveLoans(q.member)) < MaxBooks[q.member]
        BY <1>3, <2>2
      <4> QED BY <4>1, <4>2, <4>3 DEF StillTrue
    <3> QED BY <3>2, <3>3
  <2>5. req' = [req EXCEPT ![r] = q]
    BY <1>1, <1>3, <2>1 DEF Goes, LibTypeOK
  <2> QED BY <1>3, <2>2, <2>3, <2>4, <2>5 DEF Answers
<1>4. CASE IssueReadMember(r)
  BY <1>1, <1>3, <1>4 DEF IssueReadMember
<1>5. CASE IssueCount(r)
  BY <1>1, <1>3, <1>5 DEF IssueCount
<1>6. CASE RemoveBookCount(r)
  BY <1>1, <1>3, <1>6 DEF RemoveBookCount
<1> QED BY <1>4, <1>5, <1>6

LEMMA ReturnReadAnswers ==
  ASSUME LibTypeOK, NEW r \in Requests, NEW l \in Loans, ReturnRead(r, l) \/ SettleRead(r, l)
  PROVE  Answers(r)
<1>1. ASSUME NEW pc \in {"return", "settle"},
             req' = [req EXCEPT ![r] = [IdleReq EXCEPT !.pc = pc, !.loan = l]],
             pc = "return" => loan[l].status = "active",
             pc = "settle" => loan[l].fineStatus = "pending"
      PROVE  Answers(r)
  <2>1. PICK q : q = [IdleReq EXCEPT !.pc = pc, !.loan = l]
    OBVIOUS
  <2>2. q \in RequestState /\ q.pc = pc /\ q.loan = l /\ q.resv = None
    BY <2>1 DEF IdleReq, RequestState
  <2>3. Named(q) /\ ForItsMember(q) /\ StillTrue(q)
    BY <1>1, <2>2, LibraryAssumption DEF Named, ForItsMember, StillTrue
  <2> QED BY <1>1, <2>1, <2>2, <2>3 DEF Answers
<1> QED BY <1>1 DEF ReturnRead, SettleRead

LEMMA RemoveReadAnswers ==
  ASSUME LibTypeOK, NEW r \in Requests,
         \/ \E c \in Copies : RemoveCopyRead(r, c)
         \/ \E m \in Members : RemoveMemberRead(r, m)
         \/ \E b \in Books : RemoveBookRead(r, b)
         \/ \E v \in Reservations : CancelRead(r, v)
  PROVE  Answers(r)
<1>1. ASSUME NEW c \in Copies, RemoveCopyRead(r, c) PROVE Answers(r)
  <2>1. PICK q : q = [IdleReq EXCEPT !.pc = "drop copy", !.copy = c]
    OBVIOUS
  <2>2. q \in RequestState /\ q.pc = "drop copy" /\ q.copy = c /\ q.resv = None
    BY <2>1 DEF IdleReq, RequestState
  <2>3. Named(q) /\ ForItsMember(q) /\ StillTrue(q)
    BY <1>1, <2>2, LibraryAssumption DEF Named, ForItsMember, StillTrue, RemoveCopyRead
  <2> QED BY <1>1, <2>1, <2>2, <2>3 DEF Answers, RemoveCopyRead
<1>2. ASSUME NEW m \in Members, RemoveMemberRead(r, m) PROVE Answers(r)
  <2>1. PICK q : q = [IdleReq EXCEPT !.pc = "drop member", !.member = m]
    OBVIOUS
  <2>2. q \in RequestState /\ q.pc = "drop member" /\ q.member = m /\ q.resv = None
    BY <2>1 DEF IdleReq, RequestState
  <2>3. Named(q) /\ ForItsMember(q) /\ StillTrue(q)
    BY <1>2, <2>2, LibraryAssumption DEF Named, ForItsMember, StillTrue, RemoveMemberRead
  <2> QED BY <1>2, <2>1, <2>2, <2>3 DEF Answers, RemoveMemberRead
<1>3. ASSUME NEW b \in Books, RemoveBookRead(r, b) PROVE Answers(r)
  <2>1. PICK q : q = [IdleReq EXCEPT !.pc = "reservations", !.book = b]
    OBVIOUS
  <2>2. q \in RequestState /\ q.pc = "reservations" /\ q.book = b /\ q.resv = None
    BY <2>1 DEF IdleReq, RequestState
  <2>3. Named(q) /\ ForItsMember(q) /\ StillTrue(q)
    BY <1>3, <2>2, LibraryAssumption DEF Named, ForItsMember, StillTrue, RemoveBookRead
  <2> QED BY <1>3, <2>1, <2>2, <2>3 DEF Answers, RemoveBookRead
<1>4. ASSUME NEW v \in Reservations, CancelRead(r, v) PROVE Answers(r)
  <2>1. PICK q : q = [IdleReq EXCEPT !.pc = "cancel", !.resv = v]
    OBVIOUS
  <2>2. q \in RequestState /\ q.pc = "cancel" /\ q.resv = v
    BY <2>1 DEF IdleReq, RequestState
  <2>3. Named(q) /\ ForItsMember(q) /\ StillTrue(q)
    BY <1>4, <2>2, LibraryAssumption DEF Named, ForItsMember, StillTrue, CancelRead
  <2> QED BY <1>4, <2>1, <2>2, <2>3 DEF Answers, CancelRead
<1> QED BY <1>1, <1>2, <1>3, <1>4

LEMMA ReadsAnswer ==
  ASSUME LibTypeOK, NamesRight, InTurn, NEW r \in Requests,
         \/ \E c \in Copies : IssueReadCopy(r, c) \/ RemoveCopyRead(r, c)
         \/ \E m \in Members : RemoveMemberRead(r, m)
         \/ \E b \in Books : RemoveBookRead(r, b)
         \/ \E l \in Loans : ReturnRead(r, l) \/ SettleRead(r, l)
         \/ \E v \in Reservations : FulfilRead(r, v) \/ CancelRead(r, v)
         \/ IssueReadMember(r) \/ IssueCount(r) \/ RemoveBookCount(r)
         \/ Refused(r) \/ CutShort(r)
  PROVE  Answers(r)
<1>1. CASE Refused(r) \/ CutShort(r)
  BY <1>1, EndsAnswers DEF Refused, CutShort
<1> QED BY <1>1, FulfilReadAnswers, IssueReadCopyAnswers, GoesAnswers, ReturnReadAnswers,
           RemoveReadAnswers

-----------------------------------------------------------------------------
(* What a step leaves as it was.                                             *)

LoansKept ==
  \A l \in Loans : /\ loan'[l].copy = loan[l].copy /\ loan'[l].member = loan[l].member
                   /\ loan'[l].status = "free" <=> loan[l].status = "free"

ReservationsKept ==
  \A v \in Reservations : /\ resv'[v].member = resv[v].member
                          /\ resv'[v].status = "free" <=> resv[v].status = "free"

\* Only the reservation of a request that has lent becomes fulfilled.
MarksKept ==
  \A v \in Reservations : resv'[v].status = "fulfilled" =>
    \/ resv[v].status = "fulfilled"
    \/ \E r \in Requests : req[r].pc = "fulfil" /\ req[r].resv = v

\* No copy is lent or comes back, and a loan not returned yet has no fine.
LendingStands ==
  /\ \A l \in Loans : /\ loan'[l].status = "active" <=> loan[l].status = "active"
                      /\ loan'[l].status \in {"free", "active"} =>
                           loan'[l].fineStatus = loan[l].fineStatus
  /\ \A c \in Copies : copy'[c].status = "issued" <=> copy[c].status = "issued"

LEMMA CascadeKeeps ==
  ASSUME LibTypeOK, NEW C, NEW M, NEW B, Cascade(C, M, B)
  PROVE  /\ LoansKept /\ ReservationsKept /\ MarksKept
         /\ \A l \in Loans : loan'[l].fine = loan[l].fine
                               /\ loan'[l].fineStatus = loan[l].fineStatus
<1>1. ASSUME NEW l \in Loans
      PROVE  /\ loan'[l].copy = loan[l].copy /\ loan'[l].member = loan[l].member
             /\ loan'[l].status = "free" <=> loan[l].status = "free"
             /\ loan'[l].fine = loan[l].fine /\ loan'[l].fineStatus = loan[l].fineStatus
  <2>1. loan[l] \in LoanRow
    BY DEF LibTypeOK
  <2>2. loan'[l] = loan[l] \/ (HasLoan(l) /\ loan'[l] = [loan[l] EXCEPT !.status = "gone"])
    BY DEF Cascade
  <2> QED BY <2>1, <2>2 DEF LoanRow, HasLoan
<1>2. ASSUME NEW v \in Reservations
      PROVE  /\ resv'[v].member = resv[v].member
             /\ resv'[v].status = "free" <=> resv[v].status = "free"
             /\ resv'[v].status = "fulfilled" => resv[v].status = "fulfilled"
  <2>1. resv[v] \in ReservationRow
    BY DEF LibTypeOK
  <2>2. resv'[v] = resv[v]
        \/ (HasReservation(v) /\ resv'[v] = [resv[v] EXCEPT !.status = "gone"])
    BY DEF Cascade
  <2> QED BY <2>1, <2>2 DEF ReservationRow, HasReservation
<1> QED BY <1>1, <1>2 DEF LoansKept, ReservationsKept, MarksKept

LEMMA NothingWrittenKeeps ==
  ASSUME UNCHANGED <<loan, resv>> PROVE LoansKept /\ ReservationsKept /\ MarksKept
BY DEF LoansKept, ReservationsKept, MarksKept

LEMMA ReturnKeeps ==
  ASSUME LibTypeOK, NamesRight, NEW r \in Requests, ReturnCommit(r)
  PROVE  /\ LoansKept /\ ReservationsKept /\ MarksKept
         /\ req[r].loan \in Loans /\ loan'[req[r].loan].status = "returned"
         /\ \A l \in Loans : l # req[r].loan => loan'[l] = loan[l]
<1>1. PICK k : k = req[r].loan
  OBVIOUS
<1>2. k \in Loans /\ HasLoan(k)
  BY <1>1 DEF NamesRight, Named, ReturnCommit
<1>3. PICK fine \in Fines :
        loan' = [loan EXCEPT ![k].status = "returned", ![k].fine = fine,
                   ![k].fineStatus = IF fine > 0 THEN "pending" ELSE "none"]
  BY <1>1 DEF ReturnCommit
<1>4. \A l \in Loans : l # k => loan'[l] = loan[l]
  BY <1>3 DEF LibTypeOK
<1>5. /\ loan'[k].status = "returned" /\ loan'[k].copy = loan[k].copy
      /\ loan'[k].member = loan[k].member
  <2>1. PICK row : row = loan[k]
    OBVIOUS
  <2>2. PICK fs : fs = IF fine > 0 THEN "pending" ELSE "none"
    OBVIOUS
  <2>3. row \in LoanRow
    BY <1>2, <2>1 DEF LibTypeOK
  <2>4. loan'[k] = [row EXCEPT !.status = "returned", !.fine = fine, !.fineStatus = fs]
    BY <1>2, <1>3, <2>1, <2>2 DEF LibTypeOK
  <2> QED BY <2>1, <2>3, <2>4 DEF LoanRow
<1>6. LoansKept
  BY <1>2, <1>4, <1>5 DEF LoansKept, HasLoan
<1>7. ReservationsKept /\ MarksKept
  BY DEF ReturnCommit, ReservationsKept, MarksKept
<1> QED BY <1>1, <1>2, <1>4, <1>5, <1>6, <1>7

LEMMA SettleKeeps ==
  ASSUME LibTypeOK, NamesRight, NEW r \in Requests, Settle(r)
  PROVE  /\ LoansKept /\ ReservationsKept /\ MarksKept
         /\ req[r].loan \in Loans
         /\ \A l \in Loans : /\ l # req[r].loan => loan'[l] = loan[l]
                             /\ loan'[l].status = loan[l].status
<1>1. req[r].loan \in Loans
  BY DEF NamesRight, Named, Settle
<1>2. PICK s \in {"paid", "waived"} : loan' = [loan EXCEPT ![req[r].loan].fineStatus = s]
  BY DEF Settle
<1>3. ASSUME NEW l \in Loans
      PROVE  /\ l # req[r].loan => loan'[l] = loan[l]
             /\ loan'[l].status = loan[l].status
             /\ loan'[l].copy = loan[l].copy /\ loan'[l].member = loan[l].member
  BY <1>1, <1>2 DEF LibTypeOK, LoanRow
<1>4. LoansKept
  BY <1>3 DEF LoansKept
<1>5. ReservationsKept /\ MarksKept
  BY DEF Settle, ReservationsKept, MarksKept
<1> QED BY <1>1, <1>3, <1>4, <1>5

LEMMA MarkKeeps ==
  ASSUME LibTypeOK, NamesRight, NEW r \in Requests, FulfilMark(r) \/ Cancel(r)
  PROVE  LoansKept /\ ReservationsKept /\ MarksKept
<1>1. PICK k : k = req[r].resv
  OBVIOUS
<1>2. k \in Reservations /\ HasReservation(k)
  BY <1>1 DEF NamesRight, Named, FulfilMark, Cancel
<1>3. PICK s \in {"fulfilled", "cancelled"} :
        /\ resv' = [resv EXCEPT ![k].status = s]
        /\ s = "fulfilled" => req[r].pc = "fulfil"
  BY <1>1 DEF FulfilMark, Cancel
<1>4. ASSUME NEW v \in Reservations
      PROVE  /\ resv'[v].member = resv[v].member
             /\ resv'[v].status = "free" <=> resv[v].status = "free"
             /\ resv'[v].status = "fulfilled" =>
                  resv[v].status = "fulfilled" \/ (v = k /\ req[r].pc = "fulfil")
  BY <1>2, <1>3 DEF LibTypeOK, ReservationRow, HasReservation
<1>5. ReservationsKept /\ MarksKept
  BY <1>1, <1>4 DEF ReservationsKept, MarksKept
<1>6. LoansKept
  BY DEF FulfilMark, Cancel, LoansKept
<1> QED BY <1>5, <1>6

\* Every write but the one that lends.
LEMMA WritesKeep ==
  ASSUME LibTypeOK, NamesRight, NEW r \in Requests,
         \/ FulfilMark(r) \/ ReturnCommit(r) \/ Settle(r) \/ Cancel(r)
         \/ RemoveCopy(r) \/ RemoveMember(r) \/ RemoveBook(r)
  PROVE  LoansKept /\ ReservationsKept /\ MarksKept /\ Ends(r) /\ UNCHANGED overlap
<1>1. Ends(r) /\ UNCHANGED overlap
  BY DEF FulfilMark, ReturnCommit, Settle, Cancel, RemoveCopy, RemoveMember, RemoveBook
<1>2. CASE FulfilMark(r) \/ Cancel(r)
  BY <1>1, <1>2, MarkKeeps
<1>3. CASE ReturnCommit(r)
  BY <1>1, <1>3, ReturnKeeps
<1>4. CASE Settle(r)
  BY <1>1, <1>4, SettleKeeps
<1>5. CASE RemoveCopy(r) \/ RemoveMember(r) \/ RemoveBook(r)
  BY <1>1, <1>5, CascadeKeeps DEF RemoveCopy, RemoveMember, RemoveBook
<1> QED BY <1>2, <1>3, <1>4, <1>5

-----------------------------------------------------------------------------
(* Names, and the loans behind what is fulfilled.                            *)

LEMMA KeptNames ==
  ASSUME LibTypeOK, NamesRight, LoansKept, ReservationsKept,
         NEW r \in Requests, Answers(r)
  PROVE  NamesRight'
<1>1. RowsNamed'
  BY DEF NamesRight, RowsNamed, LoansKept, ReservationsKept
<1>2. PICK q \in RequestState : /\ req' = [req EXCEPT ![r] = q]
                                /\ Named(q) /\ ForItsMember(q)
  BY DEF Answers
<1>3. ASSUME NEW s \in Requests PROVE (Named(req[s]) /\ ForItsMember(req[s]))'
  <2>1. PICK o : o = req'[s]
    OBVIOUS
  <2>2. Named(o) /\ ForItsMember(o)
    <3>1. CASE s = r
      BY <1>2, <2>1, <3>1 DEF LibTypeOK
    <3>2. CASE s # r
      BY <1>2, <2>1, <3>2 DEF LibTypeOK, NamesRight
    <3> QED BY <3>1, <3>2
  <2>3. ForItsMember(o)'
    BY <2>2 DEF ForItsMember, ReservationsKept
  <2> QED BY <2>1, <2>2, <2>3 DEF Named, ForItsMember
<1> QED BY <1>1, <1>3 DEF NamesRight

LEMMA FewerMarked ==
  ASSUME LentFor, \A m \in Members : Marked(m)' \subseteq Marked(m),
         \A m \in Members : EverLent(m) \subseteq EverLent(m)'
  PROVE  LentFor'
<1> SUFFICES ASSUME NEW m \in Members
             PROVE  /\ IsFiniteSet(Marked(m)')
                    /\ Cardinality(Marked(m)') <= Cardinality(EverLent(m)')
  BY DEF LentFor
<1>1. IsFiniteSet(Marked(m)) /\ Cardinality(Marked(m)) <= Cardinality(EverLent(m))
  BY DEF LentFor
<1>2. IsFiniteSet(Loans) /\ EverLent(m) \subseteq Loans /\ EverLent(m)' \subseteq Loans
  BY LibraryAssumption DEF EverLent
<1>3. /\ IsFiniteSet(EverLent(m)) /\ IsFiniteSet(EverLent(m)')
      /\ Cardinality(EverLent(m)) <= Cardinality(EverLent(m)')
  BY <1>2, FS_Subset
<1>4. IsFiniteSet(Marked(m)') /\ Cardinality(Marked(m)') <= Cardinality(Marked(m))
  BY <1>1, FS_Subset
<1> QED BY <1>1, <1>3, <1>4, FS_CardinalityType

LEMMA KeptMarked ==
  ASSUME LibTypeOK, LentFor, LoansKept, ReservationsKept, MarksKept,
         \A s \in Requests : req'[s].pc = "fulfil" => req'[s] = req[s]
  PROVE  LentFor'
<1>1. ASSUME NEW m \in Members PROVE Marked(m)' \subseteq Marked(m)
  BY DEF Marked, ReservationsKept, MarksKept
<1>2. ASSUME NEW m \in Members PROVE EverLent(m) \subseteq EverLent(m)'
  BY DEF EverLent, LoansKept
<1> QED BY <1>1, <1>2, FewerMarked

LEMMA AnswersNoFulfil ==
  ASSUME LibTypeOK, NEW r \in Requests, Answers(r)
  PROVE  \A s \in Requests : req'[s].pc = "fulfil" => req'[s] = req[s]
BY DEF LibTypeOK, Answers

\* The loan of a commit is one more for the member of the reservation.
LEMMA LendRows ==
  ASSUME LibTypeOK, NamesRight, NEW r \in Requests, IssueCommit(r)
  PROVE  /\ req[r].copy \in Copies /\ req[r].member \in Members
         /\ \E l \in Loans :
              /\ loan[l].status = "free" /\ loan'[l].status = "active"
              /\ loan'[l].copy = req[r].copy /\ loan'[l].member = req[r].member
              /\ loan'[l].fine = loan[l].fine /\ loan'[l].fineStatus = loan[l].fineStatus
              /\ \A k \in Loans : k # l => loan'[k] = loan[k]
         /\ \A s \in Requests : s # r => req'[s] = req[s]
         /\ req'[r].resv = req[r].resv \/ req'[r].resv = None
         /\ req'[r].pc \in {"idle", "fulfil"}
         /\ req'[r].pc = "fulfil" => req'[r].resv = req[r].resv /\ req[r].resv \in Reservations
         /\ req'[r].pc = "idle" => req'[r] = IdleReq
<1>1. req[r].copy \in Copies /\ req[r].member \in Members
  BY DEF NamesRight, Named, IssueCommit
<1>2. PICK l \in Loans : /\ loan[l].status = "free"
                         /\ loan' = [loan EXCEPT ![l] = [@ EXCEPT !.status = "active",
                              !.copy = req[r].copy, !.member = req[r].member]]
  BY DEF IssueCommit
<1>3. /\ loan'[l].status = "active" /\ loan'[l].copy = req[r].copy
      /\ loan'[l].member = req[r].member
      /\ loan'[l].fine = loan[l].fine /\ loan'[l].fineStatus = loan[l].fineStatus
      /\ \A k \in Loans : k # l => loan'[k] = loan[k]
  <2>1. PICK row : row = loan[l]
    OBVIOUS
  <2>2. PICK c, m : c = req[r].copy /\ m = req[r].member
    OBVIOUS
  <2>3. row \in LoanRow
    BY <2>1 DEF LibTypeOK
  <2>4. loan' = [loan EXCEPT ![l] = [row EXCEPT !.status = "active", !.copy = c, !.member = m]]
    BY <1>2, <2>1, <2>2
  <2>5. loan'[l] = [row EXCEPT !.status = "active", !.copy = c, !.member = m]
        /\ \A k \in Loans : k # l => loan'[k] = loan[k]
    BY <2>4 DEF LibTypeOK
  <2> QED BY <2>1, <2>2, <2>3, <2>5 DEF LoanRow
<1>4. CASE req[r].resv = None
  <2>1. req' = [req EXCEPT ![r] = IdleReq]
    BY <1>4 DEF IssueCommit, Ends
  <2>2. req'[r] = IdleReq /\ \A s \in Requests : s # r => req'[s] = req[s]
    BY <2>1 DEF LibTypeOK
  <2>3. IdleReq.pc = "idle" /\ IdleReq.resv = None
    BY DEF IdleReq
  <2> QED BY <1>1, <1>2, <1>3, <2>2, <2>3
<1>5. CASE req[r].resv # None
  <2>1. req' = [req EXCEPT ![r].pc = "fulfil"]
    BY <1>5 DEF IssueCommit, Goes
  <2>2. req[r] \in RequestState
    BY DEF LibTypeOK
  <2>3. req[r].resv \in Reservations
    BY <1>5, <2>2 DEF RequestState
  <2>4. req'[r].pc = "fulfil" /\ req'[r].resv = req[r].resv
        /\ \A s \in Requests : s # r => req'[s] = req[s]
    BY <2>1, <2>2 DEF LibTypeOK, RequestState
  <2> QED BY <1>1, <1>2, <1>3, <2>3, <2>4
<1> QED BY <1>4, <1>5

LEMMA LendNames ==
  ASSUME LibTypeOK, NamesRight, NEW r \in Requests, IssueCommit(r) PROVE NamesRight'
<1>1. UNCHANGED resv
  BY DEF IssueCommit
<1>2. RowsNamed'
  BY <1>1, LendRows DEF NamesRight, RowsNamed
<1>3. ASSUME NEW s \in Requests PROVE (Named(req[s]) /\ ForItsMember(req[s]))'
  <2>1. CASE s # r
    <3>1. PICK o : o = req[s]
      OBVIOUS
    <3>2. Named(o) /\ ForItsMember(o)
      BY <3>1 DEF NamesRight
    <3>3. ForItsMember(o)'
      BY <1>1, <3>2 DEF ForItsMember
    <3>4. req'[s] = o
      BY <2>1, <3>1, LendRows
    <3> QED BY <3>2, <3>3, <3>4 DEF Named, ForItsMember
  <2>2. CASE s = r /\ req'[r].pc = "idle"
    <3>1. req'[s] = IdleReq
      BY <2>2, LendRows
    <3> QED BY <1>1, <3>1, LibraryAssumption DEF IdleReq, Named, ForItsMember
  <2>3. CASE s = r /\ req'[r].pc = "fulfil"
    <3>1. req'[r].resv = req[r].resv /\ req[r].resv \in Reservations
      BY <2>3, LendRows
    <3>2. ForItsMember(req[r])
      BY DEF NamesRight
    <3> QED BY <1>1, <2>3, <3>1, <3>2 DEF Named, ForItsMember
  <2> QED BY <2>1, <2>2, <2>3, LendRows
<1> QED BY <1>2, <1>3 DEF NamesRight

LEMMA LendMarked ==
  ASSUME LibTypeOK, NamesRight, LentFor, NEW r \in Requests, IssueCommit(r) PROVE LentFor'
<1> SUFFICES ASSUME NEW m \in Members
             PROVE  /\ IsFiniteSet(Marked(m)')
                    /\ Cardinality(Marked(m)') <= Cardinality(EverLent(m)')
  BY DEF LentFor
<1>1. PICK v, w : v = req[r].resv /\ w = req[r].member
  OBVIOUS
<1>2. PICK l \in Loans : /\ loan[l].status = "free" /\ loan'[l].status = "active"
                         /\ loan'[l].member = w
                         /\ \A k \in Loans : k # l => loan'[k] = loan[k]
  BY <1>1, LendRows
<1>3. UNCHANGED resv
  BY DEF IssueCommit
<1>4. v \in Reservations => resv[v].member = w
  BY <1>1 DEF NamesRight, ForItsMember, IssueCommit
<1>5. /\ IsFiniteSet(Marked(m)) /\ Cardinality(Marked(m)) <= Cardinality(EverLent(m))
      /\ Cardinality(Marked(m)) \in Nat
  BY FS_CardinalityType DEF LentFor
<1>6. IsFiniteSet(Loans) /\ EverLent(m) \subseteq Loans /\ EverLent(m)' \subseteq Loans
  BY LibraryAssumption DEF EverLent
<1>7. /\ IsFiniteSet(EverLent(m)) /\ Cardinality(EverLent(m)) \in Nat
      /\ IsFiniteSet(EverLent(m)') /\ Cardinality(EverLent(m)') \in Nat
  BY <1>6, FS_Subset, FS_CardinalityType
<1>8. \A s \in Requests : req'[s].pc = "fulfil" =>
        (req[s].pc = "fulfil" /\ req[s].resv = req'[s].resv) \/ req'[s].resv = v
  BY <1>1, LendRows
<1>9. CASE m = w
  <2>1. Marked(m)' \subseteq Marked(m) \cup {v}
    BY <1>3, <1>8 DEF Marked
  <2>2. /\ IsFiniteSet(Marked(m) \cup {v})
        /\ Cardinality(Marked(m) \cup {v}) <= Cardinality(Marked(m)) + 1
    BY <1>5, FS_AddElement
  <2>3. IsFiniteSet(Marked(m)') /\ Cardinality(Marked(m)') <= Cardinality(Marked(m) \cup {v})
        /\ Cardinality(Marked(m)') \in Nat /\ Cardinality(Marked(m) \cup {v}) \in Nat
    BY <2>1, <2>2, FS_Subset, FS_CardinalityType
  <2>4. EverLent(m)' = EverLent(m) \cup {l} /\ l \notin EverLent(m)
    BY <1>2, <1>9 DEF EverLent
  <2>5. Cardinality(EverLent(m)') = Cardinality(EverLent(m)) + 1
    BY <1>7, <2>4, FS_AddElement
  <2> QED BY <1>5, <1>7, <2>2, <2>3, <2>5
<1>10. CASE m # w
  <2>1. Marked(m)' \subseteq Marked(m)
    BY <1>3, <1>4, <1>8, <1>10 DEF Marked
  <2>2. EverLent(m)' = EverLent(m)
    BY <1>2, <1>10 DEF EverLent
  <2>3. IsFiniteSet(Marked(m)') /\ Cardinality(Marked(m)') <= Cardinality(Marked(m))
        /\ Cardinality(Marked(m)') \in Nat
    BY <1>5, <2>1, FS_Subset, FS_CardinalityType
  <2> QED BY <1>5, <1>7, <2>2, <2>3
<1> QED BY <1>9, <1>10

-----------------------------------------------------------------------------
(* One request at a time.                                                    *)

LEMMA AllIdle ==
  ASSUME LibTypeOK, NEW r \in Requests, Ends(r), Alone(r), NEW s \in Requests
  PROVE  req'[s].pc = "idle"
BY DEF LibTypeOK, Ends, Alone, IdleReq

\* When no request is in flight, only the rows matter.
LEMMA IdleInTurn ==
  ASSUME \A s \in Requests : req'[s].pc = "idle", LentOnce' PROVE InTurn'
BY DEF InTurn, StillTrue

LEMMA StandLentOnce ==
  ASSUME RowsNamed, LentOnce, LoansKept, LendingStands PROVE LentOnce'
<1>1. ASSUME NEW l \in Loans, loan'[l].status = "active"
      PROVE  copy'[loan'[l].copy].status = "issued"
  BY <1>1 DEF RowsNamed, LentOnce, LoansKept, LendingStands
<1>2. ASSUME NEW l \in Loans, NEW k \in Loans, loan'[l].status = "active",
             loan'[k].status = "active", loan'[l].copy = loan'[k].copy
      PROVE  l = k
  BY <1>2 DEF LentOnce, LoansKept, LendingStands
<1>3. ASSUME NEW c \in Copies, copy'[c].status = "issued"
      PROVE  \E l \in Loans : loan'[l].status = "active" /\ loan'[l].copy = c
  BY <1>3 DEF LentOnce, LoansKept, LendingStands
<1>4. ASSUME NEW l \in Loans, loan'[l].status \in {"free", "active"}
      PROVE  loan'[l].fineStatus = "none"
  BY <1>4 DEF LentOnce, LoansKept, LendingStands
<1> QED BY <1>1, <1>2, <1>3, <1>4 DEF LentOnce

\* Deletions take no open loan with them, one at a time.
LEMMA RemovalStands ==
  ASSUME LibTypeOK, NamesRight, InTurn, ~overlap, NEW r \in Requests,
         RemoveCopy(r) \/ RemoveMember(r) \/ RemoveBook(r)
  PROVE  LendingStands
<1>1. LentOnce /\ StillTrue(req[r]) /\ Named(req[r]) /\ RowsNamed
  BY DEF InTurn, NamesRight
<1>2. ASSUME NEW C, NEW M, NEW B, Cascade(C, M, B),
             \A l \in Loans : loan[l].status = "active" =>
               loan[l].copy \notin C /\ loan[l].member \notin M,
             \A c \in Copies : copy'[c].status = "issued" <=> copy[c].status = "issued"
      PROVE  LendingStands
  <2>1. ASSUME NEW l \in Loans, loan[l].status = "active" PROVE loan'[l] = loan[l]
    BY <1>2, <2>1 DEF Cascade
  <2>2. ASSUME NEW l \in Loans, loan'[l].status = "active" PROVE loan'[l] = loan[l]
    BY <1>2, <2>2, CascadeLoans
  <2>3. \A l \in Loans : loan'[l].fineStatus = loan[l].fineStatus
    BY <1>2, CascadeKeeps
  <2> QED BY <1>2, <2>1, <2>2, <2>3 DEF LendingStands
<1>3. CASE RemoveCopy(r)
  <2>1. PICK k : k = req[r].copy
    OBVIOUS
  <2>2. k \in Copies /\ copy[k].status = "available"
    BY <1>1, <1>3, <2>1 DEF RemoveCopy, Named, StillTrue
  <2>3. \A l \in Loans : loan[l].status = "active" => loan[l].copy \notin {k}
    BY <1>1, <2>2 DEF LentOnce
  <2>4. \A c \in Copies : copy'[c].status = "issued" <=> copy[c].status = "issued"
    BY <1>3, <2>1, <2>2 DEF RemoveCopy, LibTypeOK, CopyRow
  <2>5. Cascade({k}, {}, {})
    BY <1>3, <2>1 DEF RemoveCopy
  <2> QED BY <1>2, <2>3, <2>4, <2>5
<1>4. CASE RemoveMember(r)
  <2>1. PICK m : m = req[r].member
    OBVIOUS
  <2>2. ActiveLoans(m) = {}
    BY <1>1, <1>4, <2>1 DEF RemoveMember, StillTrue
  <2>3. \A l \in Loans : loan[l].status = "active" => loan[l].member \notin {m}
    BY <2>2 DEF ActiveLoans
  <2>4. \A c \in Copies : copy'[c].status = "issued" <=> copy[c].status = "issued"
    BY <1>4 DEF RemoveMember
  <2>5. Cascade({}, {m}, {})
    BY <1>4, <2>1 DEF RemoveMember
  <2> QED BY <1>2, <2>3, <2>4, <2>5
<1>5. CASE RemoveBook(r)
  <2>1. PICK b : b = req[r].book
    OBVIOUS
  <2>2. {c \in Copies : HasCopy(c) /\ copy[c].book = b} = {}
    BY <1>1, <1>5, <2>1 DEF RemoveBook, StillTrue
  <2>3. Cascade({}, {}, {b})
    BY <1>5, <2>1, <2>2 DEF RemoveBook
  <2>4. \A c \in Copies : copy'[c] = copy[c]
    BY <1>5, <2>1, <2>2 DEF RemoveBook
  <2> QED BY <1>2, <2>3, <2>4
<1> QED BY <1>3, <1>4, <1>5

LEMMA SettleStands ==
  ASSUME LibTypeOK, NamesRight, InTurn, ~overlap, NEW r \in Requests, Settle(r)
  PROVE  LendingStands /\ loan[req[r].loan].fineStatus = "pending"
<1>1. LentOnce /\ StillTrue(req[r])
  BY DEF InTurn
<1>2. loan[req[r].loan].fineStatus = "pending"
  BY <1>1 DEF Settle, StillTrue
<1>3. loan[req[r].loan].status \notin {"free", "active"}
  BY <1>1, <1>2, SettleKeeps DEF LentOnce
<1>4. UNCHANGED copy
  BY DEF Settle
<1> QED BY <1>2, <1>3, <1>4, SettleKeeps DEF LendingStands

LEMMA MarkStands ==
  ASSUME NEW r, FulfilMark(r) \/ Cancel(r) PROVE LendingStands
BY DEF FulfilMark, Cancel, LendingStands

\* A return closes the one loan that is open for the copy.
LEMMA ReturnLentOnce ==
  ASSUME LibTypeOK, NamesRight, InTurn, ~overlap, NEW r \in Requests, ReturnCommit(r)
  PROVE  /\ LentOnce'
         /\ loan[req[r].loan].status = "active"
         /\ copy'[loan[req[r].loan].copy].status \in {"available", "unfit"}
         /\ \A c \in Copies : c # loan[req[r].loan].copy => copy'[c] = copy[c]
<1>1. LentOnce /\ StillTrue(req[r]) /\ RowsNamed
  BY DEF InTurn, NamesRight
<1>2. PICK k, d : k = req[r].loan /\ d = loan[k].copy
  OBVIOUS
<1>3. k \in Loans /\ loan[k].status = "active" /\ d \in Copies
  BY <1>1, <1>2, ReturnKeeps DEF StillTrue, ReturnCommit, RowsNamed
<1>4. /\ loan'[k].status = "returned" /\ LoansKept
      /\ \A l \in Loans : l # k => loan'[l] = loan[l]
  BY <1>2, ReturnKeeps
<1>5. PICK status \in {"available", "unfit"} : copy' = [copy EXCEPT ![d].status = status]
  BY <1>2 DEF ReturnCommit
<1>6. copy'[d].status = status /\ \A c \in Copies : c # d => copy'[c] = copy[c]
  BY <1>3, <1>5 DEF LibTypeOK, CopyRow
<1>7. ASSUME NEW l \in Loans, loan'[l].status = "active"
      PROVE  l # k /\ loan'[l] = loan[l] /\ loan[l].copy # d
             /\ copy'[loan'[l].copy].status = "issued"
  <2>1. l # k /\ loan'[l] = loan[l]
    BY <1>4, <1>7
  <2>2. loan[l].copy # d
    BY <1>1, <1>2, <1>3, <1>7, <2>1 DEF LentOnce
  <2>3. loan[l].copy \in Copies /\ copy[loan[l].copy].status = "issued"
    BY <1>1, <1>7, <2>1 DEF LentOnce, RowsNamed
  <2> QED BY <1>6, <2>1, <2>2, <2>3
<1>8. ASSUME NEW c \in Copies, copy'[c].status = "issued"
      PROVE  \E l \in Loans : loan'[l].status = "active" /\ loan'[l].copy = c
  <2>1. c # d /\ copy[c].status = "issued"
    BY <1>6, <1>8
  <2>2. PICK l \in Loans : loan[l].status = "active" /\ loan[l].copy = c
    BY <1>1, <2>1 DEF LentOnce
  <2> QED BY <1>2, <1>4, <2>1, <2>2
<1>9. ASSUME NEW l \in Loans, loan'[l].status \in {"free", "active"}
      PROVE  loan'[l].fineStatus = "none"
  BY <1>1, <1>4, <1>9 DEF LentOnce
<1>10. ASSUME NEW l \in Loans, NEW j \in Loans, loan'[l].status = "active",
              loan'[j].status = "active", loan'[l].copy = loan'[j].copy
       PROVE  l = j
  BY <1>1, <1>7, <1>10 DEF LentOnce
<1>11. LentOnce'
  BY <1>7, <1>8, <1>9, <1>10 DEF LentOnce
<1> QED BY <1>2, <1>3, <1>6, <1>11

\* A commit opens the one loan of a copy that was on the shelf.
LEMMA LendLentOnce ==
  ASSUME LibTypeOK, NamesRight, InTurn, ~overlap, NEW r \in Requests, IssueCommit(r)
  PROVE  /\ LentOnce'
         /\ copy[req[r].copy].status = "available"
         /\ copy'[req[r].copy].status = "issued"
         /\ \A c \in Copies : c # req[r].copy => copy'[c] = copy[c]
<1>1. LentOnce /\ StillTrue(req[r]) /\ RowsNamed
  BY DEF InTurn, NamesRight
<1>2. PICK d : d = req[r].copy
  OBVIOUS
<1>3. d \in Copies /\ copy[d].status = "available"
  BY <1>1, <1>2, LendRows DEF StillTrue, IssueCommit
<1>4. PICK n \in Loans :
        /\ loan[n].status = "free" /\ loan'[n].status = "active" /\ loan'[n].copy = d
        /\ loan'[n].fineStatus = loan[n].fineStatus
        /\ \A l \in Loans : l # n => loan'[l] = loan[l]
  BY <1>2, LendRows
<1>5. copy'[d].status = "issued" /\ \A c \in Copies : c # d => copy'[c] = copy[c]
  BY <1>2, <1>3 DEF IssueCommit, LibTypeOK, CopyRow
<1>6. \A l \in Loans : loan[l].status = "active" => loan[l].copy \in Copies /\ loan[l].copy # d
  BY <1>1, <1>3 DEF LentOnce, RowsNamed
<1>7. ASSUME NEW l \in Loans, loan'[l].status = "active"
      PROVE  copy'[loan'[l].copy].status = "issued"
  BY <1>1, <1>4, <1>5, <1>6, <1>7 DEF LentOnce
<1>8. ASSUME NEW c \in Copies, copy'[c].status = "issued"
      PROVE  \E l \in Loans : loan'[l].status = "active" /\ loan'[l].copy = c
  <2>1. CASE c = d
    BY <1>4, <2>1
  <2>2. CASE c # d
    <3>1. PICK l \in Loans : loan[l].status = "active" /\ loan[l].copy = c
      BY <1>1, <1>5, <1>8, <2>2 DEF LentOnce
    <3> QED BY <1>4, <3>1
  <2> QED BY <2>1, <2>2
<1>9. ASSUME NEW l \in Loans, loan'[l].status \in {"free", "active"}
      PROVE  loan'[l].fineStatus = "none"
  BY <1>1, <1>4, <1>9 DEF LentOnce
<1>10. ASSUME NEW l \in Loans, NEW j \in Loans, loan'[l].status = "active",
              loan'[j].status = "active", loan'[l].copy = loan'[j].copy
       PROVE  l = j
  BY <1>1, <1>4, <1>6, <1>10 DEF LentOnce
<1>11. LentOnce'
  BY <1>7, <1>8, <1>9, <1>10 DEF LentOnce
<1> QED BY <1>2, <1>3, <1>5, <1>11

\* The rows of one request at a time, for every write.
LEMMA WritesInTurn ==
  ASSUME LibTypeOK, NamesRight, InTurn, NEW r \in Requests, RequestStep(r),
         \/ FulfilMark(r) \/ ReturnCommit(r) \/ Settle(r) \/ Cancel(r)
         \/ RemoveCopy(r) \/ RemoveMember(r) \/ RemoveBook(r)
  PROVE  InTurn'
<1> SUFFICES ASSUME ~overlap PROVE InTurn'
  BY WritesKeep DEF InTurn
<1>1. Alone(r) /\ LentOnce /\ RowsNamed
  BY StepAlone DEF InTurn, NamesRight
<1>2. \A s \in Requests : req'[s].pc = "idle"
  BY <1>1, WritesKeep, AllIdle
<1>3. LentOnce'
  <2>1. CASE ReturnCommit(r)
    BY <2>1, ReturnLentOnce
  <2>2. CASE ~ReturnCommit(r)
    <3>1. LendingStands
      BY <2>2, MarkStands, SettleStands, RemovalStands
    <3> QED BY <1>1, <3>1, StandLentOnce, WritesKeep
  <2> QED BY <2>1, <2>2
<1> QED BY <1>2, <1>3, IdleInTurn

LEMMA LendInTurn ==
  ASSUME LibTypeOK, NamesRight, InTurn, NEW r \in Requests, IssueCommit(r)
  PROVE  InTurn'
<1>1. UNCHANGED overlap
  BY DEF IssueCommit
<1> SUFFICES ASSUME ~overlap PROVE InTurn'
  BY <1>1 DEF InTurn
<1>2. Alone(r)
  BY StepAlone DEF RequestStep
<1>3. \A s \in Requests : s # r => req'[s].pc = "idle"
  BY <1>2, LendRows DEF Alone
<1>4. \A s \in Requests : req'[s].pc # "idle" => Alone(s)'
  BY <1>3 DEF Alone
<1>5. \A s \in Requests : req'[s].pc \in {"idle", "fulfil"}
  BY <1>3, LendRows
<1>6. \A s \in Requests : StillTrue(req[s])'
  BY <1>5 DEF StillTrue
<1> QED BY <1>4, <1>6, LendLentOnce DEF InTurn

LEMMA ReadsInTurn ==
  ASSUME LibTypeOK, InTurn, NEW r \in Requests, RequestStep(r), Answers(r), NothingWritten
  PROVE  InTurn'
<1>1. UNCHANGED <<book, copy, member, loan, resv, overlap>>
  BY DEF NothingWritten
<1> SUFFICES ASSUME ~overlap PROVE InTurn'
  BY <1>1 DEF InTurn
<1>2. PICK q \in RequestState : req' = [req EXCEPT ![r] = q] /\ StillTrue(q)
  BY DEF Answers
<1>3. Alone(r) /\ LentOnce
  BY StepAlone DEF InTurn
<1>4. \A s \in Requests : s # r => req'[s].pc = "idle"
  BY <1>2, <1>3 DEF Alone, LibTypeOK
<1>5. \A s \in Requests : req'[s].pc # "idle" => Alone(s)'
  BY <1>4 DEF Alone
<1>6. StillTrue(q)'
  BY <1>1, <1>2 DEF StillTrue, ActiveLoans, HasCopy
<1>7. ASSUME NEW s \in Requests PROVE StillTrue(req[s])'
  <2>1. CASE s = r
    BY <1>2, <1>6, <2>1 DEF LibTypeOK
  <2>2. CASE s # r
    BY <1>4, <2>2 DEF StillTrue
  <2> QED BY <2>1, <2>2
<1>8. LentOnce'
  BY <1>1, <1>3 DEF LentOnce
<1> QED BY <1>5, <1>7, <1>8 DEF InTurn

-----------------------------------------------------------------------------
(* Handlers with one write, and the invariant.                               *)

SingleWrite ==
  \/ \E b \in Books : CreateBook(b) \/ \E c \in Copies : CreateCopy(c, b)
  \/ \E m \in Members :
       JoinLibrary(m) \/ UpdateMemberStatus(m) \/ \E b \in Books : Reserve(m, b)

LEMMA ReserveRows ==
  ASSUME LibTypeOK, NEW m \in Members, NEW b \in Books, Reserve(m, b)
  PROVE  \E n \in Reservations :
           /\ resv[n].status = "free" /\ resv'[n].status = "pending" /\ resv'[n].member = m
           /\ \A v \in Reservations : v # n => resv'[v] = resv[v]
BY DEF Reserve, LibTypeOK

LEMMA SingleWriteKeeps ==
  ASSUME LibTypeOK, SingleWrite
  PROVE  /\ MayStart /\ UNCHANGED <<loan, req, overlap>>
         /\ \A v \in Reservations : \/ resv'[v] = resv[v]
                                    \/ /\ resv[v].status = "free"
                                       /\ resv'[v].status = "pending"
                                       /\ resv'[v].member \in Members
         /\ \A c \in Copies : copy'[c].status = "issued" <=> copy[c].status = "issued"
<1>1. ASSUME NEW b \in Books, CreateBook(b) \/ \E c \in Copies : CreateCopy(c, b)
      PROVE  MayStart /\ UNCHANGED <<loan, req, overlap, resv>>
  BY <1>1 DEF CreateBook, CreateCopy
<1>2. ASSUME NEW m \in Members, JoinLibrary(m) \/ UpdateMemberStatus(m)
      PROVE  MayStart /\ UNCHANGED <<loan, req, overlap, resv, copy>>
  BY <1>2 DEF JoinLibrary, UpdateMemberStatus
<1>3. ASSUME NEW m \in Members, NEW b \in Books, Reserve(m, b)
      PROVE  MayStart /\ UNCHANGED <<loan, req, overlap, copy>>
  BY <1>3 DEF Reserve
<1>4. ASSUME NEW b \in Books, CreateBook(b) PROVE UNCHANGED copy
  BY <1>4 DEF CreateBook
<1>5. ASSUME NEW b \in Books, NEW c \in Copies, CreateCopy(c, b)
      PROVE  \A d \in Copies : copy'[d].status = "issued" <=> copy[d].status = "issued"
  BY <1>5 DEF CreateCopy, LibTypeOK
<1> QED BY <1>1, <1>2, <1>3, <1>4, <1>5, ReserveRows DEF SingleWrite

LEMMA SingleWriteInv ==
  ASSUME LibInv, SingleWrite PROVE LibInv'
<1> USE DEF LibInv
<1>1. LibTypeOK'
  BY SingleWritesTyped DEF SingleWrite
<1>2. UNCHANGED <<loan, req, overlap>>
  BY SingleWriteKeeps
<1>3. ASSUME NEW s \in Requests PROVE (Named(req[s]) /\ ForItsMember(req[s]))'
  <2>1. PICK q : q = req[s]
    OBVIOUS
  <2>2. req'[s] = q /\ Named(q) /\ ForItsMember(q)
    BY <1>2, <2>1 DEF NamesRight
  <2>3. ForItsMember(q)'
    BY <2>2, SingleWriteKeeps DEF ForItsMember
  <2> QED BY <2>2, <2>3 DEF Named, ForItsMember
<1>4. RowsNamed'
  BY <1>2, SingleWriteKeeps DEF NamesRight, RowsNamed
<1>5. ASSUME NEW m \in Members
      PROVE  Marked(m)' \subseteq Marked(m) /\ EverLent(m)' = EverLent(m)
  <2>1. EverLent(m)' = EverLent(m)
    BY <1>2 DEF EverLent
  <2>2. ASSUME NEW v \in Marked(m)' PROVE v \in Marked(m)
    <3>1. v \in Reservations /\ resv'[v].member = m
      BY DEF Marked
    <3>2. CASE resv'[v].status = "fulfilled"
      BY <3>1, <3>2, SingleWriteKeeps DEF Marked
    <3>3. CASE \E r \in Requests : req[r].pc = "fulfil" /\ req[r].resv = v
      <4>1. resv[v].status # "free"
        BY <3>1, <3>3 DEF NamesRight, ForItsMember
      <4> QED BY <3>1, <3>3, <4>1, SingleWriteKeeps DEF Marked
    <3> QED BY <1>2, <3>2, <3>3 DEF Marked
  <2> QED BY <2>1, <2>2
<1>6. LentFor'
  BY <1>5, FewerMarked
<1>7. InTurn'
  <2> SUFFICES ASSUME ~overlap PROVE InTurn'
    BY <1>2 DEF InTurn
  <2>1. \A s \in Requests : req'[s].pc = "idle"
    BY <1>2, SingleWriteKeeps DEF MayStart
  <2>2. LoansKept /\ LendingStands
    BY <1>2, SingleWriteKeeps DEF LoansKept, LendingStands
  <2>3. LentOnce'
    BY <2>2, StandLentOnce DEF InTurn, NamesRight
  <2> QED BY <2>1, <2>3, IdleInTurn
<1> QED BY <1>1, <1>3, <1>4, <1>6, <1>7 DEF NamesRight

LEMMA InvInit == Init => LibInv
<1> SUFFICES ASSUME Init PROVE LibInv
  OBVIOUS
<1>1. \A r \in Requests : req[r] = IdleReq /\ req[r].pc = "idle"
  BY IdleRight DEF Init
<1>2. NamesRight
  BY <1>1, IdleRight DEF Init, NamesRight, RowsNamed
<1>3. ASSUME NEW m \in Members
      PROVE  IsFiniteSet(Marked(m)) /\ Cardinality(Marked(m)) <= Cardinality(EverLent(m))
  <2>1. Marked(m) = {}
    BY <1>1 DEF Init, Marked
  <2>2. EverLent(m) = {}
    BY DEF Init, EverLent
  <2> QED BY <2>1, <2>2, FS_EmptySet
<1>4. LentOnce
  BY DEF Init, LentOnce
<1>5. InTurn
  BY <1>1, <1>4, IdleRight DEF InTurn
<1> QED BY <1>2, <1>3, <1>5, TypeInit DEF LibInv, LentFor

LEMMA InvStep == LibInv /\ [Next]_vars => LibInv'
<1> SUFFICES ASSUME LibInv, [Next]_vars PROVE LibInv'
  OBVIOUS
<1> USE DEF LibInv
<1>1. LibTypeOK'
  BY TypeStep
<1>2. ASSUME NEW r \in Requests, RequestStep(r) PROVE LibInv'
  <2>1. CASE IssueCommit(r)
    BY <1>1, <2>1, LendNames, LendMarked, LendInTurn
  <2>2. CASE \/ FulfilMark(r) \/ ReturnCommit(r) \/ Settle(r) \/ Cancel(r)
             \/ RemoveCopy(r) \/ RemoveMember(r) \/ RemoveBook(r)
    <3>1. Ends(r) /\ LoansKept /\ ReservationsKept /\ MarksKept
      BY <2>2, WritesKeep
    <3>2. Answers(r)
      BY <3>1, EndsAnswers
    <3> QED BY <1>1, <1>2, <2>2, <3>1, <3>2, KeptNames, KeptMarked, AnswersNoFulfil, WritesInTurn
  <2>3. CASE ~(\/ FulfilMark(r) \/ ReturnCommit(r) \/ Settle(r) \/ Cancel(r)
               \/ RemoveCopy(r) \/ RemoveMember(r) \/ RemoveBook(r) \/ IssueCommit(r))
    <3>1. Answers(r) /\ NothingWritten
      BY <1>2, <2>3, ReadsAnswer, ReadsTyped DEF RequestStep
    <3>2. LoansKept /\ ReservationsKept /\ MarksKept
      BY <3>1, NothingWrittenKeeps DEF NothingWritten
    <3> QED BY <1>1, <1>2, <3>1, <3>2, KeptNames, KeptMarked, AnswersNoFulfil, ReadsInTurn
  <2> QED BY <2>1, <2>2, <2>3
<1>3. CASE UNCHANGED vars
  <2>1. UNCHANGED <<book, copy, member, loan, resv, req, overlap>>
    BY <1>3 DEF vars
  <2>2. \A m : Marked(m)' = Marked(m) /\ EverLent(m)' = EverLent(m)
    BY <2>1 DEF Marked, EverLent
  <2>3. NamesRight'
    BY <2>1 DEF NamesRight, RowsNamed, Named, ForItsMember
  <2>4. LentFor'
    BY <2>2 DEF LentFor
  <2>5. InTurn'
    <3>1. \A m : ActiveLoans(m)' = ActiveLoans(m)
      BY <2>1 DEF ActiveLoans
    <3>2. \A q : StillTrue(q)' = StillTrue(q)
      BY <2>1, <3>1 DEF StillTrue, HasCopy
    <3>3. LentOnce' = LentOnce /\ \A r : Alone(r)' = Alone(r)
      BY <2>1 DEF LentOnce, Alone
    <3> QED BY <2>1, <3>2, <3>3 DEF InTurn
  <2> QED BY <1>1, <2>3, <2>4, <2>5
<1>4. CASE SingleWrite
  BY <1>4, SingleWriteInv
<1> QED BY <1>2, <1>3, <1>4 DEF Next, SingleWrite

LEMMA InvAlways == Spec => []LibInv
BY InvInit, InvStep, PTL DEF Spec

LEMMA OneOpenLoan ==
  ASSUME LentOnce, RowsNamed, NEW c \in Copies
  PROVE  Cardinality(OpenLoans(c)) = IF copy[c].status = "issued" THEN 1 ELSE 0
<1>1. CASE copy[c].status = "issued"
  <2>1. PICK l \in Loans : loan[l].status = "active" /\ loan[l].copy = c
    BY <1>1 DEF LentOnce
  <2>2. OpenLoans(c) = {l}
    BY <2>1 DEF OpenLoans, LentOnce
  <2> QED BY <1>1, <2>2, FS_Singleton
<1>2. CASE copy[c].status # "issued"
  <2>1. OpenLoans(c) = {}
    BY <1>2 DEF OpenLoans, LentOnce
  <2> QED BY <1>2, <2>1, FS_EmptySet
<1> QED BY <1>1, <1>2

\* For any number of requests and in any order, no reservation is fulfilled
\* without a loan of its own to its member; and one request at a time a copy is
\* marked issued exactly while one open loan says who has it.
THEOREM RowsTellTheLoans == Spec => []MarkedAsLent
<1>1. LibInv => MarkedAsLent
  <2> SUFFICES ASSUME LibInv PROVE MarkedAsLent
    OBVIOUS
  <2>1. ASSUME NEW m \in Members
        PROVE  Cardinality(Fulfilled(m)) <= Cardinality(EverLent(m))
    <3>1. IsFiniteSet(Marked(m)) /\ Cardinality(Marked(m)) <= Cardinality(EverLent(m))
      BY DEF LibInv, LentFor
    <3>2. Fulfilled(m) \subseteq Marked(m)
      BY DEF Fulfilled, Marked
    <3>3. IsFiniteSet(Fulfilled(m)) /\ Cardinality(Fulfilled(m)) <= Cardinality(Marked(m))
      BY <3>1, <3>2, FS_Subset
    <3>4. IsFiniteSet(Loans) /\ EverLent(m) \subseteq Loans
      BY LibraryAssumption DEF EverLent
    <3>5. IsFiniteSet(EverLent(m))
      BY <3>4, FS_Subset
    <3> QED BY <3>1, <3>3, <3>5, FS_CardinalityType
  <2>2. ASSUME ~overlap, NEW c \in Copies
        PROVE  Cardinality(OpenLoans(c)) = IF copy[c].status = "issued" THEN 1 ELSE 0
    BY <2>2, OneOpenLoan DEF LibInv, InTurn, NamesRight
  <2> QED BY <2>1, <2>2 DEF MarkedAsLent
<1> QED BY InvAlways, <1>1, PTL

-----------------------------------------------------------------------------
(* Fines.                                                                    *)

FineStands ==
  \A l \in Loans : loan[l].fineStatus \in {"paid", "waived"} =>
    loan'[l].fineStatus = loan[l].fineStatus /\ loan'[l].fine = loan[l].fine

LEMMA FineStep ==
  ASSUME LibInv, ~overlap, [Next]_vars PROVE FineStands
<1> USE DEF LibInv
<1>1. CASE UNCHANGED loan
  BY <1>1 DEF FineStands
<1>2. ASSUME NEW r \in Requests, RequestStep(r) PROVE FineStands
  <2>1. CASE IssueCommit(r)
    BY <2>1, LendRows DEF FineStands
  <2>2. CASE ReturnCommit(r)
    <3>1. loan[req[r].loan].fineStatus = "none"
      BY <2>2, ReturnLentOnce, ReturnKeeps DEF InTurn, LentOnce
    <3> QED BY <2>2, <3>1, ReturnKeeps DEF FineStands
  <2>3. CASE Settle(r)
    BY <2>3, SettleStands, SettleKeeps DEF FineStands
  <2>4. CASE RemoveCopy(r) \/ RemoveMember(r) \/ RemoveBook(r)
    BY <2>4, CascadeKeeps DEF RemoveCopy, RemoveMember, RemoveBook, FineStands
  <2>5. CASE FulfilMark(r) \/ Cancel(r)
    BY <1>1, <2>5 DEF FulfilMark, Cancel
  <2>6. CASE ~(\/ IssueCommit(r) \/ ReturnCommit(r) \/ Settle(r) \/ FulfilMark(r) \/ Cancel(r)
               \/ RemoveCopy(r) \/ RemoveMember(r) \/ RemoveBook(r))
    BY <1>1, <1>2, <2>6, ReadsTyped DEF RequestStep, NothingWritten
  <2> QED BY <2>1, <2>2, <2>3, <2>4, <2>5, <2>6
<1>3. CASE SingleWrite
  BY <1>1, <1>3, SingleWriteKeeps
<1>4. CASE UNCHANGED vars
  BY <1>1, <1>4 DEF vars
<1> QED BY <1>2, <1>3, <1>4 DEF Next, SingleWrite

\* One request at a time, what was paid or waived is never put back or changed,
\* whatever is returned, settled or deleted in between.
THEOREM SettledForGood == Spec => FinesSettledOnce
<1>1. LibInv /\ [Next]_vars =>
        [\A l \in Loans :
           ~overlap /\ loan[l].fineStatus \in {"paid", "waived"} =>
             loan'[l].fineStatus = loan[l].fineStatus /\ loan'[l].fine = loan[l].fine]_vars
  BY FineStep DEF FineStands
<1> QED BY InvAlways, <1>1, PTL DEF Spec, FinesSettledOnce

-----------------------------------------------------------------------------
(* The lending desk.                                                         *)

Shelf == {c \in Copies : copy[c].status = "available"}
Holders == [c \in Copies |-> {loan[l].member : l \in OpenLoans(c)}]
Card(m) == {c \in Copies : m \in {loan[l].member : l \in OpenLoans(c)}}

LEMMA DeskInit == Init => Desk!Init
<1> SUFFICES ASSUME Init PROVE Desk!Init
  OBVIOUS
<1>1. \A c \in Copies : OpenLoans(c) = {}
  BY DEF Init, OpenLoans
<1>2. {c \in Copies : copy[c].status = "available"} = {}
  BY DEF Init
<1> QED BY <1>1, <1>2 DEF Desk!Init

\* A member's copies are those of the member's open loans.
LEMMA CardSmall ==
  ASSUME NEW m PROVE Cardinality(Card(m)) <= Cardinality(ActiveLoans(m))
                     /\ IsFiniteSet(Card(m))
<1>1. IsFiniteSet(ActiveLoans(m))
  BY Finite
<1> DEFINE L == {l \in ActiveLoans(m) : loan[l].copy \in Copies}
           f == [l \in L |-> loan[l].copy]
<1>2. L \subseteq ActiveLoans(m)
  OBVIOUS
<1>3. IsFiniteSet(L) /\ Cardinality(L) <= Cardinality(ActiveLoans(m))
  BY <1>1, <1>2, FS_Subset
<1>4. f \in [L -> Card(m)]
  <2>1. ASSUME NEW l \in L PROVE loan[l].copy \in Card(m)
    BY DEF ActiveLoans, Card, OpenLoans
  <2> QED BY <2>1
<1>5. \A c \in Card(m) : \E l \in L : f[l] = c
  BY DEF ActiveLoans, Card, OpenLoans
<1>6. f \in Surjection(L, Card(m))
  BY <1>4, <1>5 DEF Surjection
<1> HIDE DEF f, L
<1>7. IsFiniteSet(Card(m)) /\ Cardinality(Card(m)) <= Cardinality(L)
  BY <1>3, <1>6, FS_Surjection
<1> QED BY <1>1, <1>3, <1>7, FS_CardinalityType

\* When no loan is opened or closed, the holders stay.
LEMMA SameHolders ==
  ASSUME LoansKept, \A l \in Loans : loan'[l].status = "active" <=> loan[l].status = "active"
  PROVE  Holders' = Holders
<1>1. ASSUME NEW c PROVE OpenLoans(c)' = OpenLoans(c)
  BY DEF OpenLoans, LoansKept
<1>2. ASSUME NEW c \in Copies
      PROVE  {loan'[l].member : l \in OpenLoans(c)'} = {loan[l].member : l \in OpenLoans(c)}
  <2>1. \A l \in OpenLoans(c) : loan'[l].member = loan[l].member
    BY DEF OpenLoans, LoansKept
  <2> QED BY <1>1, <2>1
<1> QED BY <1>2 DEF Holders

\* The steps of the desk, in its own names.
LEMMA DeskAcquires ==
  ASSUME NEW c \in Copies, c \notin Shelf, Holders[c] = {}, Shelf' = Shelf \cup {c},
         Holders' = Holders
  PROVE  Desk!Next
<1>1. Desk!Acquire(c)
  BY DEF Shelf, Holders, Desk!Acquire
<1> QED BY <1>1 DEF Desk!Next

LEMMA DeskGivesUp ==
  ASSUME NEW c \in Copies, c \in Shelf, Shelf' = Shelf \ {c}, Holders' = Holders
  PROVE  Desk!Next
<1>1. Desk!GiveUp(c)
  BY DEF Shelf, Holders, Desk!GiveUp
<1> QED BY <1>1 DEF Desk!Next

LEMMA DeskTakesBack ==
  ASSUME NEW c \in Copies, Holders[c] # {}, Holders' = [Holders EXCEPT ![c] = {}],
         Shelf' \in {Shelf, Shelf \cup {c}}
  PROVE  Desk!Next
<1>1. Desk!TakeBack(c)
  BY DEF Shelf, Holders, Desk!TakeBack
<1> QED BY <1>1 DEF Desk!Next

\* LendingDesk counts with the Cardinality of its own instance of FiniteSets.
LEMMA SameCount == ASSUME NEW S PROVE Desk!Cardinality(S) = Cardinality(S)
BY DEF Desk!Cardinality, Cardinality

LEMMA DeskLends ==
  ASSUME NEW c \in Copies, NEW m \in Members, c \in Shelf,
         Cardinality(Card(m)) < MaxBooks[m],
         Shelf' = Shelf \ {c}, Holders' = [Holders EXCEPT ![c] = {m}]
  PROVE  Desk!Next
<1>1. Desk!OnCard(m) = Card(m)
  <2>1. Desk!OnCard(m) = {d \in Copies : m \in Holders[d]}
    BY DEF Holders, Desk!OnCard
  <2>2. \A d \in Copies : Holders[d] = {loan[l].member : l \in OpenLoans(d)}
    BY DEF Holders
  <2> QED BY <2>1, <2>2 DEF Card
<1>2. Desk!Lend(c, m)
  BY <1>1, SameCount DEF Shelf, Holders, Desk!Lend
<1> QED BY <1>2 DEF Desk!Next

LEMMA DeskStutter ==
  (Shelf' = Shelf /\ Holders' = Holders) => UNCHANGED Desk!vars
BY DEF Shelf, Holders, Desk!vars

LEMMA LendIsDesk ==
  ASSUME LibInv, ~overlap, NEW r \in Requests, IssueCommit(r) PROVE Desk!Next
<1> USE DEF LibInv
<1>1. PICK c, m : c = req[r].copy /\ m = req[r].member
  OBVIOUS
<1>2. c \in Copies /\ m \in Members /\ LentOnce /\ StillTrue(req[r]) /\ RowsNamed
  BY <1>1, LendRows DEF InTurn, NamesRight
<1>3. /\ copy[c].status = "available" /\ copy'[c].status = "issued"
      /\ \A d \in Copies : d # c => copy'[d] = copy[d]
  BY <1>1, LendLentOnce
<1>4. PICK n \in Loans :
        /\ loan[n].status = "free" /\ loan'[n].status = "active"
        /\ loan'[n].copy = c /\ loan'[n].member = m
        /\ \A l \in Loans : l # n => loan'[l] = loan[l]
  BY <1>1, LendRows
<1>5. c \in Shelf /\ Shelf' = Shelf \ {c}
  BY <1>2, <1>3 DEF Shelf
<1>6. Cardinality(Card(m)) < MaxBooks[m]
  <2>1. Cardinality(ActiveLoans(m)) < MaxBooks[m]
    BY <1>1, <1>2 DEF StillTrue, IssueCommit
  <2>2. MaxBooks[m] \in Nat /\ Cardinality(ActiveLoans(m)) \in Nat
    BY <1>2, Finite, LibraryAssumption
  <2> QED BY <2>1, <2>2, CardSmall, FS_CardinalityType
<1>7. Holders' = [Holders EXCEPT ![c] = {m}]
  <2>1. OpenLoans(c)' = {n}
    BY <1>2, <1>3, <1>4 DEF OpenLoans, LentOnce
  <2>2. {loan'[l].member : l \in OpenLoans(c)'} = {m}
    BY <1>4, <2>1
  <2>3. ASSUME NEW d \in Copies, d # c
        PROVE  {loan'[l].member : l \in OpenLoans(d)'} = {loan[l].member : l \in OpenLoans(d)}
    <3>1. OpenLoans(d)' = OpenLoans(d) /\ n \notin OpenLoans(d)
      BY <1>4, <2>3 DEF OpenLoans
    <3>2. \A l \in OpenLoans(d) : loan'[l] = loan[l]
      BY <1>4, <3>1 DEF OpenLoans
    <3> QED BY <3>1, <3>2
  <2> QED BY <1>2, <2>2, <2>3 DEF Holders
<1> QED BY <1>2, <1>5, <1>6, <1>7, DeskLends

LEMMA ReturnIsDesk ==
  ASSUME LibInv, ~overlap, NEW r \in Requests, ReturnCommit(r) PROVE Desk!Next
<1> USE DEF LibInv
<1>1. PICK k, c : k = req[r].loan /\ c = loan[k].copy
  OBVIOUS
<1>2. k \in Loans /\ loan[k].status = "active" /\ LentOnce /\ RowsNamed
  BY <1>1, ReturnKeeps, ReturnLentOnce DEF InTurn, NamesRight
<1>3. c \in Copies /\ copy[c].status = "issued"
  BY <1>1, <1>2 DEF RowsNamed, LentOnce
<1>4. /\ copy'[c].status \in {"available", "unfit"}
      /\ \A d \in Copies : d # c => copy'[d] = copy[d]
  BY <1>1, ReturnLentOnce
<1>5. Shelf' \in {Shelf, Shelf \cup {c}}
  <2>1. CASE copy'[c].status = "available"
    BY <1>3, <1>4, <2>1 DEF Shelf
  <2>2. CASE copy'[c].status = "unfit"
    BY <1>3, <1>4, <2>2 DEF Shelf
  <2> QED BY <1>4, <2>1, <2>2
<1>6. /\ loan'[k].status = "returned"
      /\ \A l \in Loans : l # k => loan'[l] = loan[l]
  BY <1>1, ReturnKeeps
<1>7. OpenLoans(c) = {k}
  BY <1>1, <1>2 DEF OpenLoans, LentOnce
<1>8. Holders[c] # {}
  BY <1>3, <1>7 DEF Holders
<1>9. Holders' = [Holders EXCEPT ![c] = {}]
  <2>1. OpenLoans(c)' = {}
    BY <1>6, <1>7 DEF OpenLoans
  <2>2. {loan'[l].member : l \in OpenLoans(c)'} = {}
    BY <2>1
  <2>3. ASSUME NEW d \in Copies, d # c
        PROVE  {loan'[l].member : l \in OpenLoans(d)'} = {loan[l].member : l \in OpenLoans(d)}
    <3>1. OpenLoans(d)' = OpenLoans(d) /\ k \notin OpenLoans(d)
      BY <1>1, <1>6, <2>3 DEF OpenLoans
    <3>2. \A l \in OpenLoans(d) : loan'[l] = loan[l]
      BY <1>6, <3>1 DEF OpenLoans
    <3> QED BY <3>1, <3>2
  <2> QED BY <1>3, <2>2, <2>3 DEF Holders
<1> QED BY <1>3, <1>5, <1>8, <1>9, DeskTakesBack

\* One request at a time, every step is a step of the desk or none of its business.
LEMMA DeskStep ==
  ASSUME LibInv, ~overlap, [Next]_vars PROVE Desk!Next \/ UNCHANGED Desk!vars
<1> USE DEF LibInv
<1>1. ASSUME NEW r \in Requests, RequestStep(r) PROVE Desk!Next \/ UNCHANGED Desk!vars
  <2>1. CASE IssueCommit(r)
    BY <2>1, LendIsDesk
  <2>2. CASE ReturnCommit(r)
    BY <2>2, ReturnIsDesk
  <2>3. CASE RemoveCopy(r)
    <3>1. PICK c : c = req[r].copy
      OBVIOUS
    <3>2. c \in Copies /\ copy[c].status = "available"
      BY <2>3, <3>1 DEF RemoveCopy, InTurn, StillTrue, NamesRight, Named
    <3>3. c \in Shelf /\ Shelf' = Shelf \ {c}
      BY <2>3, <3>1, <3>2 DEF RemoveCopy, Shelf, LibTypeOK, CopyRow
    <3>4. Holders' = Holders
      BY <2>3, RemovalStands, WritesKeep, SameHolders DEF LendingStands
    <3> QED BY <3>2, <3>3, <3>4, DeskGivesUp
  <2>4. CASE Settle(r) \/ FulfilMark(r) \/ Cancel(r) \/ RemoveMember(r)
    <3>1. UNCHANGED copy
      BY <2>4 DEF Settle, FulfilMark, Cancel, RemoveMember
    <3>2. LoansKept /\ LendingStands
      BY <2>4, WritesKeep, SettleStands, MarkStands, RemovalStands
    <3>3. Holders' = Holders
      BY <3>2, SameHolders DEF LendingStands
    <3>4. Shelf' = Shelf
      BY <3>1 DEF Shelf
    <3> QED BY <3>3, <3>4, DeskStutter
  <2>5. CASE RemoveBook(r)
    <3>1. {c \in Copies : HasCopy(c) /\ copy[c].book = req[r].book} = {}
      BY <2>5 DEF RemoveBook, InTurn, StillTrue
    <3>2. \A c \in Copies : copy'[c] = copy[c]
      BY <2>5, <3>1 DEF RemoveBook
    <3>3. Shelf' = Shelf
      BY <3>2 DEF Shelf
    <3>4. Holders' = Holders
      BY <2>5, RemovalStands, WritesKeep, SameHolders DEF LendingStands
    <3> QED BY <3>3, <3>4, DeskStutter
  <2>6. CASE ~(\/ IssueCommit(r) \/ ReturnCommit(r) \/ RemoveCopy(r) \/ Settle(r)
               \/ FulfilMark(r) \/ Cancel(r) \/ RemoveMember(r) \/ RemoveBook(r))
    <3>1. UNCHANGED <<copy, loan, resv>>
      BY <1>1, <2>6, ReadsTyped DEF RequestStep, NothingWritten
    <3>2. Shelf' = Shelf /\ Holders' = Holders
      BY <3>1, NothingWrittenKeeps, SameHolders DEF Shelf
    <3> QED BY <3>2, DeskStutter
  <2> QED BY <2>1, <2>2, <2>3, <2>4, <2>5, <2>6
<1>2. CASE SingleWrite
  <2>1. Holders' = Holders
    BY <1>2, SingleWriteKeeps, SameHolders DEF LoansKept
  <2>2. ASSUME NEW b \in Books, NEW c \in Copies, CreateCopy(c, b) PROVE Desk!Next
    <3>1. copy[c].status = "free" /\ copy'[c].status = "available"
          /\ \A d \in Copies : d # c => copy'[d] = copy[d]
      BY <2>2 DEF CreateCopy, LibTypeOK
    <3>2. c \notin Shelf /\ Shelf' = Shelf \cup {c}
      BY <3>1 DEF Shelf
    <3>3. OpenLoans(c) = {}
      BY <3>1 DEF OpenLoans, InTurn, LentOnce
    <3>4. Holders[c] = {}
      BY <3>3 DEF Holders
    <3> QED BY <2>1, <3>2, <3>4, DeskAcquires
  <2>3. CASE UNCHANGED copy
    <3>1. Shelf' = Shelf
      BY <2>3 DEF Shelf
    <3> QED BY <2>1, <3>1, DeskStutter
  <2> QED BY <1>2, <2>2, <2>3 DEF SingleWrite, CreateBook, JoinLibrary, UpdateMemberStatus, Reserve
<1>3. CASE UNCHANGED vars
  <2>1. UNCHANGED <<copy, loan, resv>>
    BY <1>3 DEF vars
  <2>2. Shelf' = Shelf /\ Holders' = Holders
    BY <2>1, NothingWrittenKeeps, SameHolders DEF Shelf
  <2> QED BY <2>2, DeskStutter
<1> QED BY <1>1, <1>2, <1>3 DEF Next, SingleWrite

LEMMA OverlapStays == [Next]_vars => UNCHANGED overlap
<1> SUFFICES ASSUME [Next]_vars PROVE UNCHANGED overlap
  OBVIOUS
<1>1. ASSUME NEW r \in Requests, RequestStep(r) PROVE UNCHANGED overlap
  BY <1>1 DEF RequestStep, NothingWritten, IssueReadCopy, RemoveCopyRead, RemoveMemberRead,
     RemoveBookRead, ReturnRead, SettleRead, FulfilRead, CancelRead, IssueReadMember,
     IssueCount, IssueCommit, FulfilMark, ReturnCommit, Settle, Cancel, RemoveCopy,
     RemoveMember, RemoveBookCount, RemoveBook, Refused, CutShort
<1>2. CASE SingleWrite
  BY <1>2 DEF SingleWrite, CreateBook, CreateCopy, JoinLibrary, UpdateMemberStatus, Reserve
<1> QED BY <1>1, <1>2 DEF Next, SingleWrite, vars

\* One request at a time, cut short or not, the library implements a lending desk:
\* it starts as one, and each step is a step of the desk or leaves it as it was.
THEOREM ImplementsDesk == Spec => ActsAsDesk
<1>1. LibInv /\ [Next]_vars => [overlap \/ Desk!Next]_<<Desk!vars, overlap>>
  BY DeskStep, OverlapStays
<1> QED BY InvAlways, DeskInit, <1>1, PTL DEF Spec, ActsAsDesk
=============================================================================
