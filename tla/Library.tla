------------------------------- MODULE Library -------------------------------
(***************************************************************************)
(* The school library: copies, members, loans and reservations.            *)
(*                                                                         *)
(* Every handler reads what it decides on in statements of their own and   *)
(* then writes by id; only the two writes of an issue and of a return are  *)
(* one transaction.  No constraint keeps a copy to one open loan, or a     *)
(* member to maxBooks, when requests overlap.  Deleting a row deletes the  *)
(* loans and reservations that refer to it (onDelete: Cascade), and a loan *)
(* of a copy or a member that is gone cannot be inserted (foreign keys).   *)
(***************************************************************************)
EXTENDS Integers, FiniteSets

CONSTANTS
  Books, Copies,
  Members,      \* ids of LibraryMember rows
  MaxBooks,     \* the maxBooks each is created with; no handler changes it
  Loans,        \* supply of loan ids
  Reservations, \* supply of reservation ids
  LateDays,     \* how many days overdue a copy may come back
  Rates, Caps,  \* what LibrarySettings may say
  Requests,     \* requests that may be in flight
  None          \* SQL NULL

ASSUME LibraryAssumption ==
  /\ IsFiniteSet(Loans) /\ IsFiniteSet(Requests)
  /\ MaxBooks \in [Members -> Nat \ {0}]
  /\ LateDays \subseteq Nat /\ Rates \subseteq Nat /\ Caps \subseteq Nat \cup {None}
  /\ None \notin Books \cup Copies \cup Members \cup Loans \cup Reservations \cup Nat

VARIABLES
  book,     \* ids of the Book rows: "free" (not used yet), "live", "gone"
  copy,     \* BookCopy rows; "unfit" stands for lost and for damaged
  member,   \* LibraryMember rows
  loan,     \* Loan rows; "active" is returnedAt: null
  resv,     \* Reservation rows
  req,      \* requests in flight
  overlap   \* chosen at the start: requests interleave, or come one at a time

vars == <<book, copy, member, loan, resv, req, overlap>>

CopyRow == [status : {"free", "available", "issued", "unfit", "gone"},
            book : Books \cup {None}]
LoanRow == [status : {"free", "active", "returned", "gone"}, copy : Copies \cup {None},
            member : Members \cup {None}, fine : Nat,
            fineStatus : {"none", "pending", "paid", "waived"}]
ReservationRow == [status : {"free", "pending", "fulfilled", "cancelled", "gone"},
                   book : Books \cup {None}, member : Members \cup {None}]
RequestState ==
  [pc : {"idle", "reserved", "member", "count", "lend", "fulfil", "return", "settle",
         "cancel", "drop copy", "drop member", "reservations", "drop book"},
   copy : Copies \cup {None}, member : Members \cup {None}, loan : Loans \cup {None},
   resv : Reservations \cup {None}, book : Books \cup {None}]

IdleReq == [pc |-> "idle", copy |-> None, member |-> None, loan |-> None,
            resv |-> None, book |-> None]

Init ==
  /\ book = [b \in Books |-> "free"]
  /\ copy = [c \in Copies |-> [status |-> "free", book |-> None]]
  /\ member = [m \in Members |-> "free"]
  /\ loan = [l \in Loans |-> [status |-> "free", copy |-> None, member |-> None,
                              fine |-> 0, fineStatus |-> "none"]]
  /\ resv = [v \in Reservations |-> [status |-> "free", book |-> None, member |-> None]]
  /\ req = [r \in Requests |-> IdleReq]
  /\ overlap \in BOOLEAN

NothingWritten == UNCHANGED <<book, copy, member, loan, resv, overlap>>

HasCopy(c) == copy[c].status \notin {"free", "gone"}
HasMember(m) == member[m] \in {"active", "suspended"}
HasLoan(l) == loan[l].status \in {"active", "returned"}
HasReservation(v) == resv[v].status \notin {"free", "gone"}

\* loan.count({ where: { memberId, returnedAt: null } })
ActiveLoans(m) == {l \in Loans : loan[l].status = "active" /\ loan[l].member = m}

MayStart == overlap \/ \A r \in Requests : req[r].pc = "idle"

Starts(r) == MayStart /\ req[r].pc = "idle"

Goes(r, pc) == req' = [req EXCEPT ![r].pc = pc]

Ends(r) == req' = [req EXCEPT ![r] = IdleReq]

\* What a deleted copy, member or book takes with it.
Cascade(copies, members, books) ==
  /\ loan' = [l \in Loans |->
       IF HasLoan(l) /\ (loan[l].copy \in copies \/ loan[l].member \in members)
         THEN [loan[l] EXCEPT !.status = "gone"] ELSE loan[l]]
  /\ resv' = [v \in Reservations |->
       IF HasReservation(v) /\ (resv[v].book \in books \/ resv[v].member \in members)
         THEN [resv[v] EXCEPT !.status = "gone"] ELSE resv[v]]

-----------------------------------------------------------------------------
(* Catalog and members: handlers with one write that decides nothing        *)

CreateBook(b) ==
  /\ MayStart /\ book[b] = "free"
  /\ book' = [book EXCEPT ![b] = "live"]
  /\ UNCHANGED <<copy, member, loan, resv, req, overlap>>

CreateCopy(c, b) ==
  /\ MayStart /\ copy[c].status = "free" /\ book[b] = "live"
  /\ copy' = [copy EXCEPT ![c] = [status |-> "available", book |-> b]]
  /\ UNCHANGED <<book, member, loan, resv, req, overlap>>

\* create, and findOrCreateForStudent of a first reservation from the portal;
\* one row per person is a unique constraint.
JoinLibrary(m) ==
  /\ MayStart /\ member[m] = "free"
  /\ member' = [member EXCEPT ![m] = "active"]
  /\ UNCHANGED <<book, copy, loan, resv, req, overlap>>

UpdateMemberStatus(m) ==
  /\ MayStart /\ HasMember(m)
  /\ \E s \in {"active", "suspended"} : member' = [member EXCEPT ![m] = s]
  /\ UNCHANGED <<book, copy, loan, resv, req, overlap>>

Reserve(m, b) ==
  /\ MayStart /\ HasMember(m) /\ book[b] = "live"
  /\ \E v \in Reservations :
       /\ resv[v].status = "free"
       /\ resv' = [resv EXCEPT ![v] = [status |-> "pending", book |-> b, member |-> m]]
  /\ UNCHANGED <<book, copy, member, loan, req, overlap>>

-----------------------------------------------------------------------------
(* issueBook, alone or called by fulfill                                    *)

\* Mutant: the reservation is marked before the copy is issued.
FulfilReadMark(r, v) ==
  /\ Starts(r) /\ resv[v].status = "pending"
  /\ resv' = [resv EXCEPT ![v].status = "fulfilled"]
  /\ req' = [req EXCEPT ![r] = [IdleReq EXCEPT !.pc = "reserved", !.resv = v,
                                  !.member = resv[v].member]]
  /\ UNCHANGED <<book, copy, member, loan, overlap>>

FulfilRead(r, v) ==
  /\ Starts(r) /\ resv[v].status = "pending"
  /\ req' = [req EXCEPT ![r] = [IdleReq EXCEPT !.pc = "reserved", !.resv = v,
                                  !.member = resv[v].member]]
  /\ NothingWritten

\* Mutant: the copy's status is not looked at.
IssueReadCopyAny(r, c) ==
  /\ HasCopy(c)
  /\ \/ /\ req[r].pc = "reserved"
        /\ req' = [req EXCEPT ![r].pc = "member", ![r].copy = c]
     \/ /\ Starts(r)
        /\ \E m \in Members : req' = [req EXCEPT ![r] =
             [IdleReq EXCEPT !.pc = "member", !.copy = c, !.member = m]]
  /\ NothingWritten

\* Any copy will do for a reservation: its book is not compared.
IssueReadCopy(r, c) ==
  /\ copy[c].status = "available"
  /\ \/ /\ req[r].pc = "reserved"
        /\ req' = [req EXCEPT ![r].pc = "member", ![r].copy = c]
     \/ /\ Starts(r)
        /\ \E m \in Members : req' = [req EXCEPT ![r] =
             [IdleReq EXCEPT !.pc = "member", !.copy = c, !.member = m]]
  /\ NothingWritten

IssueReadMember(r) ==
  /\ req[r].pc = "member" /\ member[req[r].member] = "active"
  /\ Goes(r, "count")
  /\ NothingWritten

\* Mutant: one more than maxBooks passes.
IssueCountOffByOne(r) ==
  /\ req[r].pc = "count"
  /\ Cardinality(ActiveLoans(req[r].member)) <= MaxBooks[req[r].member]
  /\ Goes(r, "lend")
  /\ NothingWritten

IssueCount(r) ==
  /\ req[r].pc = "count"
  /\ Cardinality(ActiveLoans(req[r].member)) < MaxBooks[req[r].member]
  /\ Goes(r, "lend")
  /\ NothingWritten

\* The transaction: the loan, and the copy by its id, whatever its status is now.
IssueCommit(r) ==
  /\ req[r].pc = "lend" /\ HasCopy(req[r].copy) /\ HasMember(req[r].member)
  /\ \E l \in Loans :
       /\ loan[l].status = "free"
       /\ loan' = [loan EXCEPT ![l] = [@ EXCEPT !.status = "active",
                                         !.copy = req[r].copy, !.member = req[r].member]]
  /\ copy' = [copy EXCEPT ![req[r].copy].status = "issued"]
  /\ IF req[r].resv = None THEN Ends(r) ELSE Goes(r, "fulfil")
  /\ UNCHANGED <<book, member, resv, overlap>>

FulfilMark(r) ==
  /\ req[r].pc = "fulfil" /\ HasReservation(req[r].resv)
  /\ resv' = [resv EXCEPT ![req[r].resv].status = "fulfilled"]
  /\ Ends(r)
  /\ UNCHANGED <<book, copy, member, loan, overlap>>

-----------------------------------------------------------------------------
(* returnBook, payFine, waiveFine                                           *)

\* calculateFine: a cap of 0 is no cap.
CalculateFine(days, rate, cap) ==
  IF cap \in {None, 0} \/ days * rate <= cap THEN days * rate ELSE cap

\* The fines of a copy returned on any day under any settings of the school.
Fines == {CalculateFine(d, rate, cap) : d \in LateDays, rate \in Rates, cap \in Caps}

ReturnRead(r, l) ==
  /\ Starts(r) /\ loan[l].status = "active"
  /\ req' = [req EXCEPT ![r] = [IdleReq EXCEPT !.pc = "return", !.loan = l]]
  /\ NothingWritten

\* Mutant: the condition is written as the copy's status as it is.
ReturnCommitCondition(r) ==
  /\ req[r].pc = "return" /\ HasLoan(req[r].loan)
  /\ \E fine \in Fines : loan' = [loan EXCEPT ![req[r].loan].status = "returned",
       ![req[r].loan].fine = fine,
       ![req[r].loan].fineStatus = IF fine > 0 THEN "pending" ELSE "none"]
  /\ \E condition \in {"ok", "unfit"} :
       copy' = [copy EXCEPT ![loan[req[r].loan].copy].status = condition]
  /\ Ends(r)
  /\ UNCHANGED <<book, member, resv, overlap>>

\* The transaction writes loan and copy by their ids, with the fine worked out
\* from the settings it read a moment before.
ReturnCommit(r) ==
  /\ req[r].pc = "return" /\ HasLoan(req[r].loan)
  /\ \E fine \in Fines : loan' = [loan EXCEPT ![req[r].loan].status = "returned",
       ![req[r].loan].fine = fine,
       ![req[r].loan].fineStatus = IF fine > 0 THEN "pending" ELSE "none"]
  /\ \E status \in {"available", "unfit"} :
       copy' = [copy EXCEPT ![loan[req[r].loan].copy].status = status]
  /\ Ends(r)
  /\ UNCHANGED <<book, member, resv, overlap>>

\* Mutant: the fine need not be pending.
SettleReadAny(r, l) ==
  /\ Starts(r) /\ HasLoan(l) /\ loan[l].fineStatus # "none"
  /\ req' = [req EXCEPT ![r] = [IdleReq EXCEPT !.pc = "settle", !.loan = l]]
  /\ NothingWritten

SettleRead(r, l) ==
  /\ Starts(r) /\ HasLoan(l) /\ loan[l].fineStatus = "pending"
  /\ req' = [req EXCEPT ![r] = [IdleReq EXCEPT !.pc = "settle", !.loan = l]]
  /\ NothingWritten

Settle(r) ==
  /\ req[r].pc = "settle" /\ HasLoan(req[r].loan)
  /\ \E s \in {"paid", "waived"} : loan' = [loan EXCEPT ![req[r].loan].fineStatus = s]
  /\ Ends(r)
  /\ UNCHANGED <<book, copy, member, resv, overlap>>

-----------------------------------------------------------------------------
(* Cancelling and deleting: a check, and a write by id                      *)

CancelRead(r, v) ==
  /\ Starts(r) /\ resv[v].status = "pending"
  /\ req' = [req EXCEPT ![r] = [IdleReq EXCEPT !.pc = "cancel", !.resv = v]]
  /\ NothingWritten

Cancel(r) ==
  /\ req[r].pc = "cancel" /\ HasReservation(req[r].resv)
  /\ resv' = [resv EXCEPT ![req[r].resv].status = "cancelled"]
  /\ Ends(r)
  /\ UNCHANGED <<book, copy, member, loan, overlap>>

RemoveCopyRead(r, c) ==
  /\ Starts(r) /\ copy[c].status = "available"
  /\ req' = [req EXCEPT ![r] = [IdleReq EXCEPT !.pc = "drop copy", !.copy = c]]
  /\ NothingWritten

RemoveCopy(r) ==
  /\ req[r].pc = "drop copy" /\ HasCopy(req[r].copy)
  /\ copy' = [copy EXCEPT ![req[r].copy].status = "gone"]
  /\ Cascade({req[r].copy}, {}, {})
  /\ Ends(r)
  /\ UNCHANGED <<book, member, overlap>>

RemoveMemberRead(r, m) ==
  /\ Starts(r) /\ HasMember(m) /\ ActiveLoans(m) = {}
  /\ req' = [req EXCEPT ![r] = [IdleReq EXCEPT !.pc = "drop member", !.member = m]]
  /\ NothingWritten

RemoveMember(r) ==
  /\ req[r].pc = "drop member" /\ HasMember(req[r].member)
  /\ member' = [member EXCEPT ![req[r].member] = "gone"]
  /\ Cascade({}, {req[r].member}, {})
  /\ Ends(r)
  /\ UNCHANGED <<book, copy, overlap>>

RemoveBookRead(r, b) ==
  /\ Starts(r) /\ book[b] = "live"
  /\ \A c \in Copies : HasCopy(c) => copy[c].book # b
  /\ req' = [req EXCEPT ![r] = [IdleReq EXCEPT !.pc = "reservations", !.book = b]]
  /\ NothingWritten

RemoveBookCount(r) ==
  /\ req[r].pc = "reservations"
  /\ \A v \in Reservations : resv[v].status = "pending" => resv[v].book # req[r].book
  /\ Goes(r, "drop book")
  /\ NothingWritten

RemoveBook(r) ==
  LET copies == {c \in Copies : HasCopy(c) /\ copy[c].book = req[r].book} IN
  /\ req[r].pc = "drop book" /\ book[req[r].book] = "live"
  /\ book' = [book EXCEPT ![req[r].book] = "gone"]
  /\ copy' = [c \in Copies |->
       IF c \in copies THEN [copy[c] EXCEPT !.status = "gone"] ELSE copy[c]]
  /\ Cascade(copies, {}, {req[r].book})
  /\ Ends(r)
  /\ UNCHANGED <<member, overlap>>

-----------------------------------------------------------------------------

\* A check refuses, or the row to be written is gone: an exception, and nothing
\* more is written.
Refused(r) ==
  /\ \/ req[r].pc = "reserved"   \* the copy named is not available
     \/ req[r].pc = "member" /\ member[req[r].member] # "active"
     \/ req[r].pc = "count" /\ Cardinality(ActiveLoans(req[r].member)) >= MaxBooks[req[r].member]
     \/ req[r].pc = "lend" /\ ~(HasCopy(req[r].copy) /\ HasMember(req[r].member))
     \/ req[r].pc \in {"fulfil", "cancel"} /\ ~HasReservation(req[r].resv)
     \/ req[r].pc \in {"return", "settle"} /\ ~HasLoan(req[r].loan)
     \/ req[r].pc = "drop copy" /\ ~HasCopy(req[r].copy)
     \/ req[r].pc = "drop member" /\ ~HasMember(req[r].member)
     \/ /\ req[r].pc = "reservations"
        /\ \E v \in Reservations : resv[v].status = "pending" /\ resv[v].book = req[r].book
     \/ req[r].pc = "drop book" /\ book[req[r].book] # "live"
  /\ Ends(r)
  /\ NothingWritten

\* An error or a restart between two statements, any number of times.
CutShort(r) ==
  /\ req[r].pc # "idle"
  /\ Ends(r)
  /\ NothingWritten

RequestStep(r) ==
  \/ \E c \in Copies : IssueReadCopy(r, c) \/ RemoveCopyRead(r, c)
  \/ \E m \in Members : RemoveMemberRead(r, m)
  \/ \E b \in Books : RemoveBookRead(r, b)
  \/ \E l \in Loans : ReturnRead(r, l) \/ SettleRead(r, l)
  \/ \E v \in Reservations : FulfilRead(r, v) \/ CancelRead(r, v)
  \/ IssueReadMember(r) \/ IssueCount(r) \/ IssueCommit(r) \/ FulfilMark(r)
  \/ ReturnCommit(r) \/ Settle(r) \/ Cancel(r)
  \/ RemoveCopy(r) \/ RemoveMember(r) \/ RemoveBookCount(r) \/ RemoveBook(r)
  \/ Refused(r) \/ CutShort(r)

Next ==
  \/ \E b \in Books : CreateBook(b) \/ \E c \in Copies : CreateCopy(c, b)
  \/ \E m \in Members :
       JoinLibrary(m) \/ UpdateMemberStatus(m) \/ \E b \in Books : Reserve(m, b)
  \/ \E r \in Requests : RequestStep(r)

Spec == Init /\ [][Next]_vars

-----------------------------------------------------------------------------
(* Properties                                                               *)

\* Every variable holds a value of its columns or of its handler's locals.
LibTypeOK ==
  /\ book \in [Books -> {"free", "live", "gone"}]
  /\ copy \in [Copies -> CopyRow]
  /\ member \in [Members -> {"free", "active", "suspended", "gone"}]
  /\ loan \in [Loans -> LoanRow]
  /\ resv \in [Reservations -> ReservationRow]
  /\ req \in [Requests -> RequestState]
  /\ overlap \in BOOLEAN

\* The limit is counted before the transaction, so requests that overlap may
\* exceed it, but only by those in flight together: never does a member have
\* more than maxBooks plus one loan for each other request.
LimitOverrun ==
  \A m \in Members :
    Cardinality(ActiveLoans(m)) <= MaxBooks[m] + Cardinality(Requests) - 1

Fulfilled(m) == {v \in Reservations : resv[v].status = "fulfilled" /\ resv[v].member = m}

EverLent(m) == {l \in Loans : loan[l].status # "free" /\ loan[l].member = m}

\* One request at a time: a fine is settled once, and what was paid or waived
\* is never put back or changed.
FinesSettledOnce ==
  [][\A l \in Loans :
       ~overlap /\ loan[l].fineStatus \in {"paid", "waived"} =>
         loan'[l].fineStatus = loan[l].fineStatus /\ loan'[l].fine = loan[l].fine]_vars

OpenLoans(c) == {l \in Loans : loan[l].status = "active" /\ loan[l].copy = c}

\* What a row says of a loan is true of the loans.  Whatever interleaves and
\* wherever fulfill is cut short, no reservation is marked fulfilled without a loan
\* of its own to its member.  One request at a time, deletions included, a copy is
\* marked issued exactly while one open loan says who has it and can return it.
MarkedAsLent ==
  /\ \A m \in Members : Cardinality(Fulfilled(m)) <= Cardinality(EverLent(m))
  /\ ~overlap => \A c \in Copies :
       Cardinality(OpenLoans(c)) = IF copy[c].status = "issued" THEN 1 ELSE 0

\* One request at a time, cut short or not, the tables behave as a lending desk:
\* a copy is lent only from the shelf, to one member within the limit, and comes
\* back from that member.
Desk == INSTANCE LendingDesk WITH
  shelf <- {c \in Copies : copy[c].status = "available"},
  holders <- [c \in Copies |-> {loan[l].member : l \in OpenLoans(c)}]

ActsAsDesk == Desk!Init /\ [][overlap \/ Desk!Next]_<<Desk!vars, overlap>>
=============================================================================
