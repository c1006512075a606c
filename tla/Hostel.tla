------------------------------- MODULE Hostel -------------------------------
(***************************************************************************)
(* Hostels and rooms, the beds allocated in them, and the front desk with  *)
(* its visitors and complaints.                                            *)
(*                                                                         *)
(* Nothing in the schema keeps a bed or a student to one active            *)
(* allocation: HostelAllocationsService looks for a clash in statements of *)
(* their own and inserts or moves the row afterwards.  A room is counted   *)
(* empty before it is deleted, and the delete cascades to whatever         *)
(* allocation refers to the room by then.                                  *)
(***************************************************************************)
EXTENDS Handlers

CONSTANTS
  Hostels, Rooms, Allocations, Visitors, Complaints,  \* ids of rows
  Residents,  \* students who may live here: a plain id that no cascade clears
  MaxBeds     \* bound: beds of a room (the code allows 50)

ASSUME HostelAssumption == IsFiniteSet(Allocations) /\ None \notin Allocations /\ MaxBeds \in Nat

VARIABLES
  hostel,      \* Hostel rows: "none" before they are created
  room,        \* Room rows
  allocation,  \* Allocation rows
  visitor,     \* Visitor rows
  complaint    \* Complaint rows

hostelTables == <<hostel, room, allocation, visitor, complaint>>

ComplaintStatuses == {"open", "in-progress", "resolved"}

RoomRow == [status : RowStatus, hostel : Hostels \cup {None}, capacity : 0..MaxBeds]
AllocationRow == [status : {"none", "active", "vacated", "deleted"},
                  student : Residents \cup {None}, room : Rooms \cup {None}, bed : 0..MaxBeds]
\* Of resolvedAt only whether it is set.
ComplaintRow == [status : {"none", "deleted"} \cup ComplaintStatuses,
                 hostel : Hostels \cup {None}, room : Rooms \cup {None},
                 resolvedAt : BOOLEAN]

\* The bodies of the requests that a statement decides on.
RoomDto == [hostel : Hostels, capacity : 1..MaxBeds]
AllocateDto == [student : Residents, room : Rooms, bed : 1..MaxBeds]
ReassignDto == [room : Rooms, bed : 1..MaxBeds]
ComplaintDto == [hostel : Hostels, room : Rooms \cup {None}]

HostelInit ==
  /\ hostel = [h \in Hostels |-> "none"]
  /\ room = [m \in Rooms |-> [status |-> "none", hostel |-> None, capacity |-> 0]]
  /\ allocation = [a \in Allocations |->
       [status |-> "none", student |-> None, room |-> None, bed |-> 0]]
  /\ visitor = [v \in Visitors |-> "none"]
  /\ complaint = [c \in Complaints |-> [status |-> "none", hostel |-> None, room |-> None,
                                        resolvedAt |-> FALSE]]

Active == {a \in Allocations : allocation[a].status = "active"}
InRoom(m) == {a \in Active : allocation[a].room = m}
InBed(m, b) == {a \in InRoom(m) : allocation[a].bed = b}
BedsOf(s) == {a \in Active : allocation[a].student = s}

OccupiedBeds(m) == Cardinality(InRoom(m))

-----------------------------------------------------------------------------
(* HostelStructureService                                                   *)

CreateHostel(h) ==
  /\ AtOnce /\ hostel[h] = "none"
  /\ hostel' = [hostel EXCEPT ![h] = "kept"]
  /\ UNCHANGED <<room, allocation, visitor, complaint>>

RemoveHostelCount(r, h) ==
  /\ hostel[h] = "kept"
  /\ \A m \in Rooms : room[m].status = "kept" => room[m].hostel # h
  /\ Starts(r, [op |-> "RemoveHostel", row |-> h])
  /\ UNCHANGED hostelTables

\* The rows that the schema deletes with their rooms.
WithRooms(ms) ==
  [a \in Allocations |-> IF allocation[a].status \in {"active", "vacated"}
                            /\ allocation[a].room \in ms
                         THEN [allocation[a] EXCEPT !.status = "deleted"] ELSE allocation[a]]

RemoveHostelDelete(r) ==
  /\ At(r, "RemoveHostel") /\ hostel[req[r].row] = "kept"
  /\ hostel' = [hostel EXCEPT ![req[r].row] = "deleted"]
  /\ room' = [m \in Rooms |-> IF room[m].hostel = req[r].row
                              THEN [room[m] EXCEPT !.status = "deleted"] ELSE room[m]]
  /\ allocation' = WithRooms({m \in Rooms : room[m].hostel = req[r].row})
  /\ complaint' = [c \in Complaints |-> IF complaint[c].hostel = req[r].row
                                        THEN [complaint[c] EXCEPT !.status = "deleted"]
                                        ELSE complaint[c]]
  /\ Ends(r) /\ UNCHANGED visitor

CreateRoom(m) ==
  /\ AtOnce /\ room[m].status = "none"
  /\ \E dto \in RoomDto : /\ hostel[dto.hostel] = "kept"
                          /\ room' = [room EXCEPT ![m] = [status |-> "kept",
                               hostel |-> dto.hostel, capacity |-> dto.capacity]]
  /\ UNCHANGED <<hostel, allocation, visitor, complaint>>

\* The capacity may fall below the number of residents, or below a bed in use.
UpdateRoom(m) ==
  /\ AtOnce /\ room[m].status = "kept"
  /\ \E dto \in RoomDto :
       /\ hostel[dto.hostel] = "kept"
       /\ room' = [room EXCEPT ![m].hostel = dto.hostel, ![m].capacity = dto.capacity]
  /\ UNCHANGED <<hostel, allocation, visitor, complaint>>

\* Mutant: the residents of the room are not counted.
RemoveRoomUncounted(r, m) ==
  /\ room[m].status = "kept"
  /\ Starts(r, [op |-> "RemoveRoom", row |-> m])
  /\ UNCHANGED hostelTables

RemoveRoomCount(r, m) ==
  /\ room[m].status = "kept" /\ OccupiedBeds(m) = 0
  /\ Starts(r, [op |-> "RemoveRoom", row |-> m])
  /\ UNCHANGED hostelTables

RemoveRoomDelete(r) ==
  /\ At(r, "RemoveRoom") /\ room[req[r].row].status = "kept"
  /\ room' = [room EXCEPT ![req[r].row].status = "deleted"]
  /\ allocation' = WithRooms({req[r].row})
  /\ Ends(r) /\ UNCHANGED <<hostel, visitor, complaint>>

StructureController ==
  \/ \E h \in Hostels : CreateHostel(h)
  \/ \E m \in Rooms : CreateRoom(m) \/ UpdateRoom(m)
  \/ \E r \in Requests :
       \/ \E h \in Hostels : RemoveHostelCount(r, h)
       \/ \E m \in Rooms : RemoveRoomCount(r, m)
       \/ RemoveHostelDelete(r) \/ RemoveRoomDelete(r)

-----------------------------------------------------------------------------
(* HostelAllocationsService                                                 *)

FindRoom(m, bed) == room[m].status = "kept" /\ bed <= room[m].capacity

BedFree(dto, except) == InBed(dto.room, dto.bed) \subseteq {except}

AllocateRoom(r) ==
  /\ \E dto \in AllocateDto : /\ FindRoom(dto.room, dto.bed)
                              /\ Starts(r, [op |-> "AllocateBed", dto |-> dto])
  /\ UNCHANGED hostelTables

AllocateBed(r) ==
  /\ At(r, "AllocateBed") /\ BedFree(req[r].dto, None)
  /\ Goes(r, [req[r] EXCEPT !.op = "AllocateStudent"])
  /\ UNCHANGED hostelTables

AllocateStudent(r) ==
  /\ At(r, "AllocateStudent") /\ BedsOf(req[r].dto.student) = {}
  /\ Goes(r, [req[r] EXCEPT !.op = "AllocateCreate"])
  /\ UNCHANGED hostelTables

\* The foreign key refuses a room that is gone.
Unused == {a \in Allocations : allocation[a].status = "none"}

\* Any id that no row has had: which of them it is tells nothing.
AllocateCreate(r) ==
  /\ At(r, "AllocateCreate") /\ room[req[r].dto.room].status = "kept" /\ Unused # {}
  /\ allocation' = [allocation EXCEPT ![CHOOSE a \in Unused : TRUE] = [status |-> "active",
       student |-> req[r].dto.student, room |-> req[r].dto.room, bed |-> req[r].dto.bed]]
  /\ Ends(r) /\ UNCHANGED <<hostel, room, visitor, complaint>>

ReassignRead(r, a) ==
  /\ allocation[a].status = "active"
  /\ \E dto \in ReassignDto : Starts(r, [op |-> "ReassignRoom", row |-> a, dto |-> dto])
  /\ UNCHANGED hostelTables

ReassignRoom(r) ==
  /\ At(r, "ReassignRoom") /\ FindRoom(req[r].dto.room, req[r].dto.bed)
  /\ Goes(r, [req[r] EXCEPT !.op = "ReassignBed"])
  /\ UNCHANGED hostelTables

ReassignBed(r) ==
  /\ At(r, "ReassignBed") /\ BedFree(req[r].dto, req[r].row)
  /\ Goes(r, [req[r] EXCEPT !.op = "ReassignUpdate"])
  /\ UNCHANGED hostelTables

\* By id: the allocation may have been vacated since.
ReassignUpdate(r) ==
  /\ At(r, "ReassignUpdate") /\ room[req[r].dto.room].status = "kept"
  /\ allocation[req[r].row].status # "deleted"
  /\ allocation' = [allocation EXCEPT ![req[r].row].room = req[r].dto.room,
                                      ![req[r].row].bed = req[r].dto.bed]
  /\ Ends(r) /\ UNCHANGED <<hostel, room, visitor, complaint>>

VacateRead(r, a) ==
  /\ allocation[a].status = "active"
  /\ Starts(r, [op |-> "Vacate", row |-> a])
  /\ UNCHANGED hostelTables

VacateUpdate(r) ==
  /\ At(r, "Vacate") /\ allocation[req[r].row].status # "deleted"
  /\ allocation' = [allocation EXCEPT ![req[r].row].status = "vacated"]
  /\ Ends(r) /\ UNCHANGED <<hostel, room, visitor, complaint>>

AllocationsController ==
  \E r \in Requests :
    \/ AllocateRoom(r) \/ AllocateBed(r) \/ AllocateStudent(r) \/ AllocateCreate(r)
    \/ ReassignRoom(r) \/ ReassignBed(r) \/ ReassignUpdate(r) \/ VacateUpdate(r)
    \/ \E a \in Allocations : ReassignRead(r, a) \/ VacateRead(r, a)

-----------------------------------------------------------------------------
(* HostelVisitorsService and HostelComplaintsService                        *)

CheckIn(v) ==
  /\ AtOnce /\ visitor[v] = "none"
  /\ visitor' = [visitor EXCEPT ![v] = "in"]
  /\ UNCHANGED <<hostel, room, allocation, complaint>>

\* Of two check-outs that overlap the later only changes the time of leaving.
CheckOut(v) ==
  /\ AtOnce /\ visitor[v] = "in"
  /\ visitor' = [visitor EXCEPT ![v] = "out"]
  /\ UNCHANGED <<hostel, room, allocation, complaint>>

VisitorsController == \E v \in Visitors : CheckIn(v) \/ CheckOut(v)

CreateComplaint(c) ==
  /\ AtOnce /\ complaint[c].status = "none"
  /\ \E dto \in ComplaintDto :
       /\ hostel[dto.hostel] = "kept"
       /\ dto.room # None => room[dto.room].status = "kept" /\ room[dto.room].hostel = dto.hostel
       /\ complaint' = [complaint EXCEPT ![c].status = "open", ![c].hostel = dto.hostel,
                                         ![c].room = dto.room]
  /\ UNCHANGED <<hostel, room, allocation, visitor>>

\* Mutant: a complaint that is opened again keeps the time it was resolved at.
UpdateComplaintStatusOnly(c) ==
  /\ AtOnce /\ complaint[c].status \in ComplaintStatuses
  /\ \E s \in ComplaintStatuses :
       complaint' = [complaint EXCEPT ![c].status = s, ![c].resolvedAt = @ \/ s = "resolved"]
  /\ UNCHANGED <<hostel, room, allocation, visitor>>

UpdateComplaintStatus(c) ==
  /\ AtOnce /\ complaint[c].status \in ComplaintStatuses
  /\ \E s \in ComplaintStatuses :
       complaint' = [complaint EXCEPT ![c].status = s, ![c].resolvedAt = (s = "resolved")]
  /\ UNCHANGED <<hostel, room, allocation, visitor>>

ComplaintsController == \E c \in Complaints : CreateComplaint(c) \/ UpdateComplaintStatus(c)

HostelDies(r) == Dies(r) /\ UNCHANGED hostelTables

\* Allocations and the front desk touch different tables of one structure.
HostelBeds == StructureController \/ AllocationsController \/ \E r \in Requests : HostelDies(r)
HostelDesk == \/ StructureController \/ VisitorsController \/ ComplaintsController
              \/ \E r \in Requests : HostelDies(r)

-----------------------------------------------------------------------------
(* Properties                                                               *)

HostelTypeOK ==
  /\ hostel \in [Hostels -> RowStatus]
  /\ room \in [Rooms -> RoomRow]
  /\ allocation \in [Allocations -> AllocationRow]
  /\ visitor \in [Visitors -> {"none", "in", "out"}]
  /\ complaint \in [Complaints -> ComplaintRow]
  /\ \A c \in Complaints : complaint[c].resolvedAt => complaint[c].status \in {"resolved", "deleted"}

\* One request at a time, a bed has one resident and a student one bed, through
\* reassignments and cascades.  Requests that overlap all find the bed, or the
\* student, free: no more of them than are in flight.
BedsShared ==
  /\ \A m \in Rooms, b \in 1..MaxBeds : Cardinality(InBed(m, b)) <= AtOnceAtMost
  /\ \A s \in Residents : Cardinality(BedsOf(s)) <= AtOnceAtMost

\* That, and residents leave by being vacated: one request at a time, no removal
\* of a room or a hostel takes an active allocation with it.
BedsKept ==
  [][/\ BedsShared'
     /\ ~overlap => \A a \in Active : allocation'[a].status \in {"active", "vacated"}]_allocation
=============================================================================
