---------------------------- MODULE CampusProofs ----------------------------
(***************************************************************************)
(* Theorems about Campus: all desks at once, for any number of rows of     *)
(* their tables and of requests in flight.                                 *)
(*                                                                         *)
(* CampusInv, at the end, says that requests are in flight as they can be, *)
(* each at a statement of one desk with the locals that statement has, and *)
(* joins the invariants of the desks.  A step is one desk's: that desk's   *)
(* lemma keeps its own invariant, and the others' follow from the tables   *)
(* and the statements that the step leaves alone.                          *)
(***************************************************************************)
EXTENDS PlatformProofs, SumTheorems

-----------------------------------------------------------------------------
(* Hostel: requests and types                                               *)

HostelReq ==
  [op : {"RemoveHostel"}, row : Hostels] \cup [op : {"RemoveRoom"}, row : Rooms]
  \cup [op : {"AllocateBed", "AllocateStudent", "AllocateCreate"}, dto : AllocateDto]
  \cup [op : {"ReassignRoom", "ReassignBed", "ReassignUpdate"}, row : Allocations,
        dto : ReassignDto]
  \cup [op : {"Vacate"}, row : Allocations]

LEMMA HostelReqOp ==
  ASSUME NEW q \in HostelReq
  PROVE  /\ q.op \in HostelOps /\ q.op # "idle"
         /\ q.op = "RemoveHostel" => q.row \in Hostels
         /\ q.op = "RemoveRoom" => q.row \in Rooms
         /\ q.op \in {"AllocateBed", "AllocateStudent", "AllocateCreate"} =>
              q = [op |-> q.op, dto |-> q.dto] /\ q.dto \in AllocateDto
         /\ q.op \in {"ReassignRoom", "ReassignBed", "ReassignUpdate"} =>
              /\ q = [op |-> q.op, row |-> q.row, dto |-> q.dto]
              /\ q.row \in Allocations /\ q.dto \in ReassignDto
         /\ q.op = "Vacate" => q.row \in Allocations
BY DEF HostelReq, HostelOps

\* What a request of the hostel may be at.
HostelRequests == \A r \in Requests : req[r].op \in HostelOps => req[r] \in HostelReq

LEMMA HostelSteps ==
  ASSUME HostelTypeOK, DOMAIN req = Requests, HostelRequests,
         HostelBeds \/ HostelDesk, Moves(HostelOps)
  PROVE  Steps(HostelReq)
<1>1. ASSUME NEW h \in Hostels, CreateHostel(h) PROVE Steps(HostelReq)
  BY <1>1, AtOnceSteps DEF CreateHostel
<1>2. ASSUME NEW m \in Rooms, CreateRoom(m) \/ UpdateRoom(m) PROVE Steps(HostelReq)
  BY <1>2, AtOnceSteps DEF CreateRoom, UpdateRoom
<1>3. ASSUME NEW r \in Requests, NEW h \in Hostels, RemoveHostelCount(r, h) PROVE Steps(HostelReq)
  <2>1. PICK q \in HostelReq : q = [op |-> "RemoveHostel", row |-> h]
    BY DEF HostelReq
  <2> QED BY <1>3, <2>1, StartSteps DEF RemoveHostelCount
<1>4. ASSUME NEW r \in Requests, NEW m \in Rooms, RemoveRoomCount(r, m) PROVE Steps(HostelReq)
  <2>1. PICK q \in HostelReq : q = [op |-> "RemoveRoom", row |-> m]
    BY DEF HostelReq
  <2> QED BY <1>4, <2>1, StartSteps DEF RemoveRoomCount
<1>5. ASSUME NEW r \in Requests,
             \/ RemoveHostelDelete(r) \/ RemoveRoomDelete(r) \/ AllocateCreate(r)
             \/ ReassignUpdate(r) \/ VacateUpdate(r)
      PROVE  Steps(HostelReq)
  <2>1. req[r].op \in HostelOps /\ Ends(r)
    BY <1>5 DEF RemoveHostelDelete, RemoveRoomDelete, AllocateCreate, ReassignUpdate,
                VacateUpdate, At, HostelOps
  <2> QED BY <2>1, EndSteps DEF HostelRequests
<1>6. ASSUME NEW r \in Requests, AllocateRoom(r) PROVE Steps(HostelReq)
  <2>1. PICK dto \in AllocateDto : Starts(r, [op |-> "AllocateBed", dto |-> dto])
    BY <1>6 DEF AllocateRoom
  <2>2. PICK q \in HostelReq : q = [op |-> "AllocateBed", dto |-> dto]
    BY DEF HostelReq
  <2> QED BY <2>1, <2>2, StartSteps
<1>7. ASSUME NEW r \in Requests, AllocateBed(r) \/ AllocateStudent(r) PROVE Steps(HostelReq)
  <2>1. PICK op \in {"AllocateStudent", "AllocateCreate"} : Goes(r, [req[r] EXCEPT !.op = op])
    BY <1>7 DEF AllocateBed, AllocateStudent
  <2>2. req[r] \in HostelReq /\ req[r].op \in {"AllocateBed", "AllocateStudent"}
    BY <1>7 DEF AllocateBed, AllocateStudent, At, HostelRequests, HostelOps
  <2>3. PICK q : q = [req[r] EXCEPT !.op = op]
    OBVIOUS
  <2>4. q \in HostelReq
    <3>1. req[r] = [op |-> req[r].op, dto |-> req[r].dto] /\ req[r].dto \in AllocateDto
      BY <2>2, HostelReqOp
    <3>2. q = [op |-> op, dto |-> req[r].dto]
      BY <2>3, <3>1
    <3> QED BY <3>1, <3>2 DEF HostelReq
  <2> QED BY <2>1, <2>2, <2>3, <2>4, GoSteps
<1>8. ASSUME NEW r \in Requests, ReassignRoom(r) \/ ReassignBed(r) PROVE Steps(HostelReq)
  <2>1. PICK op \in {"ReassignBed", "ReassignUpdate"} : Goes(r, [req[r] EXCEPT !.op = op])
    BY <1>8 DEF ReassignRoom, ReassignBed
  <2>2. req[r] \in HostelReq /\ req[r].op \in {"ReassignRoom", "ReassignBed"}
    BY <1>8 DEF ReassignRoom, ReassignBed, At, HostelRequests, HostelOps
  <2>3. PICK q : q = [req[r] EXCEPT !.op = op]
    OBVIOUS
  <2>4. q \in HostelReq
    <3>1. /\ req[r] = [op |-> req[r].op, row |-> req[r].row, dto |-> req[r].dto]
          /\ req[r].row \in Allocations /\ req[r].dto \in ReassignDto
      BY <2>2, HostelReqOp
    <3>2. q = [op |-> op, row |-> req[r].row, dto |-> req[r].dto]
      BY <2>3, <3>1
    <3> QED BY <3>1, <3>2 DEF HostelReq
  <2> QED BY <2>1, <2>2, <2>3, <2>4, GoSteps
<1>9. ASSUME NEW r \in Requests, NEW a \in Allocations, ReassignRead(r, a) \/ VacateRead(r, a)
      PROVE  Steps(HostelReq)
  <2>1. CASE ReassignRead(r, a)
    <3>1. PICK dto \in ReassignDto : Starts(r, [op |-> "ReassignRoom", row |-> a, dto |-> dto])
      BY <2>1 DEF ReassignRead
    <3>2. PICK q \in HostelReq : q = [op |-> "ReassignRoom", row |-> a, dto |-> dto]
      BY DEF HostelReq
    <3> QED BY <3>1, <3>2, StartSteps
  <2>2. CASE VacateRead(r, a)
    <3>1. PICK q \in HostelReq : q = [op |-> "Vacate", row |-> a]
      BY DEF HostelReq
    <3> QED BY <2>2, <3>1, StartSteps DEF VacateRead
  <2> QED BY <1>9, <2>1, <2>2
<1>10. CASE VisitorsController \/ ComplaintsController
  BY <1>10, AtOnceSteps DEF VisitorsController, ComplaintsController, CheckIn, CheckOut,
                            CreateComplaint, UpdateComplaintStatus
<1>11. ASSUME NEW r \in Requests, HostelDies(r) PROVE Steps(HostelReq)
  <2>1. req[r].op \in HostelOps \/ req'[r] = req[r]
    BY <1>11 DEF HostelDies, Dies, Moves
  <2>2. req'[r] = Idle /\ req[r].op # "idle"
    BY <1>11 DEF HostelDies, Dies, Ends
  <2> QED BY <1>11, <2>1, <2>2, EndSteps DEF HostelDies, Dies, HostelRequests, Idle
<1> QED BY <1>1, <1>2, <1>3, <1>4, <1>5, <1>6, <1>7, <1>8, <1>9, <1>10, <1>11
        DEF HostelBeds, HostelDesk, StructureController, AllocationsController

-----------------------------------------------------------------------------
(* Hostel: types                                                            *)

LEMMA WithRoomsTyped ==
  ASSUME HostelTypeOK, NEW ms
  PROVE  /\ WithRooms(ms) \in [Allocations -> AllocationRow]
         /\ \A a \in Allocations : WithRooms(ms)[a] = allocation[a] \/ WithRooms(ms)[a].status = "deleted"
         /\ \A a \in Allocations : allocation[a].status \in {"active", "vacated"} /\ allocation[a].room \in ms
              => WithRooms(ms)[a].status = "deleted"
         /\ \A a \in Allocations : allocation[a].room \notin ms => WithRooms(ms)[a] = allocation[a]
BY DEF HostelTypeOK, WithRooms, AllocationRow

LEMMA StructureTyped ==
  ASSUME HostelTypeOK, HostelRequests, StructureController
  PROVE  HostelTypeOK'
<1> USE DEF HostelTypeOK
<1>1. ASSUME NEW h \in Hostels, CreateHostel(h) PROVE HostelTypeOK'
  BY <1>1 DEF CreateHostel, RowStatus
<1>2. ASSUME NEW m \in Rooms, CreateRoom(m) PROVE HostelTypeOK'
  <2>1. PICK dto \in RoomDto : room' = [room EXCEPT ![m] = [status |-> "kept",
                                 hostel |-> dto.hostel, capacity |-> dto.capacity]]
    BY <1>2 DEF CreateRoom
  <2>2. [status |-> "kept", hostel |-> dto.hostel, capacity |-> dto.capacity] \in RoomRow
    BY HostelAssumption DEF RoomDto, RoomRow, RowStatus
  <2>3. room' \in [Rooms -> RoomRow]
    BY <2>1, <2>2
  <2> QED BY <1>2, <2>3 DEF CreateRoom
<1>3. ASSUME NEW m \in Rooms, UpdateRoom(m) PROVE HostelTypeOK'
  <2>1. PICK dto \in RoomDto :
          room' = [room EXCEPT ![m].hostel = dto.hostel, ![m].capacity = dto.capacity]
    BY <1>3 DEF UpdateRoom
  <2>2. PICK x : x = [room[m] EXCEPT !.hostel = dto.hostel, !.capacity = dto.capacity]
    OBVIOUS
  <2>3. x \in RoomRow
    <3>1. room[m] \in RoomRow /\ dto.hostel \in Hostels /\ dto.capacity \in 0..MaxBeds
      BY HostelAssumption DEF RoomDto
    <3> QED BY <2>2, <3>1 DEF RoomRow
  <2>4. room' = [room EXCEPT ![m] = x]
    BY <2>1, <2>2
  <2>5. room' \in [Rooms -> RoomRow]
    BY <2>3, <2>4
  <2> QED BY <1>3, <2>5 DEF UpdateRoom
<1>4. ASSUME NEW r \in Requests, RemoveHostelDelete(r) PROVE HostelTypeOK'
  <2>1. hostel' \in [Hostels -> RowStatus]
    BY <1>4 DEF RemoveHostelDelete, RowStatus
  <2>2. room' \in [Rooms -> RoomRow]
    <3>1. \A m \in Rooms : [room[m] EXCEPT !.status = "deleted"] \in RoomRow
      BY DEF RoomRow, RowStatus
    <3> QED BY <1>4, <3>1 DEF RemoveHostelDelete
  <2>3. allocation' \in [Allocations -> AllocationRow]
    BY <1>4, WithRoomsTyped DEF RemoveHostelDelete
  <2>4. /\ complaint' \in [Complaints -> ComplaintRow]
        /\ \A c \in Complaints : complaint'[c].resolvedAt =>
             complaint'[c].status \in {"resolved", "deleted"}
    <3>1. \A c \in Complaints : [complaint[c] EXCEPT !.status = "deleted"] \in ComplaintRow
      BY DEF ComplaintRow
    <3>2. \A c \in Complaints : \/ complaint'[c] = complaint[c]
                                 \/ complaint'[c] = [complaint[c] EXCEPT !.status = "deleted"]
      BY <1>4 DEF RemoveHostelDelete
    <3>3. complaint' \in [Complaints -> ComplaintRow]
      BY <1>4, <3>1 DEF RemoveHostelDelete
    <3>4. \A c \in Complaints : [complaint[c] EXCEPT !.status = "deleted"].status = "deleted"
      BY DEF ComplaintRow
    <3>5. \A c \in Complaints : complaint'[c].resolvedAt =>
             complaint'[c].status \in {"resolved", "deleted"}
      <4> TAKE c \in Complaints
      <4> QED BY <3>2, <3>4
    <3> QED BY <3>3, <3>5
  <2> QED BY <1>4, <2>1, <2>2, <2>3, <2>4 DEF RemoveHostelDelete
<1>5. ASSUME NEW r \in Requests, RemoveRoomDelete(r) PROVE HostelTypeOK'
  <2>1. room' \in [Rooms -> RoomRow]
    <3>1. \A m \in Rooms : [room[m] EXCEPT !.status = "deleted"] \in RoomRow
      BY DEF RoomRow, RowStatus
    <3> QED BY <1>5, <3>1 DEF RemoveRoomDelete
  <2>2. allocation' \in [Allocations -> AllocationRow]
    BY <1>5, WithRoomsTyped DEF RemoveRoomDelete
  <2> QED BY <1>5, <2>1, <2>2 DEF RemoveRoomDelete
<1>6. ASSUME NEW r \in Requests, \/ \E h \in Hostels : RemoveHostelCount(r, h)
                                 \/ \E m \in Rooms : RemoveRoomCount(r, m)
      PROVE  HostelTypeOK'
  BY <1>6 DEF RemoveHostelCount, RemoveRoomCount, hostelTables
<1> QED BY <1>1, <1>2, <1>3, <1>4, <1>5, <1>6 DEF StructureController

LEMMA AllocationsTyped ==
  ASSUME HostelTypeOK, HostelRequests, AllocationsController
  PROVE  HostelTypeOK'
<1> USE DEF HostelTypeOK
<1>1. ASSUME NEW r \in Requests, AllocateCreate(r) PROVE HostelTypeOK'
  <2>1. req[r].dto \in AllocateDto
    BY <1>1, HostelReqOp DEF AllocateCreate, At, HostelRequests, HostelOps
  <2>2. PICK a \in Allocations :
          allocation' = [allocation EXCEPT ![a] = [status |-> "active",
            student |-> req[r].dto.student, room |-> req[r].dto.room, bed |-> req[r].dto.bed]]
    BY <1>1 DEF AllocateCreate, Unused
  <2>3. [status |-> "active", student |-> req[r].dto.student, room |-> req[r].dto.room,
         bed |-> req[r].dto.bed] \in AllocationRow
    BY <2>1, HostelAssumption DEF AllocateDto, AllocationRow
  <2>4. allocation' \in [Allocations -> AllocationRow]
    BY <2>2, <2>3
  <2> QED BY <1>1, <2>4 DEF AllocateCreate
<1>2. ASSUME NEW r \in Requests, ReassignUpdate(r) PROVE HostelTypeOK'
  <2>1. req[r].dto \in ReassignDto
    BY <1>2, HostelReqOp DEF ReassignUpdate, At, HostelRequests, HostelOps
  <2>2. PICK a, x : /\ a = req[r].row
                     /\ x = [allocation[a] EXCEPT !.room = req[r].dto.room, !.bed = req[r].dto.bed]
    OBVIOUS
  <2>3. ASSUME a \in Allocations PROVE x \in AllocationRow
    <3>1. allocation[a] \in AllocationRow /\ req[r].dto.room \in Rooms /\ req[r].dto.bed \in 0..MaxBeds
      BY <2>1, <2>3, HostelAssumption DEF ReassignDto
    <3> QED BY <2>2, <3>1 DEF AllocationRow
  <2>4. allocation' = [allocation EXCEPT ![a] = x]
    BY <1>2, <2>2 DEF ReassignUpdate
  <2>5. allocation' \in [Allocations -> AllocationRow]
    BY <2>3, <2>4
  <2> QED BY <1>2, <2>5 DEF ReassignUpdate
<1>3. ASSUME NEW r \in Requests, VacateUpdate(r) PROVE HostelTypeOK'
  <2>1. allocation' \in [Allocations -> AllocationRow]
    <3>1. \A a \in Allocations : [allocation[a] EXCEPT !.status = "vacated"] \in AllocationRow
      BY DEF AllocationRow
    <3> QED BY <1>3, <3>1 DEF VacateUpdate
  <2> QED BY <1>3, <2>1 DEF VacateUpdate
<1>4. ASSUME NEW r \in Requests,
             \/ AllocateRoom(r) \/ AllocateBed(r) \/ AllocateStudent(r) \/ ReassignRoom(r)
             \/ ReassignBed(r) \/ \E a \in Allocations : ReassignRead(r, a) \/ VacateRead(r, a)
      PROVE  HostelTypeOK'
  BY <1>4 DEF AllocateRoom, AllocateBed, AllocateStudent, ReassignRoom, ReassignBed,
              ReassignRead, VacateRead, hostelTables
<1> QED BY <1>1, <1>2, <1>3, <1>4 DEF AllocationsController

LEMMA FrontDeskTyped ==
  ASSUME HostelTypeOK, VisitorsController \/ ComplaintsController
  PROVE  HostelTypeOK'
<1> USE DEF HostelTypeOK
<1>1. CASE VisitorsController
  BY <1>1 DEF VisitorsController, CheckIn, CheckOut
<1>2. ASSUME NEW c \in Complaints, CreateComplaint(c) PROVE HostelTypeOK'
  <2>1. PICK dto \in ComplaintDto :
          complaint' = [complaint EXCEPT ![c].status = "open", ![c].hostel = dto.hostel,
                                         ![c].room = dto.room]
    BY <1>2 DEF CreateComplaint
  <2>2. complaint[c].status = "none" /\ ~complaint[c].resolvedAt
    BY <1>2 DEF CreateComplaint, ComplaintRow
  <2>3. PICK x : x = [complaint[c] EXCEPT !.status = "open", !.hostel = dto.hostel, !.room = dto.room]
    OBVIOUS
  <2>4. x \in ComplaintRow /\ ~x.resolvedAt
    <3>1. complaint[c] \in ComplaintRow /\ dto.hostel \in Hostels /\ dto.room \in Rooms \cup {None}
      BY DEF ComplaintDto
    <3> QED BY <2>2, <2>3, <3>1 DEF ComplaintRow, ComplaintStatuses
  <2>5. complaint' = [complaint EXCEPT ![c] = x]
    BY <2>1, <2>3
  <2>6. /\ complaint' \in [Complaints -> ComplaintRow]
        /\ \A d \in Complaints : complaint'[d].resolvedAt =>
             complaint'[d].status \in {"resolved", "deleted"}
    BY <2>4, <2>5
  <2> QED BY <1>2, <2>6 DEF CreateComplaint
<1>3. ASSUME NEW c \in Complaints, UpdateComplaintStatus(c) PROVE HostelTypeOK'
  <2>1. PICK s \in ComplaintStatuses :
          complaint' = [complaint EXCEPT ![c].status = s, ![c].resolvedAt = (s = "resolved")]
    BY <1>3 DEF UpdateComplaintStatus
  <2>2. PICK x : x = [complaint[c] EXCEPT !.status = s, !.resolvedAt = (s = "resolved")]
    OBVIOUS
  <2>3. x \in ComplaintRow /\ (x.resolvedAt => x.status = "resolved")
    <3>1. complaint[c] \in ComplaintRow
      OBVIOUS
    <3> QED BY <2>2, <3>1 DEF ComplaintRow, ComplaintStatuses
  <2>4. complaint' = [complaint EXCEPT ![c] = x]
    BY <2>1, <2>2
  <2>5. /\ complaint' \in [Complaints -> ComplaintRow]
        /\ \A d \in Complaints : complaint'[d].resolvedAt =>
             complaint'[d].status \in {"resolved", "deleted"}
    BY <2>3, <2>4
  <2> QED BY <1>3, <2>5 DEF UpdateComplaintStatus
<1> QED BY <1>1, <1>2, <1>3 DEF ComplaintsController

LEMMA HostelTyped ==
  ASSUME HostelTypeOK, HostelRequests, HostelBeds \/ HostelDesk
  PROVE  HostelTypeOK'
<1>1. ASSUME NEW r \in Requests, HostelDies(r) PROVE HostelTypeOK'
  BY <1>1 DEF HostelDies, hostelTables, HostelTypeOK
<1> QED BY <1>1, StructureTyped, AllocationsTyped, FrontDeskTyped DEF HostelBeds, HostelDesk

LEMMA HostelInitTyped == HostelInit => HostelTypeOK
BY HostelAssumption
   DEF HostelInit, HostelTypeOK, RowStatus, RoomRow, AllocationRow, ComplaintRow

-----------------------------------------------------------------------------
(* Hostel: who has or is about to have a bed                                *)

\* Allocations that are in bed b of room m, or will be moved there.
Held(m, b) ==
  InBed(m, b) \cup {a \in Allocations : \E r \in Requests :
    At(r, "ReassignUpdate") /\ req[r].row = a /\ req[r].dto.room = m /\ req[r].dto.bed = b}

\* Requests that found bed b of room m free for a new allocation.
Coming(m, b) ==
  {r \in Requests : /\ req[r].op \in {"AllocateStudent", "AllocateCreate"}
                    /\ req[r].dto.room = m /\ req[r].dto.bed = b}

\* Requests that found student s without a bed.
Arriving(s) == {r \in Requests : At(r, "AllocateCreate") /\ req[r].dto.student = s}

RoomsThere ==
  \A a \in Active : allocation[a].room \in Rooms /\ room[allocation[a].room].status = "kept"

\* One request at a time, what was found empty is still so when it is deleted.
FoundEmpty ==
  ~overlap => \A r \in Requests :
    /\ At(r, "RemoveRoom") => InRoom(req[r].row) = {}
    /\ At(r, "RemoveHostel") =>
         \A m \in Rooms : room[m].status = "kept" => room[m].hostel # req[r].row

\* The inductive invariant: a bed is promised to no more than found it free at once.
HostelInv ==
  /\ RoomsThere /\ FoundEmpty
  /\ \A m \in Rooms, b \in 1..MaxBeds :
       Cardinality(Held(m, b)) + Cardinality(Coming(m, b)) <= AtOnceAtMost
  /\ \A s \in Residents : Cardinality(BedsOf(s)) + Cardinality(Arriving(s)) <= AtOnceAtMost

LEMMA HostelFinite ==
  /\ \A m, b : /\ IsFiniteSet(Held(m, b)) /\ Cardinality(Held(m, b)) \in Nat
               /\ IsFiniteSet(Coming(m, b)) /\ Cardinality(Coming(m, b)) \in Nat
               /\ IsFiniteSet(InBed(m, b)) /\ Cardinality(InBed(m, b)) \in Nat
               /\ Cardinality(InBed(m, b)) <= Cardinality(Held(m, b))
  /\ \A s : /\ IsFiniteSet(BedsOf(s)) /\ Cardinality(BedsOf(s)) \in Nat
            /\ IsFiniteSet(Arriving(s)) /\ Cardinality(Arriving(s)) \in Nat
  /\ \A m : IsFiniteSet(InRoom(m))
  /\ AtOnceAtMost \in Nat
<1>1. /\ \A m, b : /\ Held(m, b) \in SUBSET Allocations /\ Coming(m, b) \in SUBSET Requests
                   /\ InBed(m, b) \in SUBSET Held(m, b)
      /\ \A s : BedsOf(s) \in SUBSET Allocations /\ Arriving(s) \in SUBSET Requests
      /\ \A m : InRoom(m) \in SUBSET Allocations
  BY DEF Held, Coming, InBed, BedsOf, Arriving, InRoom, Active
<1>2. AtOnceAtMost \in Nat
  BY AccountsAssumption, FS_CardinalityType DEF AtOnceAtMost
<1>3. \A m, b : IsFiniteSet(Held(m, b)) /\ IsFiniteSet(Coming(m, b))
  BY <1>1, HostelAssumption, AccountsAssumption, FS_Subset
<1>4. \A m, b : IsFiniteSet(InBed(m, b)) /\ Cardinality(InBed(m, b)) <= Cardinality(Held(m, b))
  BY <1>1, <1>3, FS_Subset
<1>5. \A s : IsFiniteSet(BedsOf(s)) /\ IsFiniteSet(Arriving(s))
  BY <1>1, HostelAssumption, AccountsAssumption, FS_Subset
<1>6. \A m : IsFiniteSet(InRoom(m))
  BY <1>1, HostelAssumption, FS_Subset
<1> QED BY <1>2, <1>3, <1>4, <1>5, <1>6, FS_CardinalityType

LEMMA HostelShares == HostelInv => BedsShared
<1> SUFFICES ASSUME HostelInv PROVE BedsShared
  OBVIOUS
<1>1. ASSUME NEW m \in Rooms, NEW b \in 1..MaxBeds PROVE Cardinality(InBed(m, b)) <= AtOnceAtMost
  <2>1. Cardinality(Held(m, b)) + Cardinality(Coming(m, b)) <= AtOnceAtMost
    BY DEF HostelInv
  <2> QED BY <2>1, HostelFinite
<1>2. ASSUME NEW s \in Residents PROVE Cardinality(BedsOf(s)) <= AtOnceAtMost
  <2>1. Cardinality(BedsOf(s)) + Cardinality(Arriving(s)) <= AtOnceAtMost
    BY DEF HostelInv
  <2> QED BY <2>1, HostelFinite
<1> QED BY <1>1, <1>2 DEF BedsShared

\* Those about to move to a bed and those about to be put in it are different requests,
\* no more than may be in flight.
LEMMA PromisedAtMost ==
  ASSUME NEW M \in SUBSET Requests, NEW C \in SUBSET Requests, M \cap C = {},
         ~overlap => \A r, q \in M \cup C : r = q,
         NEW f, NEW H, H = {f[r] : r \in M}
  PROVE  Cardinality(H) + Cardinality(C) <= AtOnceAtMost
<1>1. IsFiniteSet(M) /\ IsFiniteSet(C)
  BY AccountsAssumption, FS_Subset
<1>2. IsFiniteSet(H) /\ Cardinality(H) <= Cardinality(M)
  <2>1. PICK g : g = [r \in M |-> f[r]]
    OBVIOUS
  <2>2. g \in Surjection(M, H)
    BY <2>1 DEF Surjection
  <2> QED BY <1>1, <2>2, FS_Surjection
<1>3. Cardinality(M \cup C) = Cardinality(M) + Cardinality(C)
  <2>1. Cardinality(M \cup C) = Cardinality(M) + Cardinality(C) - Cardinality(M \cap C)
    BY <1>1, FS_Union
  <2>2. Cardinality(M \cap C) = 0
    BY FS_EmptySet
  <2>3. Cardinality(M) \in Nat /\ Cardinality(C) \in Nat
    BY <1>1, FS_CardinalityType
  <2> QED BY <2>1, <2>2, <2>3
<1>4. Cardinality(M \cup C) <= AtOnceAtMost /\ AtOnceAtMost \in Nat
  <2>1. M \cup C \in SUBSET Requests
    OBVIOUS
  <2> QED BY <2>1, InFlight
<1>5. Cardinality(M) \in Nat /\ Cardinality(C) \in Nat /\ Cardinality(H) \in Nat
  BY <1>1, <1>2, FS_CardinalityType
<1> QED BY <1>2, <1>3, <1>4, <1>5

\* Nobody gets a bed or finds one free: the counts only fall.
LEMMA FewerPromised ==
  ASSUME HostelInv, UNCHANGED overlap,
         \A a \in Allocations : allocation'[a] = allocation[a] \/ allocation'[a].status # "active",
         \A r \in Requests :
           \/ req'[r] = req[r]
           \/ req'[r].op \notin {"AllocateStudent", "AllocateCreate", "ReassignUpdate"}
  PROVE  /\ \A m \in Rooms, b \in 1..MaxBeds :
              Cardinality(Held(m, b)') + Cardinality(Coming(m, b)') <= AtOnceAtMost'
         /\ \A s \in Residents : Cardinality(BedsOf(s)') + Cardinality(Arriving(s)') <= AtOnceAtMost'
<1>1. AtOnceAtMost' = AtOnceAtMost
  BY DEF AtOnceAtMost
<1>2. ASSUME NEW m \in Rooms, NEW b \in 1..MaxBeds
      PROVE  Cardinality(Held(m, b)') + Cardinality(Coming(m, b)') <= AtOnceAtMost
  <2>1. Held(m, b)' \subseteq Held(m, b)
    BY DEF Held, InBed, InRoom, Active, At
  <2>2. Coming(m, b)' \subseteq Coming(m, b)
    BY DEF Coming
  <2>3. /\ Cardinality(Held(m, b)') <= Cardinality(Held(m, b)) /\ Cardinality(Held(m, b)') \in Nat
        /\ Cardinality(Coming(m, b)') <= Cardinality(Coming(m, b)) /\ Cardinality(Coming(m, b)') \in Nat
    BY <2>1, <2>2, HostelFinite, FS_Subset, FS_CardinalityType
  <2>4. Cardinality(Held(m, b)) + Cardinality(Coming(m, b)) <= AtOnceAtMost
    BY DEF HostelInv
  <2> QED BY <2>3, <2>4, HostelFinite
<1>3. ASSUME NEW s \in Residents
      PROVE  Cardinality(BedsOf(s)') + Cardinality(Arriving(s)') <= AtOnceAtMost
  <2>1. BedsOf(s)' \subseteq BedsOf(s) /\ Arriving(s)' \subseteq Arriving(s)
    BY DEF BedsOf, Active, Arriving, At
  <2>2. /\ Cardinality(BedsOf(s)') <= Cardinality(BedsOf(s)) /\ Cardinality(BedsOf(s)') \in Nat
        /\ Cardinality(Arriving(s)') <= Cardinality(Arriving(s)) /\ Cardinality(Arriving(s)') \in Nat
    BY <2>1, HostelFinite, FS_Subset, FS_CardinalityType
  <2>3. Cardinality(BedsOf(s)) + Cardinality(Arriving(s)) <= AtOnceAtMost
    BY DEF HostelInv
  <2> QED BY <2>2, <2>3, HostelFinite
<1> QED BY <1>1, <1>2, <1>3

\* Steps of other desks.
LEMMA HostelElsewhere ==
  ASSUME HostelInv, UNCHANGED <<hostelTables, overlap>>,
         \A r \in Requests : req'[r] = req[r] \/ req'[r].op \notin HostelOps
  PROVE  HostelInv'
<1>1. /\ \A a \in Allocations : allocation'[a] = allocation[a]
      /\ \A r \in Requests :
           \/ req'[r] = req[r]
           \/ req'[r].op \notin {"AllocateStudent", "AllocateCreate", "ReassignUpdate"}
  BY DEF hostelTables, HostelOps
<1>2. RoomsThere'
  BY DEF HostelInv, RoomsThere, Active, hostelTables
<1>3. FoundEmpty'
  BY DEF HostelInv, FoundEmpty, InRoom, Active, hostelTables, HostelOps, At
<1> QED BY <1>1, <1>2, <1>3, FewerPromised DEF HostelInv

LEMMA HostelInitOK == HostelInit /\ HandlersInit => HostelInv /\ InFlightOK
<1> SUFFICES ASSUME HostelInit, HandlersInit PROVE HostelInv /\ InFlightOK
  OBVIOUS
<1>1. \A r \in Requests : req[r].op = "idle"
  BY DEF HandlersInit, Idle
<1>2. InFlightOK
  BY <1>1 DEF InFlightOK, OneAtATime, HandlersInit
<1>3. Active = {}
  BY DEF Active, HostelInit
<1>4. /\ \A m, b : Held(m, b) = {} /\ Coming(m, b) = {}
      /\ \A s : BedsOf(s) = {} /\ Arriving(s) = {}
  BY <1>1, <1>3 DEF Held, InBed, InRoom, Coming, BedsOf, Arriving, At
<1>5. RoomsThere /\ FoundEmpty
  BY <1>1, <1>3 DEF RoomsThere, FoundEmpty, At
<1> QED BY <1>2, <1>4, <1>5, HostelFinite, FS_EmptySet DEF HostelInv

LEMMA EmptyAtOnce == ASSUME AtOnce PROVE FoundEmpty'
BY DEF AtOnce, MayStart, FoundEmpty, At

LEMMA EmptyElse ==
  ASSUME InFlightOK, NEW r \in Requests, NEW q, req' = [req EXCEPT ![r] = q], UNCHANGED overlap,
         q.op \notin {"RemoveRoom", "RemoveHostel"}, req[r].op # "idle" \/ MayStart
  PROVE  FoundEmpty'
<1>1. req'[r] = q /\ \A x \in Requests \ {r} : req'[x] = req[x]
  BY DEF InFlightOK
<1>2. ~overlap => \A x \in Requests \ {r} : req[x].op = "idle"
  BY DEF InFlightOK, OneAtATime, MayStart
<1> QED BY <1>1, <1>2 DEF FoundEmpty, At

LEMMA StructureKeeps ==
  ASSUME HostelTypeOK, HostelRequests, InFlightOK, HostelInv, StructureController
  PROVE  /\ HostelInv'
         /\ ~overlap => \A a \in Active : allocation'[a].status \in {"active", "vacated"}
<1> DEFINE Goal ==
      /\ HostelInv'
      /\ ~overlap => \A a \in Active : allocation'[a].status \in {"active", "vacated"}
<1> USE DEF Active
\* The counts fall where only rooms change, or allocations go with their rooms.
<1>1. ASSUME UNCHANGED overlap, RoomsThere', FoundEmpty',
             \A a \in Allocations : allocation'[a] = allocation[a] \/ allocation'[a].status = "deleted",
             \A r \in Requests : req'[r] = req[r] \/ req'[r].op \in {"idle", "RemoveRoom", "RemoveHostel"}
      PROVE  HostelInv'
  BY <1>1, FewerPromised DEF HostelInv
<1>2. ASSUME AtOnce, UNCHANGED allocation, RoomsThere' PROVE Goal
  <2>1. /\ UNCHANGED <<req, overlap>> /\ FoundEmpty'
        /\ \A a \in Allocations : allocation'[a] = allocation[a]
    BY <1>2, EmptyAtOnce DEF AtOnce
  <2> QED BY <1>1, <1>2, <2>1
<1>3. ASSUME NEW h \in Hostels, CreateHostel(h) PROVE Goal
  <2>1. RoomsThere'
    BY <1>3 DEF CreateHostel, HostelInv, RoomsThere
  <2> QED BY <1>2, <1>3, <2>1 DEF CreateHostel
<1>4. ASSUME NEW m \in Rooms, CreateRoom(m) \/ UpdateRoom(m) PROVE Goal
  <2>1. RoomsThere'
    <3>1. \A n \in Rooms : room[n].status = "kept" => room'[n].status = "kept"
      <4>1. CASE CreateRoom(m)
        <5>1. room[m].status = "none" /\ \A n \in Rooms \ {m} : room'[n] = room[n]
          BY <4>1 DEF CreateRoom, HostelTypeOK
        <5> QED BY <5>1
      <4>2. CASE UpdateRoom(m)
        <5>1. PICK dto \in RoomDto :
                room' = [room EXCEPT ![m].hostel = dto.hostel, ![m].capacity = dto.capacity]
          BY <4>2 DEF UpdateRoom
        <5>2. \A n \in Rooms : room'[n].status = room[n].status
          BY <5>1 DEF HostelTypeOK, RoomRow
        <5> QED BY <5>2
      <4> QED BY <1>4, <4>1, <4>2
    <3>2. UNCHANGED allocation
      BY <1>4 DEF CreateRoom, UpdateRoom
    <3> QED BY <3>1, <3>2 DEF HostelInv, RoomsThere
  <2> QED BY <1>2, <1>4, <2>1 DEF CreateRoom, UpdateRoom
<1>5. ASSUME NEW r \in Requests, NEW q, req' = [req EXCEPT ![r] = q], UNCHANGED overlap,
             q.op \in {"RemoveRoom", "RemoveHostel"}, MayStart, UNCHANGED hostelTables,
             ~overlap /\ q.op = "RemoveRoom" => InRoom(q.row) = {},
             ~overlap /\ q.op = "RemoveHostel" =>
               \A m \in Rooms : room[m].status = "kept" => room[m].hostel # q.row
      PROVE  Goal
  <2>1. req'[r] = q /\ \A x \in Requests \ {r} : req'[x] = req[x]
    BY <1>5 DEF InFlightOK
  <2>2. ~overlap => \A x \in Requests \ {r} : req[x].op = "idle"
    BY <1>5 DEF MayStart
  <2>3. FoundEmpty'
    BY <1>5, <2>1, <2>2 DEF FoundEmpty, InRoom, At, hostelTables
  <2>4. RoomsThere'
    BY <1>5 DEF HostelInv, RoomsThere, hostelTables
  <2>5. HostelInv'
    BY <1>1, <1>5, <2>1, <2>3, <2>4 DEF hostelTables
  <2> QED BY <1>5, <2>5 DEF hostelTables
<1>6. ASSUME NEW r \in Requests, NEW h \in Hostels, RemoveHostelCount(r, h) PROVE Goal
  <2>1. PICK q : q = [op |-> "RemoveHostel", row |-> h]
    OBVIOUS
  <2>2. /\ q.op = "RemoveHostel" /\ q.row = h
        /\ MayStart /\ UNCHANGED overlap /\ req' = [req EXCEPT ![r] = q]
        /\ \A m \in Rooms : room[m].status = "kept" => room[m].hostel # h
    BY <1>6, <2>1 DEF RemoveHostelCount, Starts
  <2>3. UNCHANGED hostelTables
    BY <1>6 DEF RemoveHostelCount
  <2> QED BY <1>5, <2>2, <2>3
<1>7. ASSUME NEW r \in Requests, NEW m \in Rooms, RemoveRoomCount(r, m) PROVE Goal
  <2>1. PICK q : q = [op |-> "RemoveRoom", row |-> m]
    OBVIOUS
  <2>2. /\ q.op = "RemoveRoom" /\ q.row = m
        /\ MayStart /\ UNCHANGED overlap /\ req' = [req EXCEPT ![r] = q]
    BY <1>7, <2>1 DEF RemoveRoomCount, Starts
  <2>3. InRoom(m) = {}
    BY <1>7, HostelFinite, FS_EmptySet DEF RemoveRoomCount, OccupiedBeds
  <2>4. UNCHANGED hostelTables
    BY <1>7 DEF RemoveRoomCount
  <2> QED BY <1>5, <2>2, <2>3, <2>4
<1>8. ASSUME NEW r \in Requests, NEW ms, allocation' = WithRooms(ms), Ends(r), req[r].op # "idle",
             RoomsThere', ~overlap => \A a \in Active : allocation[a].room \notin ms
      PROVE  Goal
  <2>1. \A a \in Allocations : allocation'[a] = allocation[a] \/ allocation'[a].status = "deleted"
    BY <1>8, WithRoomsTyped
  <2>2. Idle.op = "idle"
    BY DEF Idle
  <2>3. req' = [req EXCEPT ![r] = Idle] /\ UNCHANGED overlap
    BY <1>8 DEF Ends
  <2>4. FoundEmpty'
    BY <1>8, <2>2, <2>3, EmptyElse
  <2>5. \A x \in Requests : req'[x] = req[x] \/ req'[x].op = "idle"
    BY <2>2, <2>3 DEF InFlightOK
  <2>6. HostelInv'
    BY <1>1, <1>8, <2>1, <2>3, <2>4, <2>5
  <2>7. ~overlap => \A a \in Active : allocation'[a] = allocation[a]
    BY <1>8, WithRoomsTyped
  <2> QED BY <2>6, <2>7
<1>9. ASSUME NEW r \in Requests, RemoveHostelDelete(r) PROVE Goal
  <2>1. PICK h \in Hostels : h = req[r].row
    BY <1>9, HostelReqOp DEF RemoveHostelDelete, At, HostelRequests, HostelOps
  <2>2. PICK ms : ms = {m \in Rooms : room[m].hostel = h}
    OBVIOUS
  <2>3. allocation' = WithRooms(ms) /\ Ends(r) /\ At(r, "RemoveHostel")
    BY <1>9, <2>1, <2>2 DEF RemoveHostelDelete
  <2>4. \A m \in Rooms \ ms : room'[m] = room[m]
    BY <1>9, <2>1, <2>2 DEF RemoveHostelDelete
  <2>5. RoomsThere'
    <3>1. ASSUME NEW a \in Active' PROVE allocation[a] = allocation'[a] /\ allocation[a].room \notin ms
      BY <2>3, <3>1, WithRoomsTyped
    <3> QED BY <2>4, <3>1 DEF HostelInv, RoomsThere
  <2>6. ~overlap => \A a \in Active : allocation[a].room \notin ms
    BY <2>1, <2>2, <2>3 DEF HostelInv, FoundEmpty, RoomsThere
  <2> QED BY <1>8, <2>3, <2>5, <2>6 DEF At
<1>10. ASSUME NEW r \in Requests, RemoveRoomDelete(r) PROVE Goal
  <2>1. PICK m \in Rooms : m = req[r].row
    BY <1>10, HostelReqOp DEF RemoveRoomDelete, At, HostelRequests, HostelOps
  <2>2. allocation' = WithRooms({m}) /\ Ends(r) /\ At(r, "RemoveRoom")
    BY <1>10, <2>1 DEF RemoveRoomDelete
  <2>3. \A n \in Rooms \ {m} : room'[n] = room[n]
    BY <1>10, <2>1 DEF RemoveRoomDelete, HostelTypeOK
  <2>4. RoomsThere'
    <3>1. ASSUME NEW a \in Active' PROVE allocation[a] = allocation'[a] /\ allocation[a].room \notin {m}
      BY <2>2, <3>1, WithRoomsTyped
    <3> QED BY <2>3, <3>1 DEF HostelInv, RoomsThere
  <2>5. ~overlap => \A a \in Active : allocation[a].room \notin {m}
    BY <2>1, <2>2 DEF HostelInv, FoundEmpty, InRoom
  <2> QED BY <1>8, <2>2, <2>4, <2>5 DEF At
<1> QED BY <1>3, <1>4, <1>6, <1>7, <1>9, <1>10 DEF StructureController

\* A later statement of request r, which leaves the tables alone.
LEMMA AllocateBedKeeps ==
  ASSUME HostelTypeOK, HostelRequests, InFlightOK, HostelInv, NEW r \in Requests,
         AllocateBed(r) \/ AllocateStudent(r) \/ ReassignBed(r)
  PROVE  HostelInv'
<1>1. PICK old, q : /\ old = req[r] /\ old \in HostelReq
                    /\ req' = [req EXCEPT ![r] = q]
                    /\ \/ /\ AllocateBed(r) /\ old.op = "AllocateBed"
                          /\ q = [old EXCEPT !.op = "AllocateStudent"]
                       \/ /\ AllocateStudent(r) /\ old.op = "AllocateStudent"
                          /\ q = [old EXCEPT !.op = "AllocateCreate"]
                       \/ /\ ReassignBed(r) /\ old.op = "ReassignBed"
                          /\ q = [old EXCEPT !.op = "ReassignUpdate"]
  <2>1. req[r] \in HostelReq
    BY DEF AllocateBed, AllocateStudent, ReassignBed, At, HostelRequests, HostelOps
  <2> QED BY <2>1 DEF AllocateBed, AllocateStudent, ReassignBed, Goes, At
<1>2. /\ q.dto = old.dto /\ q.op \in {"AllocateStudent", "AllocateCreate", "ReassignUpdate"}
      /\ old.op = "AllocateBed" => q.op = "AllocateStudent"
      /\ old.op = "AllocateStudent" => q.op = "AllocateCreate"
      /\ old.op = "ReassignBed" => q.op = "ReassignUpdate" /\ q.row = old.row
  <2>1. CASE old.op \in {"AllocateBed", "AllocateStudent"}
    <3>1. old = [op |-> old.op, dto |-> old.dto]
      BY <1>1, <2>1, HostelReqOp
    <3> QED BY <1>1, <2>1, <3>1
  <2>2. CASE old.op = "ReassignBed"
    <3>1. old = [op |-> old.op, row |-> old.row, dto |-> old.dto]
      BY <1>1, <2>2, HostelReqOp
    <3> QED BY <1>1, <2>2, <3>1
  <2> QED BY <1>1, <2>1, <2>2
<1>3. UNCHANGED <<hostelTables, overlap>>
  BY DEF AllocateBed, AllocateStudent, ReassignBed, Goes
<1>4. DOMAIN req' = Requests /\ req'[r] = q /\ \A x \in Requests \ {r} : req'[x] = req[x]
  BY <1>1 DEF InFlightOK
<1>5. old.op # "idle" /\ (~overlap => \A x \in Requests \ {r} : req[x].op = "idle")
  BY <1>1, HostelReqOp DEF InFlightOK, OneAtATime
<1>6. RoomsThere' /\ FoundEmpty'
  <2>1. RoomsThere'
    BY <1>3 DEF HostelInv, RoomsThere, Active, hostelTables
  <2>2. FoundEmpty'
    BY <1>1, <1>2, <1>3, <1>5, EmptyElse
  <2> QED BY <2>1, <2>2
<1>7. Active' = Active /\ \A m, b : InBed(m, b)' = InBed(m, b)
  BY <1>3 DEF Active, InRoom, InBed, hostelTables
<1>8. AtOnceAtMost' = AtOnceAtMost
  BY <1>3 DEF AtOnceAtMost
<1>9. ASSUME NEW m \in Rooms, NEW b \in 1..MaxBeds
      PROVE  Cardinality(Held(m, b)') + Cardinality(Coming(m, b)') <= AtOnceAtMost
  <2>1. CASE Held(m, b)' \subseteq Held(m, b) /\ Coming(m, b)' \subseteq Coming(m, b)
    <3>1. /\ Cardinality(Held(m, b)') <= Cardinality(Held(m, b))
          /\ Cardinality(Held(m, b)') \in Nat
          /\ Cardinality(Coming(m, b)') <= Cardinality(Coming(m, b))
          /\ Cardinality(Coming(m, b)') \in Nat
      BY <2>1, HostelFinite, FS_Subset, FS_CardinalityType
    <3>2. Cardinality(Held(m, b)) + Cardinality(Coming(m, b)) <= AtOnceAtMost
      BY DEF HostelInv
    <3> QED BY <3>1, <3>2, HostelFinite
  \* A request that found the bed free, but for the allocation it is about to move there.
  <2>2. CASE \/ old.op = "AllocateBed" /\ InBed(m, b) = {}
             \/ old.op = "ReassignBed" /\ InBed(m, b) \subseteq {old.row}
                /\ q.dto.room = m /\ q.dto.bed = b
    <3>1. PICK M : M = {x \in Requests : /\ req'[x].op = "ReassignUpdate"
                                         /\ req'[x].dto.room = m /\ req'[x].dto.bed = b}
      OBVIOUS
    <3>2. PICK C : C = Coming(m, b)'
      OBVIOUS
    <3>3. M \in SUBSET Requests /\ C \in SUBSET Requests /\ M \cap C = {}
      BY <3>1, <3>2 DEF Coming
    <3>4. ~overlap => \A x, y \in M \cup C : x = y
      BY <1>4, <1>5, <3>1, <3>2 DEF Coming
    <3>5. PICK f : f = [x \in M |-> req'[x].row]
      OBVIOUS
    <3>6. PICK H : H = {f[x] : x \in M}
      OBVIOUS
    <3>7. Held(m, b)' \subseteq H
      <4>1. ASSUME NEW a \in Allocations, NEW x \in Requests, req'[x].op = "ReassignUpdate",
                   req'[x].row = a, req'[x].dto.room = m, req'[x].dto.bed = b
            PROVE  a \in H
        BY <3>1, <3>5, <3>6, <4>1
      <4>2. ASSUME NEW a \in InBed(m, b) PROVE a \in H
        BY <1>2, <1>4, <2>2, <3>1, <3>5, <3>6, <4>2
      <4> QED BY <1>7, <4>1, <4>2 DEF Held, At
    <3>8. Cardinality(H) + Cardinality(C) <= AtOnceAtMost
      BY <3>3, <3>4, <3>6, PromisedAtMost
    <3>9. IsFiniteSet(H) /\ IsFiniteSet(C)
      <4>1. IsFiniteSet(M) /\ IsFiniteSet(C)
        BY <3>3, AccountsAssumption, FS_Subset
      <4>2. f \in Surjection(M, H)
        BY <3>5, <3>6 DEF Surjection
      <4> QED BY <4>1, <4>2, FS_Surjection
    <3>10. /\ Cardinality(Held(m, b)') <= Cardinality(H) /\ Cardinality(Held(m, b)') \in Nat
           /\ Cardinality(H) \in Nat /\ Cardinality(C) \in Nat
      BY <3>7, <3>9, FS_Subset, FS_CardinalityType
    <3> QED BY <3>2, <3>8, <3>10, HostelFinite
  <2>3. CASE AllocateStudent(r)
    <3>1. old.op = "AllocateStudent"
      BY <1>1, <2>3 DEF AllocateStudent, At
    <3>2. Held(m, b)' \subseteq Held(m, b)
      BY <1>2, <1>4, <1>7, <3>1 DEF Held, At
    <3>3. Coming(m, b)' \subseteq Coming(m, b)
      BY <1>1, <1>2, <1>4, <3>1 DEF Coming
    <3> QED BY <2>1, <3>2, <3>3
  <2>4. CASE AllocateBed(r)
    <3>1. old.op = "AllocateBed"
      BY <1>1, <2>4 DEF AllocateBed, At
    <3>2. CASE old.dto.room = m /\ old.dto.bed = b
      <4>1. InBed(m, b) \subseteq {None}
        BY <1>1, <2>4, <3>2 DEF AllocateBed, BedFree
      <4>2. None \notin Allocations
        BY HostelAssumption
      <4>3. InBed(m, b) = {}
        BY <4>1, <4>2 DEF InBed, InRoom, Active
      <4> QED BY <2>2, <3>1, <4>3
    <3>3. CASE ~(old.dto.room = m /\ old.dto.bed = b)
      <4>1. Held(m, b)' \subseteq Held(m, b)
        BY <1>2, <1>4, <1>7, <3>1 DEF Held, At
      <4>2. Coming(m, b)' \subseteq Coming(m, b)
        BY <1>2, <1>4, <3>3 DEF Coming
      <4> QED BY <2>1, <4>1, <4>2
    <3> QED BY <3>2, <3>3
  <2>5. CASE ReassignBed(r)
    <3>1. old.op = "ReassignBed"
      BY <1>1, <2>5 DEF ReassignBed, At
    <3>2. CASE old.dto.room = m /\ old.dto.bed = b
      <4>1. InBed(m, b) \subseteq {old.row}
        BY <1>1, <2>5, <3>2 DEF ReassignBed, BedFree
      <4> QED BY <1>2, <2>2, <3>1, <3>2, <4>1
    <3>3. CASE ~(old.dto.room = m /\ old.dto.bed = b)
      <4>1. Held(m, b)' \subseteq Held(m, b)
        BY <1>2, <1>4, <1>7, <3>3 DEF Held, At
      <4>2. Coming(m, b)' \subseteq Coming(m, b)
        BY <1>2, <1>4, <3>1 DEF Coming
      <4> QED BY <2>1, <4>1, <4>2
    <3> QED BY <3>2, <3>3
  <2> QED BY <2>3, <2>4, <2>5
<1>10. ASSUME NEW s \in Residents
       PROVE  Cardinality(BedsOf(s)') + Cardinality(Arriving(s)') <= AtOnceAtMost
  <2>1. BedsOf(s)' = BedsOf(s)
    BY <1>3, <1>7 DEF BedsOf, hostelTables
  <2>2. CASE AllocateStudent(r) /\ old.dto.student = s
    <3>1. BedsOf(s) = {}
      BY <1>1, <2>2 DEF AllocateStudent
    <3>2. PICK C : C = Arriving(s)'
      OBVIOUS
    <3>3. C \in SUBSET Requests
      BY <3>2 DEF Arriving
    <3>4. ~overlap => \A x, y \in C : x = y
      BY <1>4, <1>5, <3>2 DEF Arriving, At
    <3>5. Cardinality(C) \in Nat /\ Cardinality(C) <= AtOnceAtMost
      BY <3>3, <3>4, InFlight
    <3>6. Cardinality(BedsOf(s)') = 0
      BY <2>1, <3>1, FS_EmptySet
    <3> QED BY <3>2, <3>5, <3>6
  <2>3. CASE ~(AllocateStudent(r) /\ old.dto.student = s)
    <3>1. q.op = "AllocateCreate" => q.dto.student # s
      BY <1>1, <1>2, <2>3
    <3>2. Arriving(s)' \subseteq Arriving(s)
      BY <1>4, <3>1 DEF Arriving, At
    <3>3. Cardinality(Arriving(s)') <= Cardinality(Arriving(s)) /\ Cardinality(Arriving(s)') \in Nat
      BY <3>2, HostelFinite, FS_Subset, FS_CardinalityType
    <3>4. Cardinality(BedsOf(s)) + Cardinality(Arriving(s)) <= AtOnceAtMost
      BY DEF HostelInv
    <3> QED BY <2>1, <3>3, <3>4, HostelFinite
  <2> QED BY <2>2, <2>3
<1> QED BY <1>6, <1>8, <1>9, <1>10 DEF HostelInv

LEMMA AllocateCreateKeeps ==
  ASSUME HostelTypeOK, HostelRequests, InFlightOK, HostelInv, NEW r \in Requests, AllocateCreate(r)
  PROVE  HostelInv' /\ \A a \in Active : allocation'[a].status = "active"
<1>1. PICK dto \in AllocateDto : dto = req[r].dto
  BY HostelReqOp DEF AllocateCreate, At, HostelRequests, HostelOps
<1>2. PICK a \in Unused :
        allocation' = [allocation EXCEPT ![a] = [status |-> "active", student |-> dto.student,
                                                 room |-> dto.room, bed |-> dto.bed]]
  <2>1. (CHOOSE a \in Unused : TRUE) \in Unused
    BY DEF AllocateCreate
  <2> QED BY <1>1, <2>1 DEF AllocateCreate
<1>12. PICK x : x = [status |-> "active", student |-> dto.student, room |-> dto.room, bed |-> dto.bed]
  OBVIOUS
<1>3. /\ x.status = "active" /\ x.student = dto.student /\ x.room = dto.room /\ x.bed = dto.bed
      /\ a \in Allocations /\ allocation[a].status = "none"
      /\ allocation'[a] = x /\ \A k \in Allocations \ {a} : allocation'[k] = allocation[k]
  BY <1>2, <1>12 DEF Unused, HostelTypeOK
<1>4. Active' = Active \cup {a} /\ a \notin Active
  BY <1>3 DEF Active
<1>5. /\ req' = [req EXCEPT ![r] = Idle] /\ Idle.op = "idle" /\ req[r].op = "AllocateCreate"
      /\ UNCHANGED <<overlap, room>> /\ room[dto.room].status = "kept"
  BY <1>1 DEF AllocateCreate, Ends, At, Idle
<1>6. req'[r] = Idle /\ \A k \in Requests \ {r} : req'[k] = req[k]
  BY <1>5 DEF InFlightOK
<1>7. AtOnceAtMost' = AtOnceAtMost
  BY <1>5 DEF AtOnceAtMost
<1>8. RoomsThere' /\ FoundEmpty'
  <2>1. RoomsThere'
    <3>1. dto.room \in Rooms
      BY DEF AllocateDto
    <3>2. ASSUME NEW k \in Active' PROVE allocation'[k].room \in Rooms /\ room[allocation'[k].room].status = "kept"
      <4>1. CASE k = a
        BY <1>3, <1>5, <3>1, <4>1
      <4>2. CASE k # a
        <5>1. k \in Active /\ allocation'[k] = allocation[k]
          BY <1>3, <1>4, <3>2, <4>2 DEF Active
        <5> QED BY <5>1 DEF HostelInv, RoomsThere
      <4> QED BY <4>1, <4>2
    <3> QED BY <1>5, <3>2 DEF RoomsThere
  <2>2. FoundEmpty'
    BY <1>5, EmptyElse
  <2> QED BY <2>1, <2>2
<1>13. ASSUME NEW m \in Rooms, NEW b \in 1..MaxBeds
       PROVE  \A k \in Held(m, b)' : k \in Held(m, b) \/ (k = a /\ dto.room = m /\ dto.bed = b)
  <2>1. ASSUME NEW k \in InBed(m, b)' PROVE k \in InBed(m, b) \/ (k = a /\ dto.room = m /\ dto.bed = b)
    <3>1. CASE k = a
      BY <1>3, <2>1, <3>1 DEF InBed, InRoom
    <3>2. CASE k # a
      <4>1. k \in Allocations /\ allocation'[k] = allocation[k]
        BY <1>3, <2>1, <3>2 DEF InBed, InRoom, Active
      <4> QED BY <2>1, <4>1 DEF InBed, InRoom, Active
    <3> QED BY <3>1, <3>2
  <2>2. ASSUME NEW k \in Allocations, NEW y \in Requests, req'[y].op = "ReassignUpdate",
               req'[y].row = k, req'[y].dto.room = m, req'[y].dto.bed = b
        PROVE  k \in Held(m, b)
    BY <1>5, <1>6, <2>2 DEF Held, At
  <2>3. InBed(m, b) \subseteq Held(m, b)
    BY DEF Held
  <2> QED BY <2>1, <2>2, <2>3 DEF Held, At
<1>9. ASSUME NEW m \in Rooms, NEW b \in 1..MaxBeds
      PROVE  Cardinality(Held(m, b)') + Cardinality(Coming(m, b)') <= AtOnceAtMost
  <2>1. Cardinality(Held(m, b)) + Cardinality(Coming(m, b)) <= AtOnceAtMost
    BY DEF HostelInv
  <2>2. CASE dto.room = m /\ dto.bed = b
    <3>1. Held(m, b)' \subseteq Held(m, b) \cup {a}
      BY <1>13
    <3>2. Coming(m, b)' = Coming(m, b) \ {r} /\ r \in Coming(m, b)
      BY <1>1, <1>5, <1>6, <2>2 DEF Coming, AllocateDto
    <3>3. /\ IsFiniteSet(Held(m, b) \cup {a})
          /\ Cardinality(Held(m, b) \cup {a}) <= Cardinality(Held(m, b)) + 1
      <4>1. IsFiniteSet(Held(m, b)) /\ Cardinality(Held(m, b)) \in Nat
        BY HostelFinite
      <4> QED BY <4>1, OneMore
    <3>4. /\ Cardinality(Held(m, b)') <= Cardinality(Held(m, b) \cup {a})
          /\ Cardinality(Held(m, b)') \in Nat /\ Cardinality(Held(m, b) \cup {a}) \in Nat
      BY <3>1, <3>3, FS_Subset, FS_CardinalityType
    <3>5. Cardinality(Coming(m, b)') = Cardinality(Coming(m, b)) - 1
      BY <3>2, HostelFinite, FS_RemoveElement
    <3> QED BY <2>1, <3>3, <3>4, <3>5, HostelFinite
  <2>3. CASE ~(dto.room = m /\ dto.bed = b)
    <3>1. Held(m, b)' \subseteq Held(m, b)
      BY <1>13, <2>3
    <3>2. Coming(m, b)' \subseteq Coming(m, b)
      BY <1>5, <1>6 DEF Coming
    <3>3. /\ Cardinality(Held(m, b)') <= Cardinality(Held(m, b))
          /\ Cardinality(Held(m, b)') \in Nat
          /\ Cardinality(Coming(m, b)') <= Cardinality(Coming(m, b))
          /\ Cardinality(Coming(m, b)') \in Nat
      BY <3>1, <3>2, HostelFinite, FS_Subset, FS_CardinalityType
    <3> QED BY <2>1, <3>3, HostelFinite
  <2> QED BY <2>2, <2>3
<1>10. ASSUME NEW s \in Residents
       PROVE  Cardinality(BedsOf(s)') + Cardinality(Arriving(s)') <= AtOnceAtMost
  <2>1. Cardinality(BedsOf(s)) + Cardinality(Arriving(s)) <= AtOnceAtMost
    BY DEF HostelInv
  <2>2. CASE dto.student = s
    <3>1. BedsOf(s)' = BedsOf(s) \cup {a}
      <4>1. BedsOf(s)' = {k \in Active \cup {a} : allocation'[k].student = s}
        BY <1>4 DEF BedsOf
      <4>2. \A k \in Active : allocation'[k] = allocation[k]
        BY <1>3, <1>4 DEF Active
      <4> QED BY <1>3, <2>2, <4>1, <4>2 DEF BedsOf
    <3>2. Arriving(s)' = Arriving(s) \ {r} /\ r \in Arriving(s)
      BY <1>1, <1>5, <1>6, <2>2 DEF Arriving, At
    <3>3. Cardinality(BedsOf(s)') <= Cardinality(BedsOf(s)) + 1 /\ Cardinality(BedsOf(s)') \in Nat
      <4>1. IsFiniteSet(BedsOf(s)) /\ Cardinality(BedsOf(s)) \in Nat
        BY HostelFinite
      <4>2. /\ IsFiniteSet(BedsOf(s) \cup {a})
            /\ Cardinality(BedsOf(s) \cup {a}) <= Cardinality(BedsOf(s)) + 1
        BY <4>1, OneMore
      <4> QED BY <3>1, <4>2, FS_CardinalityType
    <3>4. Cardinality(Arriving(s)') = Cardinality(Arriving(s)) - 1
      BY <3>2, HostelFinite, FS_RemoveElement
    <3> QED BY <2>1, <3>3, <3>4, HostelFinite
  <2>3. CASE dto.student # s
    <3>1. BedsOf(s)' \subseteq BedsOf(s) /\ Arriving(s)' \subseteq Arriving(s)
      <4>1. BedsOf(s)' = {k \in Active \cup {a} : allocation'[k].student = s}
        BY <1>4 DEF BedsOf
      <4>2. \A k \in Active : allocation'[k] = allocation[k]
        BY <1>3, <1>4 DEF Active
      <4>3. BedsOf(s)' \subseteq BedsOf(s)
        BY <1>3, <2>3, <4>1, <4>2 DEF BedsOf
      <4>4. Arriving(s)' \subseteq Arriving(s)
        BY <1>5, <1>6 DEF Arriving, At
      <4> QED BY <4>3, <4>4
    <3>2. /\ Cardinality(BedsOf(s)') <= Cardinality(BedsOf(s)) /\ Cardinality(BedsOf(s)') \in Nat
          /\ Cardinality(Arriving(s)') <= Cardinality(Arriving(s)) /\ Cardinality(Arriving(s)') \in Nat
      BY <3>1, HostelFinite, FS_Subset, FS_CardinalityType
    <3> QED BY <2>1, <3>2, HostelFinite
  <2> QED BY <2>2, <2>3
<1>11. \A k \in Active : allocation'[k].status = "active"
  BY <1>3 DEF Active
<1> QED BY <1>7, <1>8, <1>9, <1>10, <1>11 DEF HostelInv

\* The row is moved to a bed it was counted in; a row that is no longer active stays so.
LEMMA ReassignUpdateKeeps ==
  ASSUME HostelTypeOK, HostelRequests, InFlightOK, HostelInv, NEW r \in Requests, ReassignUpdate(r)
  PROVE  HostelInv' /\ \A a \in Active : allocation'[a].status = "active"
<1>1. PICK a \in Allocations, dto \in ReassignDto : a = req[r].row /\ dto = req[r].dto
  BY HostelReqOp DEF ReassignUpdate, At, HostelRequests, HostelOps
<1>2. PICK x : x = [allocation[a] EXCEPT !.room = dto.room, !.bed = dto.bed]
  OBVIOUS
<1>3. allocation' = [allocation EXCEPT ![a] = x]
  BY <1>1, <1>2 DEF ReassignUpdate
<1>4. /\ x.status = allocation[a].status /\ x.student = allocation[a].student
      /\ x.room = dto.room /\ x.bed = dto.bed
      /\ allocation'[a] = x /\ \A k \in Allocations \ {a} : allocation'[k] = allocation[k]
  <2>1. allocation[a] \in AllocationRow
    BY DEF HostelTypeOK
  <2> QED BY <1>2, <1>3, <2>1 DEF HostelTypeOK, AllocationRow
<1>5. Active' = Active
  BY <1>4 DEF Active
<1>6. /\ req' = [req EXCEPT ![r] = Idle] /\ Idle.op = "idle" /\ req[r].op = "ReassignUpdate"
      /\ UNCHANGED <<overlap, room>> /\ room[dto.room].status = "kept"
  BY <1>1 DEF ReassignUpdate, Ends, At, Idle
<1>7. req'[r] = Idle /\ \A k \in Requests \ {r} : req'[k] = req[k]
  BY <1>6 DEF InFlightOK
<1>8. AtOnceAtMost' = AtOnceAtMost
  BY <1>6 DEF AtOnceAtMost
<1>9. RoomsThere' /\ FoundEmpty'
  <2>1. RoomsThere'
    <3>1. dto.room \in Rooms
      BY DEF ReassignDto
    <3>2. ASSUME NEW k \in Active PROVE allocation'[k].room \in Rooms /\ room[allocation'[k].room].status = "kept"
      <4>1. CASE k = a
        BY <1>4, <1>6, <3>1, <4>1
      <4>2. CASE k # a
        <5>1. allocation'[k] = allocation[k]
          BY <1>4, <3>2, <4>2 DEF Active
        <5> QED BY <3>2, <5>1 DEF HostelInv, RoomsThere
      <4> QED BY <4>1, <4>2
    <3> QED BY <1>5, <1>6, <3>2 DEF RoomsThere
  <2>2. FoundEmpty'
    BY <1>6, EmptyElse
  <2> QED BY <2>1, <2>2
<1>10. ASSUME NEW m \in Rooms, NEW b \in 1..MaxBeds
       PROVE  Cardinality(Held(m, b)') + Cardinality(Coming(m, b)') <= AtOnceAtMost
  <2>1. Cardinality(Held(m, b)) + Cardinality(Coming(m, b)) <= AtOnceAtMost
    BY DEF HostelInv
  <2>2. Held(m, b)' \subseteq Held(m, b)
    <3>1. ASSUME NEW k \in InBed(m, b)' PROVE k \in Held(m, b)
      <4>1. CASE k = a
        <5>1. dto.room = m /\ dto.bed = b
          BY <1>4, <3>1, <4>1 DEF InBed, InRoom
        <5> QED BY <1>1, <1>6, <4>1, <5>1 DEF Held, At
      <4>2. CASE k # a
        BY <1>4, <1>5, <3>1, <4>2 DEF Held, InBed, InRoom, Active
      <4> QED BY <4>1, <4>2
    <3>2. ASSUME NEW k \in Allocations, NEW y \in Requests, req'[y].op = "ReassignUpdate",
                 req'[y].row = k, req'[y].dto.room = m, req'[y].dto.bed = b
          PROVE  k \in Held(m, b)
      BY <1>6, <1>7, <3>2 DEF Held, At
    <3> QED BY <3>1, <3>2 DEF Held, At
  <2>3. Coming(m, b)' \subseteq Coming(m, b)
    BY <1>6, <1>7 DEF Coming
  <2>4. /\ Cardinality(Held(m, b)') <= Cardinality(Held(m, b))
        /\ Cardinality(Held(m, b)') \in Nat
        /\ Cardinality(Coming(m, b)') <= Cardinality(Coming(m, b))
        /\ Cardinality(Coming(m, b)') \in Nat
    BY <2>2, <2>3, HostelFinite, FS_Subset, FS_CardinalityType
  <2> QED BY <2>1, <2>4, HostelFinite
<1>11. ASSUME NEW s \in Residents
       PROVE  Cardinality(BedsOf(s)') + Cardinality(Arriving(s)') <= AtOnceAtMost
  <2>1. Cardinality(BedsOf(s)) + Cardinality(Arriving(s)) <= AtOnceAtMost
    BY DEF HostelInv
  <2>2. BedsOf(s)' \subseteq BedsOf(s) /\ Arriving(s)' \subseteq Arriving(s)
    BY <1>4, <1>5, <1>6, <1>7 DEF BedsOf, Active, Arriving, At
  <2>3. /\ Cardinality(BedsOf(s)') <= Cardinality(BedsOf(s)) /\ Cardinality(BedsOf(s)') \in Nat
        /\ Cardinality(Arriving(s)') <= Cardinality(Arriving(s)) /\ Cardinality(Arriving(s)') \in Nat
    BY <2>2, HostelFinite, FS_Subset, FS_CardinalityType
  <2> QED BY <2>1, <2>3, HostelFinite
<1>12. \A k \in Active : allocation'[k].status = "active"
  BY <1>5 DEF Active
<1> QED BY <1>8, <1>9, <1>10, <1>11, <1>12 DEF HostelInv

\* A step of request r into locals q that promises no bed, with no allocation but
\* one that is vacated.
LEMMA HostelStep ==
  ASSUME InFlightOK, HostelInv, UNCHANGED <<room, overlap>>, NEW r \in Requests,
         NEW q, req' = [req EXCEPT ![r] = q], req[r].op # "idle" \/ MayStart,
         q.op \notin {"RemoveRoom", "RemoveHostel", "AllocateStudent", "AllocateCreate",
                      "ReassignUpdate"},
         \A a \in Allocations : allocation'[a] = allocation[a] \/ allocation'[a].status = "vacated"
  PROVE  HostelInv' /\ \A a \in Active : allocation'[a].status \in {"active", "vacated"}
<1>1. \A x \in Requests :
        \/ req'[x] = req[x]
        \/ req'[x].op \notin {"AllocateStudent", "AllocateCreate", "ReassignUpdate"}
  BY DEF InFlightOK
<1>2. RoomsThere'
  BY DEF HostelInv, RoomsThere, Active
<1>3. FoundEmpty'
  BY EmptyElse
<1>4. HostelInv'
  <2>1. \A a \in Allocations : allocation'[a] = allocation[a] \/ allocation'[a].status # "active"
    OBVIOUS
  <2> QED BY <1>1, <1>2, <1>3, <2>1, FewerPromised DEF HostelInv
<1> QED BY <1>4 DEF Active

LEMMA HostelKeeps ==
  ASSUME HostelTypeOK, HostelRequests, InFlightOK, HostelInv, HostelBeds \/ HostelDesk
  PROVE  /\ HostelInv'
         /\ ~overlap => \A a \in Active : allocation'[a].status \in {"active", "vacated"}
<1> DEFINE Goal ==
      /\ HostelInv'
      /\ ~overlap => \A a \in Active : allocation'[a].status \in {"active", "vacated"}
<1>1. CASE StructureController
  BY <1>1, StructureKeeps
<1>2. ASSUME NEW r \in Requests, AllocateBed(r) \/ AllocateStudent(r) \/ ReassignBed(r) PROVE Goal
  <2>1. UNCHANGED allocation
    BY <1>2 DEF AllocateBed, AllocateStudent, ReassignBed, hostelTables
  <2> QED BY <1>2, <2>1, AllocateBedKeeps DEF Active
<1>3. ASSUME NEW r \in Requests, AllocateCreate(r) \/ ReassignUpdate(r) PROVE Goal
  BY <1>3, AllocateCreateKeeps, ReassignUpdateKeeps
<1>4. ASSUME NEW r \in Requests, AllocateRoom(r) PROVE Goal
  <2>1. PICK dto, q : q = [op |-> "AllocateBed", dto |-> dto] /\ Starts(r, q)
    BY <1>4 DEF AllocateRoom
  <2>2. q.op = "AllocateBed" /\ MayStart /\ req' = [req EXCEPT ![r] = q] /\ UNCHANGED overlap
    BY <2>1 DEF Starts
  <2> QED BY <1>4, <2>2, HostelStep DEF AllocateRoom, hostelTables
<1>5. ASSUME NEW r \in Requests, ReassignRoom(r) PROVE Goal
  <2>1. req[r] = [op |-> "ReassignRoom", row |-> req[r].row, dto |-> req[r].dto]
    BY <1>5, HostelReqOp DEF ReassignRoom, At, HostelRequests, HostelOps
  <2>2. PICK q : q = [req[r] EXCEPT !.op = "ReassignBed"]
    OBVIOUS
  <2>3. q.op = "ReassignBed" /\ req' = [req EXCEPT ![r] = q] /\ UNCHANGED overlap /\ req[r].op # "idle"
    BY <1>5, <2>1, <2>2 DEF ReassignRoom, Goes, At
  <2> QED BY <1>5, <2>3, HostelStep DEF ReassignRoom, hostelTables
<1>6. ASSUME NEW r \in Requests, NEW a \in Allocations, ReassignRead(r, a) \/ VacateRead(r, a) PROVE Goal
  <2>1. PICK q : /\ Starts(r, q)
                 /\ \/ q = [op |-> "Vacate", row |-> a]
                    \/ \E dto : q = [op |-> "ReassignRoom", row |-> a, dto |-> dto]
    BY <1>6 DEF ReassignRead, VacateRead
  <2>2. q.op \in {"Vacate", "ReassignRoom"} /\ MayStart /\ req' = [req EXCEPT ![r] = q] /\ UNCHANGED overlap
    BY <2>1 DEF Starts
  <2> QED BY <1>6, <2>2, HostelStep DEF ReassignRead, VacateRead, hostelTables
<1>7. ASSUME NEW r \in Requests, VacateUpdate(r) \/ HostelDies(r) PROVE Goal
  <2>1. Idle.op = "idle" /\ req[r].op # "idle" /\ req' = [req EXCEPT ![r] = Idle] /\ UNCHANGED <<room, overlap>>
    BY <1>7 DEF VacateUpdate, HostelDies, Dies, Ends, At, Idle, hostelTables
  <2>2. \A a \in Allocations : allocation'[a] = allocation[a] \/ allocation'[a].status = "vacated"
    <3>1. CASE VacateUpdate(r)
      <4>1. \A a \in Allocations : [allocation[a] EXCEPT !.status = "vacated"].status = "vacated"
        BY DEF HostelTypeOK, AllocationRow
      <4> QED BY <3>1, <4>1 DEF VacateUpdate, HostelTypeOK
    <3>2. CASE HostelDies(r)
      BY <3>2 DEF HostelDies, hostelTables
    <3> QED BY <1>7, <3>1, <3>2
  <2> QED BY <2>1, <2>2, HostelStep
<1>8. CASE VisitorsController \/ ComplaintsController
  <2>1. UNCHANGED <<hostel, room, allocation, req, overlap>> /\ AtOnce
    BY <1>8 DEF VisitorsController, ComplaintsController, CheckIn, CheckOut, CreateComplaint,
                UpdateComplaintStatus, AtOnce
  <2>2. RoomsThere' /\ FoundEmpty'
    BY <2>1, EmptyAtOnce DEF HostelInv, RoomsThere, Active
  <2>3. HostelInv'
    <3>1. /\ \A a \in Allocations : allocation'[a] = allocation[a]
          /\ \A r \in Requests : req'[r] = req[r]
      BY <2>1
    <3> QED BY <2>1, <2>2, <3>1, FewerPromised DEF HostelInv
  <2> QED BY <2>1, <2>3 DEF Active
<1> QED BY <1>1, <1>2, <1>3, <1>4, <1>5, <1>6, <1>7, <1>8
        DEF HostelBeds, HostelDesk, AllocationsController

-----------------------------------------------------------------------------
(* School: requests and types                                               *)

SchoolReq ==
  [op : {"UpdateYear"}, row : Years, dto : AcademicYearDto, seen : SUBSET (1..MaxReplaced)]
  \cup [op : {"UpdateBranch"}, row : Branches, dto : BranchDto, seen : SUBSET (1..MaxReplaced)]
  \cup [op : {"CreateProfile"}]
  \cup [op : {"UpdateStudent"}, row : Students, placement : PlacementDto, changed : BOOLEAN]

SchoolRequests == \A r \in Requests : req[r].op \in SchoolOps => req[r] \in SchoolReq

LEMMA SchoolReqOp ==
  ASSUME NEW q \in SchoolReq
  PROVE  /\ q.op \in SchoolOps /\ q.op # "idle"
         /\ q.op = "UpdateYear" => /\ q.row \in Years /\ q.dto.children \in BOOLEAN
                                   /\ q.seen \in SUBSET (1..MaxReplaced)
         /\ q.op = "UpdateBranch" => /\ q.row \in Branches /\ q.dto.children \in BOOLEAN
                                     /\ q.seen \in SUBSET (1..MaxReplaced)
         /\ q.op = "UpdateStudent" => q.row \in Students /\ q.placement \in PlacementDto
BY DEF SchoolReq, SchoolOps, AcademicYearDto, BranchDto

LEMMA SchoolSteps ==
  ASSUME SchoolTypeOK, DOMAIN req = Requests, SchoolRequests, Moves(SchoolOps),
         SetupDesk \/ SchoolLists \/ PeopleDesk
  PROVE  Steps(SchoolReq)
<1>1. CASE SetupControllers \/ SubjectsController \/ ParentsController \/ TeachersController
  BY <1>1, AtOnceSteps
     DEF SetupControllers, SubjectsController, ParentsController, TeachersController,
         CreateClass, RemoveClass, CreateSection, UpdateSection, RemoveSection, CreateSubject,
         UpdateSubject, RemoveSubject, CreateParent, RemoveParent, LinkChild, UnlinkChild,
         CreateTeacher, RemoveTeacher, Assign, Unassign
<1>2. ASSUME \/ \E y \in Years : CreateYear(y) \/ RemoveYear(y)
             \/ \E b \in Branches : CreateBranch(b) \/ RemoveBranch(b)
             \/ \E s \in Students : CreateStudent(s) \/ RemoveStudent(s)
             \/ (\E k \in Classes : CreateClass(k)) \/ \E x \in Sections : CreateSection(x)
      PROVE  Steps(SchoolReq)
  BY <1>2, AtOnceSteps DEF CreateYear, RemoveYear, CreateBranch, RemoveBranch, CreateStudent,
                           RemoveStudent, CreateClass, CreateSection
<1>3. ASSUME NEW r \in Requests, NEW y \in Years, UpdateYearDelete(r, y) PROVE Steps(SchoolReq)
  <2>1. PICK dto \in AcademicYearDto :
          Starts(r, [op |-> "UpdateYear", row |-> y, dto |-> dto, seen |-> year[y].children])
    BY <1>3 DEF UpdateYearDelete
  <2>2. PICK seen \in SUBSET (1..MaxReplaced) : seen = year[y].children
    BY DEF SchoolTypeOK, WithChildren
  <2>3. PICK q \in SchoolReq : q = [op |-> "UpdateYear", row |-> y, dto |-> dto, seen |-> seen]
    BY DEF SchoolReq
  <2> QED BY <2>1, <2>2, <2>3, StartSteps
<1>4. ASSUME NEW r \in Requests, NEW b \in Branches, UpdateBranchDelete(r, b) PROVE Steps(SchoolReq)
  <2>1. PICK dto \in BranchDto :
          Starts(r, [op |-> "UpdateBranch", row |-> b, dto |-> dto, seen |-> branch[b].children])
    BY <1>4 DEF UpdateBranchDelete
  <2>2. PICK seen \in SUBSET (1..MaxReplaced) : seen = branch[b].children
    BY DEF SchoolTypeOK, WithChildren
  <2>3. PICK q \in SchoolReq : q = [op |-> "UpdateBranch", row |-> b, dto |-> dto, seen |-> seen]
    BY DEF SchoolReq
  <2> QED BY <2>1, <2>2, <2>3, StartSteps
<1>5. ASSUME NEW r \in Requests, ProfileRead(r) PROVE Steps(SchoolReq)
  <2>1. PICK q \in SchoolReq : q = [op |-> "CreateProfile"]
    BY DEF SchoolReq
  <2> QED BY <1>5, <2>1, StartSteps DEF ProfileRead
<1>6. ASSUME NEW r \in Requests, NEW s \in Students, UpdateStudentRead(r, s) PROVE Steps(SchoolReq)
  <2>1. PICK pl \in PlacementDto :
          Starts(r, [op |-> "UpdateStudent", row |-> s, placement |-> pl,
                     changed |-> pl # student[s].placement])
    BY <1>6 DEF UpdateStudentRead
  <2>2. PICK changed \in BOOLEAN : changed = (pl # student[s].placement)
    OBVIOUS
  <2>3. PICK q \in SchoolReq : q = [op |-> "UpdateStudent", row |-> s, placement |-> pl,
                                    changed |-> changed]
    BY DEF SchoolReq
  <2> QED BY <2>1, <2>2, <2>3, StartSteps
<1>7. ASSUME NEW r \in Requests,
             \/ UpdateYearCommit(r) \/ UpdateBranchCommit(r) \/ ProfileCreate(r)
             \/ UpdateStudentWrite(r)
      PROVE  Steps(SchoolReq)
  <2>1. req[r].op \in SchoolOps /\ Ends(r)
    BY <1>7 DEF UpdateYearCommit, UpdateBranchCommit, ProfileCreate, UpdateStudentWrite, At, SchoolOps
  <2> QED BY <2>1, EndSteps DEF SchoolRequests
<1>8. ASSUME NEW r \in Requests, SchoolDies(r) PROVE Steps(SchoolReq)
  BY <1>8, DiesSteps DEF SchoolDies, SchoolRequests
<1> QED BY <1>1, <1>2, <1>3, <1>4, <1>5, <1>6, <1>7, <1>8
        DEF SetupDesk, SchoolStructure, SchoolLists, SchoolListsControllers, PeopleDesk, SchoolPeople,
            StudentsController, StudentMoves

LEMMA SetupTyped ==
  ASSUME SchoolTypeOK, SetupControllers \/ SubjectsController
  PROVE  SchoolTypeOK'
<1> USE DEF SchoolTypeOK, listTables, peopleTables
<1>1. ASSUME NEW k \in Classes, CreateClass(k) PROVE SchoolTypeOK'
  BY <1>1 DEF CreateClass, RowStatus
<1>2. ASSUME NEW k \in Classes, RemoveClass(k) PROVE SchoolTypeOK'
  <2>1. section' \in [Sections -> SectionRow]
    <3>1. \A x \in Sections : [section[x] EXCEPT !.status = "deleted"] \in SectionRow
      BY DEF SectionRow, RowStatus
    <3> QED BY <1>2, <3>1 DEF RemoveClass
  <2> QED BY <1>2, <2>1 DEF RemoveClass, RowStatus
<1>3. ASSUME NEW x \in Sections, CreateSection(x) PROVE SchoolTypeOK'
  <2>1. PICK dto \in SectionDto : section' = [section EXCEPT ![x] = [status |-> "kept", class |-> dto.class]]
    BY <1>3 DEF CreateSection
  <2>2. [status |-> "kept", class |-> dto.class] \in SectionRow
    BY DEF SectionDto, SectionRow, RowStatus
  <2>3. section' \in [Sections -> SectionRow]
    BY <2>1, <2>2
  <2> QED BY <1>3, <2>3 DEF CreateSection
<1>4. ASSUME NEW x \in Sections, UpdateSection(x) PROVE SchoolTypeOK'
  <2>1. PICK dto \in SectionDto : section' = [section EXCEPT ![x].class = dto.class]
    BY <1>4 DEF UpdateSection
  <2>2. [section[x] EXCEPT !.class = dto.class] \in SectionRow
    BY DEF SectionDto, SectionRow
  <2>3. section' \in [Sections -> SectionRow]
    BY <2>1, <2>2
  <2> QED BY <1>4, <2>3 DEF UpdateSection
<1>5. ASSUME NEW x \in Sections, RemoveSection(x) PROVE SchoolTypeOK'
  <2>1. [section[x] EXCEPT !.status = "deleted"] \in SectionRow
    BY DEF SectionRow, RowStatus
  <2>2. section' \in [Sections -> SectionRow]
    BY <1>5, <2>1 DEF RemoveSection
  <2> QED BY <1>5, <2>2 DEF RemoveSection
<1>6. ASSUME NEW j \in Subjects, CreateSubject(j) PROVE SchoolTypeOK'
  <2>1. PICK dto \in SubjectDto : subject' = [subject EXCEPT ![j] = [status |-> "kept", classes |-> dto.classes]]
    BY <1>6 DEF CreateSubject
  <2>2. [status |-> "kept", classes |-> dto.classes] \in SubjectRow
    BY DEF SubjectDto, SubjectRow, RowStatus
  <2>3. subject' \in [Subjects -> SubjectRow]
    BY <2>1, <2>2
  <2> QED BY <1>6, <2>3 DEF CreateSubject
<1>7. ASSUME NEW j \in Subjects, UpdateSubject(j) PROVE SchoolTypeOK'
  <2>1. PICK dto \in SubjectDto : subject' = [subject EXCEPT ![j].classes = dto.classes]
    BY <1>7 DEF UpdateSubject
  <2>2. [subject[j] EXCEPT !.classes = dto.classes] \in SubjectRow
    BY DEF SubjectDto, SubjectRow
  <2>3. subject' \in [Subjects -> SubjectRow]
    BY <2>1, <2>2
  <2> QED BY <1>7, <2>3 DEF UpdateSubject
<1>8. ASSUME NEW j \in Subjects, RemoveSubject(j) PROVE SchoolTypeOK'
  <2>1. [subject[j] EXCEPT !.status = "deleted"] \in SubjectRow
    BY DEF SubjectRow, RowStatus
  <2>2. subject' \in [Subjects -> SubjectRow]
    BY <1>8, <2>1 DEF RemoveSubject
  <2> QED BY <1>8, <2>2 DEF RemoveSubject
<1> QED BY <1>1, <1>2, <1>3, <1>4, <1>5, <1>6, <1>7, <1>8 DEF SetupControllers, SubjectsController

\* Rows that were never created have no children.
FreshLists ==
  /\ \A y \in Years : year[y].status = "none" => year[y].children = {} /\ year[y].writes = 0
  /\ \A b \in Branches : branch[b].status = "none" => branch[b].children = {} /\ branch[b].writes = 0

LEMMA ChildrenTyped ==
  ASSUME NEW old \in WithChildren, old.writes < MaxReplaced, NEW given, NEW seen
  PROVE  /\ Children(old, given) \in SUBSET (1..MaxReplaced)
         /\ Replaced(old.children, seen, Children(old, given)) \in SUBSET (1..MaxReplaced)
         /\ old.writes + 1 \in 0..MaxReplaced /\ old.writes + 1 # 0
<1>1. old.writes + 1 \in 1..MaxReplaced /\ old.writes + 1 \in 0..MaxReplaced /\ old.writes + 1 # 0
  BY SchoolAssumption DEF WithChildren
<1>2. old.children \in SUBSET (1..MaxReplaced)
  BY DEF WithChildren
<1> QED BY <1>1, <1>2 DEF Children, Replaced

\* A new old, and one that is replaced.
LEMMA NewRowTyped ==
  ASSUME NEW old \in WithChildren, old.writes = 0, NEW given
  PROVE  [status |-> "kept", children |-> Children(old, given), writes |-> 1] \in WithChildren
<1>1. PICK children : children = Children(old, given)
  OBVIOUS
<1>2. children \in SUBSET (1..MaxReplaced) /\ 1 \in 0..MaxReplaced
  BY <1>1, ChildrenTyped, SchoolAssumption
<1> QED BY <1>1, <1>2 DEF WithChildren, RowStatus

LEMMA RemovedRowTyped ==
  ASSUME NEW old \in WithChildren
  PROVE  /\ [old EXCEPT !.status = "deleted", !.children = {}] \in WithChildren
         /\ [old EXCEPT !.status = "deleted", !.children = {}].status = "deleted"
BY DEF WithChildren, RowStatus

LEMMA YearsTyped ==
  ASSUME SchoolTypeOK, FreshLists, SchoolRequests,
         \/ \E y \in Years : CreateYear(y) \/ RemoveYear(y)
         \/ \E r \in Requests : UpdateYearCommit(r)
  PROVE  /\ year' \in [Years -> WithChildren]
         /\ \A y \in Years : year'[y].status = "none" => year'[y] = year[y]
<1> USE DEF SchoolTypeOK
<1>1. ASSUME NEW y \in Years, NEW x \in WithChildren, year' = [year EXCEPT ![y] = x], x.status # "none"
      PROVE  /\ year' \in [Years -> WithChildren]
             /\ \A z \in Years : year'[z].status = "none" => year'[z] = year[z]
  BY <1>1
<1>2. ASSUME NEW y \in Years, CreateYear(y)
      PROVE  \E x \in WithChildren : year' = [year EXCEPT ![y] = x] /\ x.status # "none"
  <2>1. PICK dto \in AcademicYearDto : year' = [year EXCEPT ![y] =
          [status |-> "kept", children |-> Children(year[y], dto.children), writes |-> 1]]
    BY <1>2 DEF CreateYear
  <2>2. year[y].writes = 0 /\ year[y] \in WithChildren
    BY <1>2 DEF CreateYear, FreshLists
  <2>3. PICK x : x = [status |-> "kept", children |-> Children(year[y], dto.children), writes |-> 1]
    OBVIOUS
  <2>4. x \in WithChildren /\ x.status = "kept"
    BY <2>2, <2>3, NewRowTyped
  <2> QED BY <2>1, <2>3, <2>4
<1>3. ASSUME NEW y \in Years, RemoveYear(y)
      PROVE  \E x \in WithChildren : year' = [year EXCEPT ![y] = x] /\ x.status # "none"
  <2>1. PICK x : x = [year[y] EXCEPT !.status = "deleted", !.children = {}]
    OBVIOUS
  <2>2. x \in WithChildren /\ x.status = "deleted"
    BY <2>1, RemovedRowTyped
  <2> QED BY <1>3, <2>1, <2>2 DEF RemoveYear
<1>4. ASSUME NEW r \in Requests, UpdateYearCommit(r)
      PROVE  \E y \in Years, x \in WithChildren : year' = [year EXCEPT ![y] = x] /\ x.status # "none"
  <2>1. PICK y \in Years : y = req[r].row
    BY <1>4, SchoolReqOp DEF UpdateYearCommit, At, SchoolRequests, SchoolOps
  <2>2. PICK x : x = [year[y] EXCEPT !.children = Replaced(@, req[r].seen, Children(year[y], req[r].dto.children)),
                                     !.writes = @ + 1]
    OBVIOUS
  <2>3. x \in WithChildren /\ x.status = "kept"
    <3>1. year[y] \in WithChildren /\ year[y].writes < MaxReplaced /\ year[y].status = "kept"
      BY <1>4, <2>1 DEF UpdateYearCommit
    <3>2. PICK c : c = Replaced(year[y].children, req[r].seen, Children(year[y], req[r].dto.children))
      OBVIOUS
    <3>3. c \in SUBSET (1..MaxReplaced) /\ year[y].writes + 1 \in 0..MaxReplaced
      BY <3>1, <3>2, ChildrenTyped
    <3>4. x = [year[y] EXCEPT !.children = c, !.writes = year[y].writes + 1]
      BY <2>2, <3>2
    <3> QED BY <3>1, <3>3, <3>4 DEF WithChildren
  <2>4. year' = [year EXCEPT ![y] = x]
    BY <1>4, <2>1, <2>2 DEF UpdateYearCommit
  <2> QED BY <2>3, <2>4
<1>5. \E y \in Years, x \in WithChildren : year' = [year EXCEPT ![y] = x] /\ x.status # "none"
  BY <1>2, <1>3, <1>4
<1> QED BY <1>1, <1>5

LEMMA BranchesTyped ==
  ASSUME SchoolTypeOK, FreshLists, SchoolRequests,
         \/ \E b \in Branches : CreateBranch(b) \/ RemoveBranch(b)
         \/ \E r \in Requests : UpdateBranchCommit(r)
  PROVE  /\ branch' \in [Branches -> WithChildren]
         /\ \A b \in Branches : branch'[b].status = "none" => branch'[b] = branch[b]
<1> USE DEF SchoolTypeOK
<1>1. ASSUME NEW b \in Branches, NEW x \in WithChildren, branch' = [branch EXCEPT ![b] = x],
             x.status # "none"
      PROVE  /\ branch' \in [Branches -> WithChildren]
             /\ \A z \in Branches : branch'[z].status = "none" => branch'[z] = branch[z]
  BY <1>1
<1>2. ASSUME NEW b \in Branches, CreateBranch(b)
      PROVE  \E x \in WithChildren : branch' = [branch EXCEPT ![b] = x] /\ x.status # "none"
  <2>1. PICK dto \in BranchDto : branch' = [branch EXCEPT ![b] =
          [status |-> "kept", children |-> Children(branch[b], dto.children), writes |-> 1]]
    BY <1>2 DEF CreateBranch
  <2>2. branch[b].writes = 0 /\ branch[b] \in WithChildren
    BY <1>2 DEF CreateBranch, FreshLists
  <2>3. PICK x : x = [status |-> "kept", children |-> Children(branch[b], dto.children), writes |-> 1]
    OBVIOUS
  <2>4. x \in WithChildren /\ x.status = "kept"
    BY <2>2, <2>3, NewRowTyped
  <2> QED BY <2>1, <2>3, <2>4
<1>3. ASSUME NEW b \in Branches, RemoveBranch(b)
      PROVE  \E x \in WithChildren : branch' = [branch EXCEPT ![b] = x] /\ x.status # "none"
  <2>1. PICK x : x = [branch[b] EXCEPT !.status = "deleted", !.children = {}]
    OBVIOUS
  <2>2. x \in WithChildren /\ x.status = "deleted"
    BY <2>1, RemovedRowTyped
  <2> QED BY <1>3, <2>1, <2>2 DEF RemoveBranch
<1>4. ASSUME NEW r \in Requests, UpdateBranchCommit(r)
      PROVE  \E b \in Branches, x \in WithChildren :
               branch' = [branch EXCEPT ![b] = x] /\ x.status # "none"
  <2>1. PICK b \in Branches : b = req[r].row
    BY <1>4, SchoolReqOp DEF UpdateBranchCommit, At, SchoolRequests, SchoolOps
  <2>2. PICK x : x = [branch[b] EXCEPT !.children = Replaced(@, req[r].seen, Children(branch[b], req[r].dto.children)),
                                       !.writes = @ + 1]
    OBVIOUS
  <2>3. x \in WithChildren /\ x.status = "kept"
    <3>1. branch[b] \in WithChildren /\ branch[b].writes < MaxReplaced /\ branch[b].status = "kept"
      BY <1>4, <2>1 DEF UpdateBranchCommit
    <3>2. PICK c : c = Replaced(branch[b].children, req[r].seen, Children(branch[b], req[r].dto.children))
      OBVIOUS
    <3>3. c \in SUBSET (1..MaxReplaced) /\ branch[b].writes + 1 \in 0..MaxReplaced
      BY <3>1, <3>2, ChildrenTyped
    <3>4. x = [branch[b] EXCEPT !.children = c, !.writes = branch[b].writes + 1]
      BY <2>2, <3>2
    <3> QED BY <3>1, <3>3, <3>4 DEF WithChildren
  <2>4. branch' = [branch EXCEPT ![b] = x]
    BY <1>4, <2>1, <2>2 DEF UpdateBranchCommit
  <2> QED BY <2>3, <2>4
<1>5. \E b \in Branches, x \in WithChildren : branch' = [branch EXCEPT ![b] = x] /\ x.status # "none"
  BY <1>2, <1>3, <1>4
<1> QED BY <1>1, <1>5

LEMMA ListsTyped ==
  ASSUME SchoolTypeOK, FreshLists, SchoolRequests, SchoolListsControllers
  PROVE  SchoolTypeOK' /\ FreshLists' /\ UNCHANGED <<structureTables, peopleTables>>
<1>1. CASE \/ \E y \in Years : CreateYear(y) \/ RemoveYear(y)
           \/ \E r \in Requests : UpdateYearCommit(r)
  <2>1. UNCHANGED <<branch, profile, structureTables, peopleTables>>
    BY <1>1 DEF CreateYear, RemoveYear, UpdateYearCommit
  <2> QED BY <1>1, <2>1, YearsTyped DEF SchoolTypeOK, FreshLists, structureTables, peopleTables
<1>2. CASE \/ \E b \in Branches : CreateBranch(b) \/ RemoveBranch(b)
           \/ \E r \in Requests : UpdateBranchCommit(r)
  <2>1. UNCHANGED <<year, profile, structureTables, peopleTables>>
    BY <1>2 DEF CreateBranch, RemoveBranch, UpdateBranchCommit
  <2> QED BY <1>2, <2>1, BranchesTyped DEF SchoolTypeOK, FreshLists, structureTables, peopleTables
<1>3. CASE \E r \in Requests : ProfileCreate(r)
  <2>1. profile' = 1 /\ UNCHANGED <<year, branch, structureTables, peopleTables>>
    BY <1>3 DEF ProfileCreate
  <2> QED BY <2>1 DEF SchoolTypeOK, FreshLists, structureTables, peopleTables
<1>4. CASE \E r \in Requests :
             \/ ProfileRead(r) \/ \E y \in Years : UpdateYearDelete(r, y)
             \/ \E b \in Branches : UpdateBranchDelete(r, b)
  <2>1. UNCHANGED schoolTables
    BY <1>4 DEF ProfileRead, UpdateYearDelete, UpdateBranchDelete
  <2> QED BY <2>1 DEF SchoolTypeOK, FreshLists, schoolTables, structureTables, listTables, peopleTables
<1> QED BY <1>1, <1>2, <1>3, <1>4 DEF SchoolListsControllers

LEMMA PeopleTyped ==
  ASSUME SchoolTypeOK, ParentsController \/ TeachersController
  PROVE  SchoolTypeOK' /\ UNCHANGED <<structureTables, listTables>>
<1> USE DEF SchoolTypeOK, structureTables, listTables
<1>1. ASSUME ParentsController PROVE SchoolTypeOK'
  <2>1. ASSUME NEW p \in Parents, CreateParent(p) \/ RemoveParent(p) PROVE SchoolTypeOK'
    BY <2>1 DEF CreateParent, RemoveParent, RowStatus
  <2>2. ASSUME NEW p \in Parents, NEW s \in Students, LinkChild(p, s) \/ UnlinkChild(p, s)
        PROVE  SchoolTypeOK'
    BY <2>2 DEF LinkChild, UnlinkChild
  <2> QED BY <1>1, <2>1, <2>2 DEF ParentsController
<1>2. ASSUME NEW t \in Teachers, CreateTeacher(t) PROVE SchoolTypeOK'
  BY <1>2 DEF CreateTeacher, RowStatus
<1>3. ASSUME NEW t \in Teachers, RemoveTeacher(t) PROVE SchoolTypeOK'
  <2>1. assignment' \in [Assignments -> AssignmentRow]
    <3>1. \A g \in Assignments : [assignment[g] EXCEPT !.status = "deleted"] \in AssignmentRow
      BY DEF AssignmentRow, RowStatus
    <3> QED BY <1>3, <3>1 DEF RemoveTeacher
  <2> QED BY <1>3, <2>1 DEF RemoveTeacher, RowStatus
<1>4. ASSUME NEW t \in Teachers, NEW g \in Assignments, Assign(t, g) PROVE SchoolTypeOK'
  <2>1. PICK dto \in AssignmentDto :
          assignment' = [assignment EXCEPT ![g] = [status |-> "kept", teacher |-> t, to |-> dto]]
    BY <1>4 DEF Assign
  <2>2. [status |-> "kept", teacher |-> t, to |-> dto] \in AssignmentRow
    BY DEF AssignmentRow, RowStatus
  <2>3. assignment' \in [Assignments -> AssignmentRow]
    BY <2>1, <2>2
  <2> QED BY <1>4, <2>3 DEF Assign
<1>5. ASSUME NEW g \in Assignments, Unassign(g) PROVE SchoolTypeOK'
  <2>1. [assignment[g] EXCEPT !.status = "deleted"] \in AssignmentRow
    BY DEF AssignmentRow, RowStatus
  <2>2. assignment' \in [Assignments -> AssignmentRow]
    BY <1>5, <2>1 DEF Unassign
  <2> QED BY <1>5, <2>2 DEF Unassign
<1>6. UNCHANGED <<structureTables, listTables>>
  BY DEF ParentsController, TeachersController, CreateParent, RemoveParent, LinkChild, UnlinkChild,
         CreateTeacher, RemoveTeacher, Assign, Unassign
<1> QED BY <1>1, <1>2, <1>3, <1>4, <1>5, <1>6 DEF TeachersController

-----------------------------------------------------------------------------
(* School: the histories of the students                                    *)

\* One request at a time, a placement that was read as another still is one at the write.
StillChanged ==
  ~overlap => \A r \in Requests : At(r, "UpdateStudent") /\ Placed(req[r].row) =>
    (req[r].changed <=> req[r].placement # student[req[r].row].placement)

\* A history that tells of every move, up to the present placement.
TellsUpTo(h, pl) == Last(h) = pl /\ \A i \in 1..(Len(h) - 1) : h[i] # h[i + 1]

HistoriesInv == DOMAIN history = Students /\ HistoryEndsHere /\ StillChanged

LEMMA HistoryTold ==
  HistoryEndsHere <=> (overlap \/ \A s \in Students : Placed(s) => TellsUpTo(history[s], student[s].placement))
BY DEF HistoryEndsHere, TellsUpTo

LEMMA FirstTold ==
  ASSUME NEW pl \in PlacementDto
  PROVE  /\ <<pl>> \in Seq(PlacementDto) /\ Len(<<pl>>) = 1 /\ TellsUpTo(<<pl>>, pl)
<1>1. PICK h : h = <<pl>>
  OBVIOUS
<1>2. h \in Seq(PlacementDto) /\ Len(h) = 1 /\ h[1] = pl
  BY <1>1
<1>3. Last(h) = pl /\ 1..(Len(h) - 1) = {}
  BY <1>2 DEF Last
<1> QED BY <1>1, <1>2, <1>3 DEF TellsUpTo

LEMMA NextTold ==
  ASSUME NEW h \in Seq(PlacementDto), NEW pl, NEW new \in PlacementDto
  PROVE  /\ Append(h, new) \in Seq(PlacementDto) /\ Len(Append(h, new)) = Len(h) + 1
         /\ TellsUpTo(h, pl) /\ new # pl => TellsUpTo(Append(h, new), new)
<1>1. PICK g : g = Append(h, new)
  OBVIOUS
<1>2. /\ g \in Seq(PlacementDto) /\ Len(g) = Len(h) + 1 /\ g[Len(h) + 1] = new /\ Len(h) \in Nat
      /\ \A i \in 1..Len(h) : g[i] = h[i]
  BY <1>1
<1>3. ASSUME TellsUpTo(h, pl), new # pl PROVE TellsUpTo(g, new)
  <2>1. Last(g) = new /\ h[Len(h)] = pl
    BY <1>2, <1>3 DEF Last, TellsUpTo
  <2>2. ASSUME NEW i \in 1..(Len(g) - 1) PROVE g[i] # g[i + 1]
    <3>1. CASE i = Len(h)
      BY <1>2, <1>3, <2>1, <2>2, <3>1
    <3>2. CASE i # Len(h)
      <4>1. i \in 1..(Len(h) - 1) /\ i + 1 \in 1..Len(h) /\ i \in 1..Len(h)
        BY <1>2, <2>2, <3>2
      <4> QED BY <1>2, <1>3, <4>1 DEF TellsUpTo
    <3> QED BY <3>1, <3>2
  <2> QED BY <2>1, <2>2 DEF TellsUpTo
<1> QED BY <1>1, <1>2, <1>3

\* Students are left alone, and nobody reads a placement.
LEMMA HistoriesElse ==
  ASSUME HistoriesInv, UNCHANGED <<student, history, overlap>>,
         \A r \in Requests : req'[r] = req[r] \/ req'[r].op # "UpdateStudent"
  PROVE  HistoriesInv'
<1>1. HistoryEndsHere'
  BY DEF HistoriesInv, HistoryEndsHere, Placed
<1>2. StillChanged'
  BY DEF HistoriesInv, StillChanged, Placed, At
<1> QED BY <1>1, <1>2 DEF HistoriesInv

LEMMA CreateStudentKeeps ==
  ASSUME SchoolTypeOK, InFlightOK, HistoriesInv, NEW s \in Students, CreateStudent(s)
  PROVE  SchoolTypeOK' /\ HistoriesInv'
<1>1. PICK pl \in PlacementDto :
        /\ student' = [student EXCEPT ![s] = [status |-> "kept", placement |-> pl]]
        /\ history' = [history EXCEPT ![s] = <<pl>>]
  BY DEF CreateStudent
<1>2. PICK x, h : x = [status |-> "kept", placement |-> pl] /\ h = <<pl>>
  OBVIOUS
<1>3. /\ x \in StudentRow /\ x.placement = pl /\ h \in Seq(PlacementDto) /\ Len(h) = 1 /\ TellsUpTo(h, pl)
  BY <1>2, FirstTold DEF StudentRow, RowStatus
<1>4. /\ student' \in [Students -> StudentRow] /\ student'[s] = x /\ history'[s] = h
      /\ DOMAIN history' = Students
      /\ \A z \in Students \ {s} : student'[z] = student[z] /\ history'[z] = history[z]
  BY <1>1, <1>2, <1>3 DEF SchoolTypeOK, HistoriesInv
<1>5. UNCHANGED <<schoolClass, section, subject, listTables, peopleTables, req, overlap>> /\ MayStart
  BY DEF CreateStudent, AtOnce
<1>6. SchoolTypeOK'
  <2>1. ASSUME NEW z \in Students
        PROVE  history'[z] \in Seq(PlacementDto) /\ Len(history'[z]) <= MaxPlacements
    <3>1. 0 <= MaxPlacements /\ 1 <= MaxPlacements
      BY SchoolAssumption
    <3>2. h \in Seq(PlacementDto) /\ Len(h) <= MaxPlacements
      BY <1>3, <3>1
    <3> QED BY <1>4, <3>2 DEF SchoolTypeOK
  <2> QED BY <1>4, <1>5, <2>1 DEF SchoolTypeOK, listTables, peopleTables
<1>7. HistoryEndsHere'
  <2>1. overlap \/ \A z \in Students : Placed(z) => TellsUpTo(history[z], student[z].placement)
    BY HistoryTold DEF HistoriesInv
  <2>2. ASSUME ~overlap, NEW z \in Students, Placed(z)'
        PROVE  TellsUpTo(history'[z], student'[z].placement)
    <3>1. CASE z = s
      BY <1>3, <1>4, <2>2, <3>1 DEF Placed
    <3>2. CASE z # s
      <4>1. Placed(z) /\ history'[z] = history[z] /\ student'[z] = student[z]
        BY <1>4, <2>2, <3>2 DEF Placed
      <4> QED BY <2>1, <2>2, <4>1
    <3> QED BY <3>1, <3>2
  <2> QED BY <1>5, <2>2 DEF HistoryEndsHere, TellsUpTo
<1>8. StillChanged'
  BY <1>5 DEF MayStart, StillChanged, At
<1> QED BY <1>4, <1>6, <1>7, <1>8 DEF HistoriesInv

LEMMA RemoveStudentKeeps ==
  ASSUME SchoolTypeOK, InFlightOK, HistoriesInv, NEW s \in Students, RemoveStudent(s)
  PROVE  SchoolTypeOK' /\ HistoriesInv'
<1>1. PICK x, h : x = [student[s] EXCEPT !.status = "deleted"] /\ h = <<>>
  OBVIOUS
<1>2. x \in StudentRow /\ x.status = "deleted" /\ h \in Seq(PlacementDto) /\ Len(h) = 0
  BY <1>1 DEF SchoolTypeOK, StudentRow, RowStatus
<1>3. student' = [student EXCEPT ![s] = x] /\ history' = [history EXCEPT ![s] = h]
  BY <1>1 DEF RemoveStudent
<1>4. /\ student' \in [Students -> StudentRow] /\ student'[s] = x /\ history'[s] = h
      /\ DOMAIN history' = Students
      /\ \A z \in Students \ {s} : student'[z] = student[z] /\ history'[z] = history[z]
  BY <1>2, <1>3 DEF SchoolTypeOK, HistoriesInv
<1>5. /\ UNCHANGED <<schoolClass, section, subject, listTables, parent, teacher, assignment, req, overlap>>
      /\ MayStart /\ link' \subseteq link
  BY DEF RemoveStudent, AtOnce
<1>6. SchoolTypeOK'
  <2>1. ASSUME NEW z \in Students
        PROVE  history'[z] \in Seq(PlacementDto) /\ Len(history'[z]) <= MaxPlacements
    <3>1. 0 <= MaxPlacements /\ 1 <= MaxPlacements
      BY SchoolAssumption
    <3>2. h \in Seq(PlacementDto) /\ Len(h) <= MaxPlacements
      BY <1>2, <3>1
    <3> QED BY <1>4, <3>2 DEF SchoolTypeOK
  <2> QED BY <1>4, <1>5, <2>1 DEF SchoolTypeOK, listTables
<1>7. HistoryEndsHere'
  <2>1. overlap \/ \A z \in Students : Placed(z) => TellsUpTo(history[z], student[z].placement)
    BY HistoryTold DEF HistoriesInv
  <2>2. ASSUME ~overlap, NEW z \in Students, Placed(z)'
        PROVE  TellsUpTo(history'[z], student'[z].placement)
    <3>1. CASE z = s
      BY <1>2, <1>4, <2>2, <3>1 DEF Placed
    <3>2. CASE z # s
      <4>1. Placed(z) /\ history'[z] = history[z] /\ student'[z] = student[z]
        BY <1>4, <2>2, <3>2 DEF Placed
      <4> QED BY <2>1, <2>2, <4>1
    <3> QED BY <3>1, <3>2
  <2> QED BY <1>5, <2>2 DEF HistoryEndsHere, TellsUpTo
<1>8. StillChanged'
  BY <1>5 DEF MayStart, StillChanged, At
<1> QED BY <1>4, <1>6, <1>7, <1>8 DEF HistoriesInv

LEMMA UpdateStudentReadKeeps ==
  ASSUME SchoolTypeOK, InFlightOK, HistoriesInv, NEW r \in Requests, NEW s \in Students,
         UpdateStudentRead(r, s)
  PROVE  SchoolTypeOK' /\ HistoriesInv'
<1>1. UNCHANGED <<schoolTables, overlap>>
  BY DEF UpdateStudentRead, Starts
<1>2. PICK q, pl : /\ q = [op |-> "UpdateStudent", row |-> s, placement |-> pl,
                           changed |-> pl # student[s].placement]
                   /\ Starts(r, q)
  BY DEF UpdateStudentRead
<1>3. /\ q.op = "UpdateStudent" /\ q.row = s /\ q.placement = pl
      /\ (q.changed <=> pl # student[s].placement)
  BY <1>2
<1>4. MayStart /\ req'[r] = q /\ \A x \in Requests \ {r} : req'[x] = req[x]
  BY <1>2 DEF Starts, InFlightOK
<1>5. ~overlap => \A x \in Requests \ {r} : req'[x].op = "idle"
  BY <1>4 DEF MayStart
<1>6. UNCHANGED <<student, history>>
  BY <1>1 DEF schoolTables, structureTables
<1>7. StillChanged'
  BY <1>1, <1>3, <1>4, <1>5, <1>6 DEF StillChanged, At
<1>8. HistoryEndsHere'
  BY <1>1, <1>6 DEF HistoriesInv, HistoryEndsHere, Placed
<1>9. SchoolTypeOK'
  BY <1>1 DEF SchoolTypeOK, schoolTables, structureTables, listTables, peopleTables
<1> QED BY <1>6, <1>7, <1>8, <1>9 DEF HistoriesInv

LEMMA UpdateStudentWriteKeeps ==
  ASSUME SchoolTypeOK, SchoolRequests, InFlightOK, HistoriesInv, NEW r \in Requests,
         UpdateStudentWrite(r)
  PROVE  SchoolTypeOK' /\ HistoriesInv'
<1>1. PICK s, pl : s \in Students /\ pl \in PlacementDto /\ s = req[r].row /\ pl = req[r].placement
  BY SchoolReqOp DEF UpdateStudentWrite, At, SchoolRequests, SchoolOps
<1>2. PICK x, h : /\ x = [student[s] EXCEPT !.placement = pl]
                  /\ h = IF req[r].changed THEN Append(history[s], pl) ELSE history[s]
  OBVIOUS
<1>3. /\ student' = [student EXCEPT ![s] = x] /\ history' = [history EXCEPT ![s] = h]
      /\ Placed(s) /\ Len(history[s]) < MaxPlacements /\ At(r, "UpdateStudent")
  BY <1>1, <1>2 DEF UpdateStudentWrite
<1>4. /\ x \in StudentRow /\ x.status = "kept" /\ x.placement = pl
  BY <1>1, <1>2, <1>3 DEF SchoolTypeOK, StudentRow, RowStatus, Placed
<1>5. /\ h \in Seq(PlacementDto) /\ Len(h) <= MaxPlacements
      /\ overlap \/ TellsUpTo(h, pl)
  <2>1. /\ history[s] \in Seq(PlacementDto) /\ Len(history[s]) \in Nat /\ Len(history[s]) + 1 <= MaxPlacements
    <3>1. history[s] \in Seq(PlacementDto)
      BY <1>1 DEF SchoolTypeOK
    <3>2. Len(history[s]) \in Nat
      BY <3>1
    <3> QED BY <1>3, <3>1, <3>2, SchoolAssumption
  <2>2. overlap \/ /\ TellsUpTo(history[s], student[s].placement)
                   /\ req[r].changed <=> pl # student[s].placement
    BY <1>1, <1>3, HistoryTold DEF HistoriesInv, StillChanged
  <2>3. CASE req[r].changed
    <3>1. h = Append(history[s], pl)
      BY <1>2, <2>3
    <3>2. h \in Seq(PlacementDto) /\ Len(h) = Len(history[s]) + 1
      BY <1>1, <2>1, <3>1, NextTold
    <3>3. ASSUME ~overlap PROVE TellsUpTo(h, pl)
      <4>1. PICK old : old = student[s].placement
        OBVIOUS
      <4>2. TellsUpTo(history[s], old) /\ pl # old
        BY <2>2, <2>3, <3>3, <4>1
      <4>3. ASSUME NEW g \in Seq(PlacementDto), TellsUpTo(g, old) PROVE TellsUpTo(Append(g, pl), pl)
        BY <1>1, <4>2, <4>3, NextTold
      <4> QED BY <2>1, <3>1, <4>2, <4>3
    <3> QED BY <2>1, <3>2, <3>3
  <2>4. CASE ~req[r].changed
    <3>1. h = history[s]
      BY <1>2, <2>4
    <3>2. overlap \/ TellsUpTo(h, pl)
      BY <2>2, <2>4, <3>1
    <3> QED BY <2>1, <3>1, <3>2, SchoolAssumption
  <2> QED BY <2>3, <2>4
<1>6. /\ student' \in [Students -> StudentRow] /\ student'[s] = x /\ history'[s] = h
      /\ DOMAIN history' = Students
      /\ \A z \in Students \ {s} : student'[z] = student[z] /\ history'[z] = history[z]
  BY <1>1, <1>3, <1>4 DEF SchoolTypeOK, HistoriesInv
<1>7. /\ UNCHANGED <<schoolClass, section, subject, listTables, peopleTables, overlap>>
      /\ req'[r] = Idle /\ \A y \in Requests \ {r} : req'[y] = req[y]
  BY DEF UpdateStudentWrite, Ends, InFlightOK
<1>8. SchoolTypeOK'
  <2>1. \A z \in Students : history'[z] \in Seq(PlacementDto) /\ Len(history'[z]) <= MaxPlacements
    BY <1>5, <1>6 DEF SchoolTypeOK
  <2> QED BY <1>6, <1>7, <2>1 DEF SchoolTypeOK, listTables, peopleTables
<1>9. HistoryEndsHere'
  <2>1. overlap \/ \A z \in Students : Placed(z) => TellsUpTo(history[z], student[z].placement)
    BY HistoryTold DEF HistoriesInv
  <2>2. ASSUME ~overlap, NEW z \in Students, Placed(z)'
        PROVE  TellsUpTo(history'[z], student'[z].placement)
    <3>1. CASE z = s
      BY <1>4, <1>5, <1>6, <2>2, <3>1 DEF Placed
    <3>2. CASE z # s
      <4>1. Placed(z) /\ history'[z] = history[z] /\ student'[z] = student[z]
        BY <1>6, <2>2, <3>2 DEF Placed
      <4> QED BY <2>1, <2>2, <4>1
    <3> QED BY <3>1, <3>2
  <2> QED BY <1>7, <2>2 DEF HistoryEndsHere, TellsUpTo
<1>10. StillChanged'
  <2>1. req[r].op # "idle" /\ Idle.op = "idle"
    BY <1>3 DEF At, Idle
  <2>2. ~overlap => \A y \in Requests : req'[y].op = "idle"
    BY <1>7, <2>1 DEF InFlightOK, OneAtATime
  <2> QED BY <1>7, <2>2 DEF StillChanged, At
<1> QED BY <1>6, <1>8, <1>9, <1>10 DEF HistoriesInv

SchoolInv == SchoolTypeOK /\ FreshLists /\ HistoriesInv

LEMMA ListsKeepHistories ==
  ASSUME HistoriesInv, InFlightOK, SchoolListsControllers,
         UNCHANGED <<structureTables, peopleTables>>
  PROVE  HistoriesInv'
<1>1. \A r \in Requests : req'[r] = req[r] \/ req'[r].op # "UpdateStudent"
  <2>1. ASSUME NEW r \in Requests, UpdateYearCommit(r) \/ UpdateBranchCommit(r) \/ ProfileCreate(r)
        PROVE  \A x \in Requests : req'[x] = req[x] \/ req'[x].op # "UpdateStudent"
    BY <2>1 DEF UpdateYearCommit, UpdateBranchCommit, ProfileCreate, Ends, Idle, InFlightOK
  <2>2. ASSUME NEW r \in Requests,
               \/ ProfileRead(r)
               \/ \E y \in Years : UpdateYearDelete(r, y)
               \/ \E b \in Branches : UpdateBranchDelete(r, b)
        PROVE  \A x \in Requests : req'[x] = req[x] \/ req'[x].op # "UpdateStudent"
    BY <2>2 DEF ProfileRead, UpdateYearDelete, UpdateBranchDelete, Starts, InFlightOK
  <2>3. CASE \/ \E y \in Years : CreateYear(y) \/ RemoveYear(y)
             \/ \E b \in Branches : CreateBranch(b) \/ RemoveBranch(b)
    BY <2>3 DEF CreateYear, RemoveYear, CreateBranch, RemoveBranch, AtOnce
  <2> QED BY <2>1, <2>2, <2>3 DEF SchoolListsControllers
<1>2. UNCHANGED overlap
  BY DEF SchoolListsControllers, CreateYear, RemoveYear, CreateBranch, RemoveBranch, AtOnce,
         UpdateYearCommit, UpdateBranchCommit, ProfileCreate, Ends, ProfileRead, UpdateYearDelete,
         UpdateBranchDelete, Starts
<1> QED BY <1>1, <1>2, HistoriesElse DEF structureTables

LEMMA SchoolKeeps ==
  ASSUME SchoolInv, SchoolRequests, InFlightOK, SetupDesk \/ SchoolLists \/ PeopleDesk
  PROVE  SchoolInv'
<1>1. CASE SetupControllers \/ SubjectsController
  <2>1. UNCHANGED <<student, history, listTables, req, overlap>>
    BY <1>1 DEF SetupControllers, SubjectsController, CreateClass, RemoveClass, CreateSection,
                UpdateSection, RemoveSection, CreateSubject, UpdateSubject, RemoveSubject, AtOnce
  <2>2. HistoriesInv'
    BY <2>1, HistoriesElse DEF SchoolInv
  <2> QED BY <1>1, <2>1, <2>2, SetupTyped DEF SchoolInv, FreshLists, listTables
<1>2. CASE SchoolListsControllers
  BY <1>2, ListsTyped, ListsKeepHistories DEF SchoolInv
<1>3. CASE StudentsController \/ \E s \in Students : RemoveStudent(s)
  <2>1. SchoolTypeOK' /\ HistoriesInv'
    BY <1>3, CreateStudentKeeps, RemoveStudentKeeps, UpdateStudentReadKeeps, UpdateStudentWriteKeeps
       DEF StudentsController, StudentMoves, SchoolInv
  <2>2. UNCHANGED listTables
    BY <1>3 DEF StudentsController, StudentMoves, CreateStudent, RemoveStudent, UpdateStudentRead,
                UpdateStudentWrite, schoolTables
  <2> QED BY <2>1, <2>2 DEF SchoolInv, FreshLists, listTables
<1>4. CASE ParentsController \/ TeachersController
  <2>1. UNCHANGED <<req, overlap>>
    BY <1>4 DEF ParentsController, TeachersController, CreateParent, RemoveParent, LinkChild,
                UnlinkChild, CreateTeacher, RemoveTeacher, Assign, Unassign, AtOnce
  <2>2. SchoolTypeOK' /\ UNCHANGED <<structureTables, listTables>>
    BY <1>4, PeopleTyped DEF SchoolInv
  <2>3. HistoriesInv'
    BY <2>1, <2>2, HistoriesElse DEF SchoolInv, structureTables
  <2> QED BY <2>2, <2>3 DEF SchoolInv, FreshLists, listTables
<1>5. ASSUME NEW r \in Requests, SchoolDies(r) PROVE SchoolInv'
  <2>1. /\ UNCHANGED <<schoolTables, overlap>>
        /\ \A x \in Requests : req'[x] = req[x] \/ req'[x].op # "UpdateStudent"
    BY <1>5 DEF SchoolDies, Dies, Ends, Idle, InFlightOK
  <2>2. HistoriesInv'
    BY <2>1, HistoriesElse DEF SchoolInv, schoolTables, structureTables
  <2> QED BY <2>1, <2>2 DEF SchoolInv, SchoolTypeOK, FreshLists, schoolTables, structureTables,
                            listTables, peopleTables
<1>6. CASE \E y \in Years : CreateYear(y) \/ RemoveYear(y)
  BY <1>6, <1>2 DEF SchoolListsControllers
<1>7. CASE (\E k \in Classes : CreateClass(k)) \/ \E x \in Sections : CreateSection(x)
  BY <1>7, <1>1 DEF SetupControllers
<1> QED BY <1>1, <1>2, <1>3, <1>4, <1>5, <1>6, <1>7
        DEF SetupDesk, SchoolStructure, SchoolLists, PeopleDesk, SchoolPeople

LEMMA SchoolElsewhere ==
  ASSUME SchoolInv, UNCHANGED <<schoolTables, overlap>>,
         \A r \in Requests : req'[r] = req[r] \/ req'[r].op \notin SchoolOps
  PROVE  SchoolInv'
<1>1. UNCHANGED <<schoolClass, section, subject, student, history, year, branch, profile, link, parent,
                  teacher, assignment, overlap>>
  BY DEF schoolTables, structureTables, listTables, peopleTables
<1>2. \A r \in Requests : req'[r] = req[r] \/ req'[r].op # "UpdateStudent"
  BY DEF SchoolOps
<1>3. HistoriesInv'
  BY <1>1, <1>2, HistoriesElse DEF SchoolInv
<1> QED BY <1>1, <1>3 DEF SchoolInv, SchoolTypeOK, FreshLists

LEMMA SchoolInit == (EmptySchool \/ RunningSchool) /\ HandlersInit => SchoolInv
<1> SUFFICES ASSUME EmptySchool \/ RunningSchool, HandlersInit PROVE SchoolInv
  OBVIOUS
<1>1. StillChanged
  BY DEF HandlersInit, Idle, StillChanged, At
<1>2. CASE EmptySchool
  <2>1. \A h : h = <<>> => h \in Seq(PlacementDto) /\ Len(h) = 0
    OBVIOUS
  <2>2. \A s \in Students : history[s] \in Seq(PlacementDto) /\ Len(history[s]) <= MaxPlacements
    BY <1>2, <2>1, SchoolAssumption DEF EmptySchool
  <2>3. SchoolTypeOK
    <3>1. 0 \in 0..MaxReplaced
      BY SchoolAssumption
    <3>2. [status |-> "none", children |-> {}, writes |-> 0] \in WithChildren
      BY <3>1 DEF WithChildren, RowStatus
    <3>3. year \in [Years -> WithChildren] /\ branch \in [Branches -> WithChildren] /\ profile \in {0, 1}
      BY <1>2, <3>2 DEF EmptySchool, Lists
    <3> QED BY <1>2, <2>2, <3>3 DEF EmptySchool, SchoolTypeOK, RowStatus, SectionRow, SubjectRow,
                                    StudentRow, AssignmentRow
  <2>4. FreshLists /\ DOMAIN history = Students /\ HistoryEndsHere
    BY <1>2 DEF EmptySchool, Lists, FreshLists, HistoryEndsHere, Placed
  <2> QED BY <1>1, <2>3, <2>4 DEF SchoolInv, HistoriesInv
<1>3. CASE RunningSchool
  <2>1. student \in [Students -> StudentRow] /\ \A s \in Students : student[s].placement \in PlacementDto
    BY <1>3 DEF RunningSchool, StudentRow, RowStatus
  <2>2. \A s \in Students : /\ history[s] \in Seq(PlacementDto) /\ Len(history[s]) <= MaxPlacements
                            /\ TellsUpTo(history[s], student[s].placement)
    <3>1. \A pl \in PlacementDto : <<pl>> \in Seq(PlacementDto) /\ Len(<<pl>>) = 1 /\ TellsUpTo(<<pl>>, pl)
      BY FirstTold
    <3>2. 1 <= MaxPlacements
      BY SchoolAssumption
    <3>3. \A s \in Students : history[s] = <<student[s].placement>>
      BY <1>3 DEF RunningSchool
    <3>4. ASSUME NEW s \in Students
          PROVE  /\ history[s] \in Seq(PlacementDto) /\ Len(history[s]) <= MaxPlacements
                 /\ TellsUpTo(history[s], student[s].placement)
      <4>1. PICK pl \in PlacementDto : pl = student[s].placement
        BY <2>1
      <4> QED BY <3>1, <3>2, <3>3, <4>1
    <3> QED BY <3>4
  <2>3. SchoolTypeOK
    <3>1. 1 \in 0..MaxReplaced
      BY SchoolAssumption
    <3>2. [status |-> "kept", children |-> {}, writes |-> 1] \in WithChildren
      BY <3>1 DEF WithChildren, RowStatus
    <3>3. year \in [Years -> WithChildren] /\ branch \in [Branches -> WithChildren] /\ profile \in {0, 1}
      BY <1>3, <3>2 DEF RunningSchool
    <3>4. section \in [Sections -> SectionRow] /\ subject \in [Subjects -> SubjectRow]
      BY <1>3 DEF RunningSchool, SectionRow, SubjectRow, RowStatus
    <3>5. assignment \in [Assignments -> AssignmentRow]
      BY <1>3 DEF RunningSchool, AssignmentRow, RowStatus
    <3> QED BY <1>3, <2>1, <2>2, <3>3, <3>4, <3>5 DEF RunningSchool, SchoolTypeOK, RowStatus
  <2>4. FreshLists /\ DOMAIN history = Students
    BY <1>3 DEF RunningSchool, FreshLists
  <2> QED BY <1>1, <2>2, <2>3, <2>4, HistoryTold DEF SchoolInv, HistoriesInv
<1> QED BY <1>2, <1>3

\* What the requests about to replace the children of row k have seen.
Pending(op, k) == [r \in {x \in Requests : req[x].op = op /\ req[x].row = k} |-> req[r].seen]

\* A table whose rows k \in K have the children C[k], and are there where St[k]
\* is not "none".
TableApart(op, K, C, St) ==
  /\ \A k \in K : Apart(C[k], Pending(op, k), ~overlap)
  /\ \A r \in Requests : req[r].op = op => req[r].row \in K /\ St[req[r].row] # "none"

\* Children are deleted, and requests come that have seen those that are left.
LEMMA TableKeeps ==
  ASSUME NEW op, NEW K, NEW C, NEW St, TableApart(op, K, C, St), NEW C2, NEW St2,
         UNCHANGED overlap, \A k \in K : C2[k] \subseteq C[k],
         \A k \in K : St[k] # "none" => St2[k] # "none",
         \A r \in Requests :
           \/ req'[r] = req[r] \/ req'[r].op # op
           \/ req'[r].row \in K /\ St2[req'[r].row] # "none" /\ C2[req'[r].row] \subseteq req'[r].seen
  PROVE  TableApart(op, K, C2, St2)'
<1>1. ASSUME NEW k \in K PROVE Apart(C2[k], Pending(op, k)', ~overlap)
  <2>1. PICK S, S2 : S = Pending(op, k) /\ S2 = Pending(op, k)'
    OBVIOUS
  <2>2. /\ DOMAIN S = {x \in Requests : req[x].op = op /\ req[x].row = k}
        /\ \A r \in DOMAIN S : S[r] = req[r].seen
        /\ DOMAIN S2 = {x \in Requests : req'[x].op = op /\ req'[x].row = k}
        /\ \A r \in DOMAIN S2 : S2[r] = req'[r].seen
    BY <2>1 DEF Pending
  <2>3. \A r \in DOMAIN S2 : (r \in DOMAIN S /\ S2[r] = S[r]) \/ C2[k] \subseteq S2[r]
    BY <2>2
  <2>4. Apart(C[k], S, ~overlap)
    BY <2>1 DEF TableApart
  <2>5. Apart(C2[k], S2, ~overlap)
    BY <2>3, <2>4, ApartKeep
  <2> QED BY <2>1, <2>5
<1>2. \A r \in Requests : req'[r].op = op => req'[r].row \in K /\ St2[req'[r].row] # "none"
  BY DEF TableApart
<1> QED BY <1>1, <1>2 DEF TableApart

\* A request replaces what it has seen.
LEMMA TableCommit ==
  ASSUME InFlightOK, NEW op, op # "idle", NEW K, NEW C, NEW St, TableApart(op, K, C, St),
         NEW C2, NEW St2, NEW r \in Requests, req[r].op = op, Ends(r), NEW new,
         \A k \in K : C2[k] \subseteq IF k = req[r].row THEN (C[k] \ req[r].seen) \cup {new} ELSE C[k],
         \A k \in K : St[k] # "none" => St2[k] # "none"
  PROVE  TableApart(op, K, C2, St2)'
<1>1. req'[r] = Idle /\ Idle.op = "idle" /\ (\A x \in Requests \ {r} : req'[x] = req[x]) /\ UNCHANGED overlap
  BY DEF Ends, Idle, InFlightOK
<1>2. ASSUME NEW k \in K PROVE Apart(C2[k], Pending(op, k)', ~overlap)
  <2>1. PICK S, S2 : S = Pending(op, k) /\ S2 = Pending(op, k)'
    OBVIOUS
  <2>2. /\ DOMAIN S = {x \in Requests : req[x].op = op /\ req[x].row = k}
        /\ \A x \in DOMAIN S : S[x] = req[x].seen
        /\ DOMAIN S2 = {x \in Requests : req'[x].op = op /\ req'[x].row = k}
        /\ \A x \in DOMAIN S2 : S2[x] = req'[x].seen
    BY <2>1 DEF Pending
  <2>3. r \notin DOMAIN S2 /\ \A x \in DOMAIN S2 : x \in DOMAIN S /\ S2[x] = S[x]
    BY <1>1, <2>2
  <2>4. Apart(C[k], S, ~overlap)
    BY <2>1 DEF TableApart
  <2>5. CASE k = req[r].row
    <3>1. r \in DOMAIN S /\ S[r] = req[r].seen
      BY <2>2, <2>5
    <3>2. ~overlap => DOMAIN S2 = {}
      <4>1. ~overlap => \A x \in Requests : req'[x].op = "idle"
        BY <1>1 DEF InFlightOK, OneAtATime
      <4> QED BY <2>2, <4>1
    <3>3. C2[k] \in SUBSET ((C[k] \ S[r]) \cup {new})
      BY <2>5, <3>1
    <3>4. Apart(C2[k], S2, ~overlap)
      BY <2>3, <2>4, <3>1, <3>2, <3>3, ApartCommit
    <3> QED BY <2>1, <3>4
  <2>6. CASE k # req[r].row
    <3>1. C2[k] \in SUBSET C[k]
      BY <2>6
    <3>2. Apart(C2[k], S2, ~overlap)
      BY <2>3, <2>4, <3>1, ApartKeep
    <3> QED BY <2>1, <3>2
  <2> QED BY <2>5, <2>6
<1>3. \A x \in Requests : req'[x].op = op => req'[x].row \in K /\ St2[req'[x].row] # "none"
  BY <1>1 DEF TableApart
<1> QED BY <1>1, <1>2, <1>3 DEF TableApart

\* A row is inserted with its children.
LEMMA TableCreate ==
  ASSUME NEW op, NEW K, NEW C, NEW St, TableApart(op, K, C, St), NEW C2, NEW St2,
         UNCHANGED overlap, \A r \in Requests : req'[r] = req[r] \/ req'[r].op # op,
         NEW i, St[i] = "none", NEW new,
         \A k \in K : C2[k] \subseteq IF k = i THEN {new} ELSE C[k],
         \A k \in K : St[k] # "none" => St2[k] # "none"
  PROVE  TableApart(op, K, C2, St2)'
<1>1. ASSUME NEW k \in K PROVE Apart(C2[k], Pending(op, k)', ~overlap)
  <2>1. PICK S, S2 : S = Pending(op, k) /\ S2 = Pending(op, k)'
    OBVIOUS
  <2>2. /\ DOMAIN S = {x \in Requests : req[x].op = op /\ req[x].row = k}
        /\ \A x \in DOMAIN S : S[x] = req[x].seen
        /\ DOMAIN S2 = {x \in Requests : req'[x].op = op /\ req'[x].row = k}
        /\ \A x \in DOMAIN S2 : S2[x] = req'[x].seen
    BY <2>1 DEF Pending
  <2>3. \A x \in DOMAIN S2 : x \in DOMAIN S /\ S2[x] = S[x]
    BY <2>2
  <2>4. Apart(C[k], S, ~overlap)
    BY <2>1 DEF TableApart
  <2>5. CASE k = i
    <3>1. DOMAIN S2 = {}
      BY <2>2, <2>3, <2>5 DEF TableApart
    <3>2. C2[k] \in SUBSET {new}
      BY <2>5
    <3>3. Apart(C2[k], S2, ~overlap)
      BY <3>1, <3>2, ApartNew
    <3> QED BY <2>1, <3>3
  <2>6. CASE k # i
    <3>1. C2[k] \in SUBSET C[k]
      BY <2>6
    <3>2. Apart(C2[k], S2, ~overlap)
      BY <2>3, <2>4, <3>1, ApartKeep
    <3> QED BY <2>1, <3>2
  <2> QED BY <2>5, <2>6
<1>2. \A r \in Requests : req'[r].op = op => req'[r].row \in K /\ St2[req'[r].row] # "none"
  BY DEF TableApart
<1> QED BY <1>1, <1>2 DEF TableApart

LEMMA TableCard ==
  ASSUME NEW op, NEW K, NEW C, NEW St, TableApart(op, K, C, St), NEW k \in K
  PROVE  Cardinality(C[k]) <= AtOnceAtMost
<1>1. PICK S : S = Pending(op, k)
  OBVIOUS
<1>2. Apart(C[k], S, ~overlap)
  BY <1>1 DEF TableApart
<1> QED BY <1>2, ApartCard

LEMMA TableInit ==
  ASSUME NEW op, op # "idle", NEW K, NEW C, NEW St, HandlersInit, \A k \in K : C[k] = {}
  PROVE  TableApart(op, K, C, St)
<1>1. \A r \in Requests : req[r].op = "idle"
  BY DEF HandlersInit, Idle
<1>2. ASSUME NEW k \in K PROVE Apart(C[k], Pending(op, k), ~overlap)
  <2>1. PICK S, alone : S = Pending(op, k) /\ alone = ~overlap
    OBVIOUS
  <2>2. DOMAIN S = {}
    BY <1>1, <2>1 DEF Pending
  <2>3. Apart(C[k], S, alone)
    BY <2>2, ApartNew
  <2> QED BY <2>1, <2>3
<1> QED BY <1>1, <1>2 DEF TableApart

YearsApart ==
  TableApart("UpdateYear", Years, [y \in Years |-> year[y].children],
             [y \in Years |-> year[y].status])

LEMMA YearsApartRead ==
  ASSUME YearsApart, UNCHANGED overlap, NEW C2, NEW St2,
         C2 = [y \in Years |-> year'[y].children], St2 = [y \in Years |-> year'[y].status],
         \A y \in Years : year'[y].children \subseteq year[y].children,
         \A y \in Years : year[y].status # "none" => year'[y].status # "none",
         \A r \in Requests :
           \/ req'[r] = req[r] \/ req'[r].op # "UpdateYear"
           \/ /\ req'[r].row \in Years /\ year'[req'[r].row].status # "none"
              /\ year'[req'[r].row].children \subseteq req'[r].seen
  PROVE  YearsApart'
<1>1. PICK C, St : /\ C = [y \in Years |-> year[y].children]
                   /\ St = [y \in Years |-> year[y].status]
  OBVIOUS
<1>2. TableApart("UpdateYear", Years, C, St)
  BY <1>1 DEF YearsApart
<1>3. /\ \A k \in Years : C2[k] \subseteq C[k]
      /\ \A k \in Years : St[k] # "none" => St2[k] # "none"
      /\ \A r \in Requests :
           \/ req'[r] = req[r] \/ req'[r].op # "UpdateYear"
           \/ req'[r].row \in Years /\ St2[req'[r].row] # "none" /\ C2[req'[r].row] \subseteq req'[r].seen
  BY <1>1
<1>4. TableApart("UpdateYear", Years, C2, St2)'
  <2> HIDE <1>1
  <2> QED BY <1>2, <1>3, TableKeeps
<1> QED BY <1>4 DEF YearsApart

LEMMA YearsApartElse ==
  ASSUME YearsApart, UNCHANGED <<year, overlap>>,
         \A r \in Requests : req'[r] = req[r] \/ req'[r].op # "UpdateYear"
  PROVE  YearsApart'
<1>1. PICK C2, St2 : /\ C2 = [y \in Years |-> year'[y].children]
                     /\ St2 = [y \in Years |-> year'[y].status]
  OBVIOUS
<1> QED BY <1>1, YearsApartRead

LEMMA YearsApartCreate ==
  ASSUME SchoolInv, InFlightOK, YearsApart, NEW y \in Years, CreateYear(y)
  PROVE  YearsApart'
<1>1. PICK dto \in AcademicYearDto : year' = [year EXCEPT ![y] =
        [status |-> "kept", children |-> Children(year[y], dto.children), writes |-> 1]]
  BY DEF CreateYear
<1>2. PICK C, St : /\ C = [k \in Years |-> year[k].children]
                   /\ St = [k \in Years |-> year[k].status]
  OBVIOUS
<1>3. PICK C2, St2 : /\ C2 = [k \in Years |-> year'[k].children]
                     /\ St2 = [k \in Years |-> year'[k].status]
  OBVIOUS
<1>4. TableApart("UpdateYear", Years, C, St)
  BY <1>2 DEF YearsApart
<1>5. PICK new : new = year[y].writes + 1
  OBVIOUS
<1>6. /\ year'[y].children \subseteq {new} /\ year'[y].status = "kept"
      /\ \A k \in Years \ {y} : year'[k] = year[k]
  BY <1>1, <1>5 DEF SchoolInv, SchoolTypeOK, Children
<1>7. /\ \A k \in Years : C2[k] \subseteq IF k = y THEN {new} ELSE C[k]
      /\ \A k \in Years : St[k] # "none" => St2[k] # "none"
      /\ St[y] = "none" /\ UNCHANGED <<req, overlap>>
  BY <1>2, <1>3, <1>6 DEF CreateYear, AtOnce
<1>8. TableApart("UpdateYear", Years, C2, St2)'
  <2>1. \A r \in Requests : req'[r] = req[r] \/ req'[r].op # "UpdateYear"
    BY <1>7
  <2> QED BY <1>4, <1>7, <2>1, TableCreate
<1> QED BY <1>3, <1>8 DEF YearsApart

LEMMA YearsApartCommit ==
  ASSUME SchoolInv, SchoolRequests, InFlightOK, YearsApart, NEW r \in Requests, UpdateYearCommit(r)
  PROVE  YearsApart'
<1>1. PICK y \in Years : y = req[r].row
  BY SchoolReqOp DEF UpdateYearCommit, At, SchoolRequests, SchoolOps
<1>2. PICK C, St : /\ C = [k \in Years |-> year[k].children]
                   /\ St = [k \in Years |-> year[k].status]
  OBVIOUS
<1>3. PICK C2, St2 : /\ C2 = [k \in Years |-> year'[k].children]
                     /\ St2 = [k \in Years |-> year'[k].status]
  OBVIOUS
<1>4. TableApart("UpdateYear", Years, C, St)
  BY <1>2 DEF YearsApart
<1>5. PICK new, x : /\ new = year[y].writes + 1
                    /\ x = [year[y] EXCEPT !.children = Replaced(@, req[r].seen, Children(year[y], req[r].dto.children)),
                                           !.writes = @ + 1]
  OBVIOUS
<1>6. year' = [year EXCEPT ![y] = x] /\ req[r].op = "UpdateYear" /\ Ends(r)
  BY <1>1, <1>5 DEF UpdateYearCommit, At
<1>7. x.status = year[y].status /\ x.children \subseteq (year[y].children \ req[r].seen) \cup {new}
  <2>1. year[y] \in WithChildren
    BY DEF SchoolInv, SchoolTypeOK
  <2> QED BY <1>5, <2>1 DEF WithChildren, Replaced, Children
<1>8. year'[y] = x /\ \A k \in Years \ {y} : year'[k] = year[k]
  BY <1>6 DEF SchoolInv, SchoolTypeOK
<1>9. /\ \A k \in Years : C2[k] \subseteq IF k = req[r].row THEN (C[k] \ req[r].seen) \cup {new} ELSE C[k]
      /\ \A k \in Years : St[k] # "none" => St2[k] # "none"
  BY <1>1, <1>2, <1>3, <1>7, <1>8
<1>10. TableApart("UpdateYear", Years, C2, St2)'
  BY <1>4, <1>6, <1>9, TableCommit
<1> QED BY <1>3, <1>10 DEF YearsApart

LEMMA YearsApartMore ==
  ASSUME SchoolInv, InFlightOK, YearsApart, NEW y \in Years,
         RemoveYear(y) \/ \E r \in Requests : UpdateYearDelete(r, y)
  PROVE  YearsApart'
<1>1. PICK C2, St2 : /\ C2 = [k \in Years |-> year'[k].children]
                     /\ St2 = [k \in Years |-> year'[k].status]
  OBVIOUS
<1>2. CASE RemoveYear(y)
  <2>1. PICK x : x = [year[y] EXCEPT !.status = "deleted", !.children = {}]
    OBVIOUS
  <2>2. x.status = "deleted" /\ x.children = {}
    <3>1. year[y] \in WithChildren
      BY DEF SchoolInv, SchoolTypeOK
    <3> QED BY <2>1, <3>1 DEF WithChildren
  <2>3. year' = [year EXCEPT ![y] = x] /\ UNCHANGED <<req, overlap>>
    BY <1>2, <2>1 DEF RemoveYear, AtOnce
  <2>4. year'[y] = x /\ \A k \in Years \ {y} : year'[k] = year[k]
    BY <2>3 DEF SchoolInv, SchoolTypeOK
  <2>5. /\ \A k \in Years : year'[k].children \subseteq year[k].children
        /\ \A k \in Years : year[k].status # "none" => year'[k].status # "none"
    BY <2>2, <2>4
  <2> QED BY <1>1, <2>3, <2>5, YearsApartRead
<1>3. ASSUME NEW r \in Requests, UpdateYearDelete(r, y) PROVE YearsApart'
  <2>1. PICK q, dto : /\ q = [op |-> "UpdateYear", row |-> y, dto |-> dto, seen |-> year[y].children]
                      /\ Starts(r, q)
    BY <1>3 DEF UpdateYearDelete
  <2>2. q.row = y /\ q.seen = year[y].children
    BY <2>1
  <2>3. req'[r] = q /\ (\A x \in Requests \ {r} : req'[x] = req[x]) /\ UNCHANGED <<year, overlap>>
    BY <1>3, <2>1 DEF Starts, InFlightOK, UpdateYearDelete, schoolTables, listTables
  <2>4. year[y].status # "none"
    BY <1>3 DEF UpdateYearDelete
  <2>5. \A x \in Requests :
           \/ req'[x] = req[x] \/ req'[x].op # "UpdateYear"
           \/ /\ req'[x].row \in Years /\ year'[req'[x].row].status # "none"
              /\ year'[req'[x].row].children \subseteq req'[x].seen
    BY <2>2, <2>3, <2>4
  <2> QED BY <1>1, <2>3, <2>5, YearsApartRead
<1> QED BY <1>2, <1>3

LEMMA YearsApartKeep ==
  ASSUME SchoolInv, SchoolRequests, InFlightOK, YearsApart, SetupDesk \/ SchoolLists \/ PeopleDesk
  PROVE  YearsApart'
<1>1. ASSUME UNCHANGED <<year, overlap>>, \A r \in Requests : req'[r] = req[r] \/ req'[r].op # "UpdateYear"
      PROVE  YearsApart'
  BY <1>1, YearsApartElse
<1>2. CASE \/ SetupControllers \/ SubjectsController \/ ParentsController \/ TeachersController
           \/ \E s \in Students : CreateStudent(s) \/ RemoveStudent(s)
  <2>1. UNCHANGED <<year, req, overlap>>
    BY <1>2 DEF SetupControllers, SubjectsController, ParentsController, TeachersController,
         CreateClass, RemoveClass, CreateSection, UpdateSection, RemoveSection, CreateSubject,
         UpdateSubject, RemoveSubject, CreateParent, RemoveParent, LinkChild, UnlinkChild,
         CreateTeacher, RemoveTeacher, Assign, Unassign, CreateStudent, RemoveStudent, AtOnce, listTables
  <2> QED BY <1>1, <2>1
<1>3. CASE \E b \in Branches : CreateBranch(b) \/ RemoveBranch(b)
  BY <1>1, <1>3 DEF CreateBranch, RemoveBranch, AtOnce
<1>4. ASSUME NEW r \in Requests,
             \/ UpdateBranchCommit(r) \/ ProfileCreate(r) \/ UpdateStudentWrite(r) \/ SchoolDies(r)
      PROVE  YearsApart'
  <2>1. UNCHANGED year /\ Ends(r)
    BY <1>4 DEF UpdateBranchCommit, ProfileCreate, UpdateStudentWrite, SchoolDies, Dies, schoolTables, listTables
  <2> QED BY <1>1, <2>1 DEF Ends, Idle, InFlightOK
<1>5. ASSUME NEW r \in Requests,
             \/ ProfileRead(r) \/ \E b \in Branches : UpdateBranchDelete(r, b)
             \/ \E s \in Students : UpdateStudentRead(r, s)
      PROVE  YearsApart'
  <2>1. UNCHANGED year
    BY <1>5 DEF ProfileRead, UpdateBranchDelete, UpdateStudentRead, schoolTables, listTables
  <2>2. PICK q : Starts(r, q) /\ q.op # "UpdateYear"
    <3>1. CASE ProfileRead(r)
      BY <3>1 DEF ProfileRead
    <3>2. CASE \E b \in Branches : UpdateBranchDelete(r, b)
      <4>1. PICK b, dto : Starts(r, [op |-> "UpdateBranch", row |-> b, dto |-> dto,
                                     seen |-> branch[b].children])
        BY <3>2 DEF UpdateBranchDelete
      <4> QED BY <4>1
    <3>3. CASE \E s \in Students : UpdateStudentRead(r, s)
      <4>1. PICK s, pl : Starts(r, [op |-> "UpdateStudent", row |-> s, placement |-> pl,
                                    changed |-> pl # student[s].placement])
        BY <3>3 DEF UpdateStudentRead
      <4> QED BY <4>1
    <3> QED BY <1>5, <3>1, <3>2, <3>3
  <2> QED BY <1>1, <2>1, <2>2 DEF Starts, InFlightOK
<1>6. ASSUME \/ \E y \in Years : CreateYear(y) \/ RemoveYear(y) \/ \E r \in Requests : UpdateYearDelete(r, y)
             \/ \E r \in Requests : UpdateYearCommit(r)
      PROVE  YearsApart'
  BY <1>6, YearsApartCreate, YearsApartCommit, YearsApartMore
<1> QED BY <1>2, <1>3, <1>4, <1>5, <1>6
        DEF SetupDesk, SchoolStructure, SchoolLists, SchoolListsControllers, PeopleDesk, SchoolPeople,
            StudentsController, StudentMoves, SetupControllers

BranchesApart ==
  TableApart("UpdateBranch", Branches, [b \in Branches |-> branch[b].children],
             [b \in Branches |-> branch[b].status])

LEMMA BranchesApartRead ==
  ASSUME BranchesApart, UNCHANGED overlap, NEW C2, NEW St2,
         C2 = [b \in Branches |-> branch'[b].children], St2 = [b \in Branches |-> branch'[b].status],
         \A b \in Branches : branch'[b].children \subseteq branch[b].children,
         \A b \in Branches : branch[b].status # "none" => branch'[b].status # "none",
         \A r \in Requests :
           \/ req'[r] = req[r] \/ req'[r].op # "UpdateBranch"
           \/ /\ req'[r].row \in Branches /\ branch'[req'[r].row].status # "none"
              /\ branch'[req'[r].row].children \subseteq req'[r].seen
  PROVE  BranchesApart'
<1>1. PICK C, St : /\ C = [b \in Branches |-> branch[b].children]
                   /\ St = [b \in Branches |-> branch[b].status]
  OBVIOUS
<1>2. TableApart("UpdateBranch", Branches, C, St)
  BY <1>1 DEF BranchesApart
<1>3. /\ \A k \in Branches : C2[k] \subseteq C[k]
      /\ \A k \in Branches : St[k] # "none" => St2[k] # "none"
      /\ \A r \in Requests :
           \/ req'[r] = req[r] \/ req'[r].op # "UpdateBranch"
           \/ req'[r].row \in Branches /\ St2[req'[r].row] # "none" /\ C2[req'[r].row] \subseteq req'[r].seen
  BY <1>1
<1>4. TableApart("UpdateBranch", Branches, C2, St2)'
  <2> HIDE <1>1
  <2> QED BY <1>2, <1>3, TableKeeps
<1> QED BY <1>4 DEF BranchesApart

LEMMA BranchesApartElse ==
  ASSUME BranchesApart, UNCHANGED <<branch, overlap>>,
         \A r \in Requests : req'[r] = req[r] \/ req'[r].op # "UpdateBranch"
  PROVE  BranchesApart'
<1>1. PICK C2, St2 : /\ C2 = [b \in Branches |-> branch'[b].children]
                     /\ St2 = [b \in Branches |-> branch'[b].status]
  OBVIOUS
<1> QED BY <1>1, BranchesApartRead

LEMMA BranchesApartCreate ==
  ASSUME SchoolInv, InFlightOK, BranchesApart, NEW b \in Branches, CreateBranch(b)
  PROVE  BranchesApart'
<1>1. PICK dto \in BranchDto : branch' = [branch EXCEPT ![b] =
        [status |-> "kept", children |-> Children(branch[b], dto.children), writes |-> 1]]
  BY DEF CreateBranch
<1>2. PICK C, St : /\ C = [k \in Branches |-> branch[k].children]
                   /\ St = [k \in Branches |-> branch[k].status]
  OBVIOUS
<1>3. PICK C2, St2 : /\ C2 = [k \in Branches |-> branch'[k].children]
                     /\ St2 = [k \in Branches |-> branch'[k].status]
  OBVIOUS
<1>4. TableApart("UpdateBranch", Branches, C, St)
  BY <1>2 DEF BranchesApart
<1>5. PICK new : new = branch[b].writes + 1
  OBVIOUS
<1>6. /\ branch'[b].children \subseteq {new} /\ branch'[b].status = "kept"
      /\ \A k \in Branches \ {b} : branch'[k] = branch[k]
  BY <1>1, <1>5 DEF SchoolInv, SchoolTypeOK, Children
<1>7. /\ \A k \in Branches : C2[k] \subseteq IF k = b THEN {new} ELSE C[k]
      /\ \A k \in Branches : St[k] # "none" => St2[k] # "none"
      /\ St[b] = "none" /\ UNCHANGED <<req, overlap>>
  BY <1>2, <1>3, <1>6 DEF CreateBranch, AtOnce
<1>8. TableApart("UpdateBranch", Branches, C2, St2)'
  <2>1. \A r \in Requests : req'[r] = req[r] \/ req'[r].op # "UpdateBranch"
    BY <1>7
  <2> QED BY <1>4, <1>7, <2>1, TableCreate
<1> QED BY <1>3, <1>8 DEF BranchesApart

LEMMA BranchesApartCommit ==
  ASSUME SchoolInv, SchoolRequests, InFlightOK, BranchesApart, NEW r \in Requests, UpdateBranchCommit(r)
  PROVE  BranchesApart'
<1>1. PICK b \in Branches : b = req[r].row
  BY SchoolReqOp DEF UpdateBranchCommit, At, SchoolRequests, SchoolOps
<1>2. PICK C, St : /\ C = [k \in Branches |-> branch[k].children]
                   /\ St = [k \in Branches |-> branch[k].status]
  OBVIOUS
<1>3. PICK C2, St2 : /\ C2 = [k \in Branches |-> branch'[k].children]
                     /\ St2 = [k \in Branches |-> branch'[k].status]
  OBVIOUS
<1>4. TableApart("UpdateBranch", Branches, C, St)
  BY <1>2 DEF BranchesApart
<1>5. PICK new, x : /\ new = branch[b].writes + 1
                    /\ x = [branch[b] EXCEPT !.children = Replaced(@, req[r].seen, Children(branch[b], req[r].dto.children)),
                                           !.writes = @ + 1]
  OBVIOUS
<1>6. branch' = [branch EXCEPT ![b] = x] /\ req[r].op = "UpdateBranch" /\ Ends(r)
  BY <1>1, <1>5 DEF UpdateBranchCommit, At
<1>7. x.status = branch[b].status /\ x.children \subseteq (branch[b].children \ req[r].seen) \cup {new}
  <2>1. branch[b] \in WithChildren
    BY DEF SchoolInv, SchoolTypeOK
  <2> QED BY <1>5, <2>1 DEF WithChildren, Replaced, Children
<1>8. branch'[b] = x /\ \A k \in Branches \ {b} : branch'[k] = branch[k]
  BY <1>6 DEF SchoolInv, SchoolTypeOK
<1>9. /\ \A k \in Branches : C2[k] \subseteq IF k = req[r].row THEN (C[k] \ req[r].seen) \cup {new} ELSE C[k]
      /\ \A k \in Branches : St[k] # "none" => St2[k] # "none"
  BY <1>1, <1>2, <1>3, <1>7, <1>8
<1>10. TableApart("UpdateBranch", Branches, C2, St2)'
  BY <1>4, <1>6, <1>9, TableCommit
<1> QED BY <1>3, <1>10 DEF BranchesApart

LEMMA BranchesApartMore ==
  ASSUME SchoolInv, InFlightOK, BranchesApart, NEW b \in Branches,
         RemoveBranch(b) \/ \E r \in Requests : UpdateBranchDelete(r, b)
  PROVE  BranchesApart'
<1>1. PICK C2, St2 : /\ C2 = [k \in Branches |-> branch'[k].children]
                     /\ St2 = [k \in Branches |-> branch'[k].status]
  OBVIOUS
<1>2. CASE RemoveBranch(b)
  <2>1. PICK x : x = [branch[b] EXCEPT !.status = "deleted", !.children = {}]
    OBVIOUS
  <2>2. x.status = "deleted" /\ x.children = {}
    <3>1. branch[b] \in WithChildren
      BY DEF SchoolInv, SchoolTypeOK
    <3> QED BY <2>1, <3>1 DEF WithChildren
  <2>3. branch' = [branch EXCEPT ![b] = x] /\ UNCHANGED <<req, overlap>>
    BY <1>2, <2>1 DEF RemoveBranch, AtOnce
  <2>4. branch'[b] = x /\ \A k \in Branches \ {b} : branch'[k] = branch[k]
    BY <2>3 DEF SchoolInv, SchoolTypeOK
  <2>5. /\ \A k \in Branches : branch'[k].children \subseteq branch[k].children
        /\ \A k \in Branches : branch[k].status # "none" => branch'[k].status # "none"
    BY <2>2, <2>4
  <2> QED BY <1>1, <2>3, <2>5, BranchesApartRead
<1>3. ASSUME NEW r \in Requests, UpdateBranchDelete(r, b) PROVE BranchesApart'
  <2>1. PICK q, dto : /\ q = [op |-> "UpdateBranch", row |-> b, dto |-> dto, seen |-> branch[b].children]
                      /\ Starts(r, q)
    BY <1>3 DEF UpdateBranchDelete
  <2>2. q.row = b /\ q.seen = branch[b].children
    BY <2>1
  <2>3. req'[r] = q /\ (\A x \in Requests \ {r} : req'[x] = req[x]) /\ UNCHANGED <<branch, overlap>>
    BY <1>3, <2>1 DEF Starts, InFlightOK, UpdateBranchDelete, schoolTables, listTables
  <2>4. branch[b].status # "none"
    BY <1>3 DEF UpdateBranchDelete
  <2>5. \A x \in Requests :
           \/ req'[x] = req[x] \/ req'[x].op # "UpdateBranch"
           \/ /\ req'[x].row \in Branches /\ branch'[req'[x].row].status # "none"
              /\ branch'[req'[x].row].children \subseteq req'[x].seen
    BY <2>2, <2>3, <2>4
  <2> QED BY <1>1, <2>3, <2>5, BranchesApartRead
<1> QED BY <1>2, <1>3

LEMMA BranchesApartKeep ==
  ASSUME SchoolInv, SchoolRequests, InFlightOK, BranchesApart, SetupDesk \/ SchoolLists \/ PeopleDesk
  PROVE  BranchesApart'
<1>1. ASSUME UNCHANGED <<branch, overlap>>, \A r \in Requests : req'[r] = req[r] \/ req'[r].op # "UpdateBranch"
      PROVE  BranchesApart'
  BY <1>1, BranchesApartElse
<1>2. CASE \/ SetupControllers \/ SubjectsController \/ ParentsController \/ TeachersController
           \/ \E s \in Students : CreateStudent(s) \/ RemoveStudent(s)
  <2>1. UNCHANGED <<branch, req, overlap>>
    BY <1>2 DEF SetupControllers, SubjectsController, ParentsController, TeachersController,
         CreateClass, RemoveClass, CreateSection, UpdateSection, RemoveSection, CreateSubject,
         UpdateSubject, RemoveSubject, CreateParent, RemoveParent, LinkChild, UnlinkChild,
         CreateTeacher, RemoveTeacher, Assign, Unassign, CreateStudent, RemoveStudent, AtOnce, listTables
  <2> QED BY <1>1, <2>1
<1>3. CASE \E y \in Years : CreateYear(y) \/ RemoveYear(y)
  BY <1>1, <1>3 DEF CreateYear, RemoveYear, AtOnce
<1>4. ASSUME NEW r \in Requests,
             \/ UpdateYearCommit(r) \/ ProfileCreate(r) \/ UpdateStudentWrite(r) \/ SchoolDies(r)
      PROVE  BranchesApart'
  <2>1. UNCHANGED branch /\ Ends(r)
    BY <1>4 DEF UpdateYearCommit, ProfileCreate, UpdateStudentWrite, SchoolDies, Dies, schoolTables, listTables
  <2> QED BY <1>1, <2>1 DEF Ends, Idle, InFlightOK
<1>5. ASSUME NEW r \in Requests,
             \/ ProfileRead(r) \/ \E y \in Years : UpdateYearDelete(r, y)
             \/ \E s \in Students : UpdateStudentRead(r, s)
      PROVE  BranchesApart'
  <2>1. UNCHANGED branch
    BY <1>5 DEF ProfileRead, UpdateYearDelete, UpdateStudentRead, schoolTables, listTables
  <2>2. PICK q : Starts(r, q) /\ q.op # "UpdateBranch"
    <3>1. CASE ProfileRead(r)
      BY <3>1 DEF ProfileRead
    <3>2. CASE \E y \in Years : UpdateYearDelete(r, y)
      <4>1. PICK y, dto : Starts(r, [op |-> "UpdateYear", row |-> y, dto |-> dto,
                                     seen |-> year[y].children])
        BY <3>2 DEF UpdateYearDelete
      <4> QED BY <4>1
    <3>3. CASE \E s \in Students : UpdateStudentRead(r, s)
      <4>1. PICK s, pl : Starts(r, [op |-> "UpdateStudent", row |-> s, placement |-> pl,
                                    changed |-> pl # student[s].placement])
        BY <3>3 DEF UpdateStudentRead
      <4> QED BY <4>1
    <3> QED BY <1>5, <3>1, <3>2, <3>3
  <2> QED BY <1>1, <2>1, <2>2 DEF Starts, InFlightOK
<1>6. ASSUME \/ \E b \in Branches : CreateBranch(b) \/ RemoveBranch(b) \/ \E r \in Requests : UpdateBranchDelete(r, b)
             \/ \E r \in Requests : UpdateBranchCommit(r)
      PROVE  BranchesApart'
  BY <1>6, BranchesApartCreate, BranchesApartCommit, BranchesApartMore
<1> QED BY <1>2, <1>3, <1>4, <1>5, <1>6
        DEF SetupDesk, SchoolStructure, SchoolLists, SchoolListsControllers, PeopleDesk, SchoolPeople,
            StudentsController, StudentMoves, SetupControllers

-----------------------------------------------------------------------------
(* Inventory                                                                *)

Total(s) == FoldSeq(+, 0, s)

LEMMA TotalIsSum == ASSUME NEW s PROVE Total(s) = SumFunctionOnSet(s, DOMAIN s)
BY DEF Total, FoldSeq, FoldFunction, SumFunctionOnSet

LEMMA TotalOfNone == ASSUME NEW s, s = <<>> PROVE Total(s) = 0
<1>1. DOMAIN s = {}
  OBVIOUS
<1> QED BY <1>1, TotalIsSum, SumEmpty

LEMMA TotalGrows ==
  ASSUME NEW s \in Seq(Changes), NEW d \in Changes
  PROVE  Total(s) \in Int /\ Total(Append(s, d)) = Total(s) + d
<1>1. PICK n, t : n = Len(s) /\ t = Append(s, d)
  OBVIOUS
<1>2. n \in Nat /\ DOMAIN s = 1..n /\ DOMAIN t = 1..(n + 1) /\ t[n + 1] = d
      /\ (\A i \in 1..n : t[i] = s[i] /\ s[i] \in Int)
  <2>1. n \in Nat /\ DOMAIN s = 1..n /\ (\A i \in 1..n : s[i] \in Int)
    <3>1. n \in Nat /\ DOMAIN s = 1..n /\ (\A i \in 1..n : s[i] \in Changes)
      BY <1>1
    <3> QED BY <3>1, InventoryAssumption
  <2>2. Len(t) = n + 1 /\ t \in Seq(Changes) /\ t[n + 1] = d /\ (\A i \in 1..n : t[i] = s[i])
    BY <1>1
  <2> QED BY <2>1, <2>2
<1>3. PICK S : S = 1..n
  OBVIOUS
<1>4. IsFiniteSet(S) /\ n + 1 \notin S /\ S \cup {n + 1} = 1..(n + 1)
  <2>1. IsFiniteSet(1..n)
    BY <1>2, FS_Interval
  <2> QED BY <1>2, <1>3, <2>1
<1>5. SumFunctionOnSet(t, S \cup {n + 1}) = d + SumFunctionOnSet(t, S)
  <2>1. \A y \in S \cup {n + 1} : t[y] \in Int
    BY <1>2, <1>3, InventoryAssumption
  <2> QED BY <1>2, <1>4, <2>1, SumAdd
<1>6. SumFunctionOnSet(t, S) = SumFunctionOnSet(s, S)
  <2>1. \A i \in S : t[i] = s[i]
    BY <1>2, <1>3
  <2> QED BY <1>4, <2>1, SumSame
<1>7. SumFunctionOnSet(s, S) \in Int
  <2>1. \A i \in S : s[i] \in Int
    BY <1>2, <1>3
  <2> QED BY <1>4, <2>1, SumInt
<1>8. Total(s) = SumFunctionOnSet(s, S) /\ Total(t) = SumFunctionOnSet(t, S \cup {n + 1})
  BY <1>2, <1>3, <1>4, TotalIsSum
<1>9. d \in Int
  BY InventoryAssumption
<1> QED BY <1>1, <1>5, <1>6, <1>7, <1>8, <1>9

StoresReq ==
  [op : {"Movement"}, row : Items, change : Changes, quantity : Nat]
  \cup [op : {"UpdateAsset"}, row : Assets, dto : {dto \in AssetDto : DisposalDated(dto)},
        seen : SUBSET (1..MaxWrites)]

StoresRequests == \A r \in Requests : req[r].op \in StoresOps => req[r] \in StoresReq

LEMMA StoresReqOp ==
  ASSUME NEW q \in StoresReq
  PROVE  /\ q.op \in StoresOps /\ q.op # "idle"
         /\ q.op = "Movement" => q.row \in Items /\ q.change \in Changes /\ q.quantity \in Nat
         /\ q.op = "UpdateAsset" => /\ q.row \in Assets /\ q.dto \in AssetDto /\ DisposalDated(q.dto)
                                    /\ q.seen \in SUBSET (1..MaxWrites)
BY DEF StoresReq, StoresOps

LEMMA StoresSteps ==
  ASSUME InventoryTypeOK, DOMAIN req = Requests, StoresRequests, Moves(StoresOps),
         StockNext \/ AssetsNext
  PROVE  Steps(StoresReq)
<1>1. ASSUME \/ \E c \in Categories : CreateCategory(c) \/ DeleteCategory(c)
             \/ \E i \in Items : CreateItem(i) \/ UpdateItem(i) \/ RemoveItem(i)
             \/ \E a \in Assets : CreateAsset(a) \/ RemoveAsset(a)
      PROVE  Steps(StoresReq)
  BY <1>1, AtOnceSteps DEF CreateCategory, DeleteCategory, CreateItem, UpdateItem, RemoveItem,
                           CreateAsset, RemoveAsset
<1>2. ASSUME NEW r \in Requests, NEW i \in Items, MovementRead(r, i) PROVE Steps(StoresReq)
  <2>1. PICK d \in Changes :
          /\ item[i].quantity + d >= 0
          /\ Starts(r, [op |-> "Movement", row |-> i, change |-> d, quantity |-> item[i].quantity + d])
    BY <1>2 DEF MovementRead
  <2>2. item[i].quantity + d \in Nat
    BY <2>1, InventoryAssumption DEF InventoryTypeOK, ItemRow
  <2>3. PICK n \in Nat : n = item[i].quantity + d
    BY <2>2
  <2>4. PICK q \in StoresReq : q = [op |-> "Movement", row |-> i, change |-> d, quantity |-> n]
    BY DEF StoresReq
  <2> QED BY <2>1, <2>3, <2>4, StartSteps
<1>3. ASSUME NEW r \in Requests, NEW a \in Assets, UpdateAssetDelete(r, a) PROVE Steps(StoresReq)
  <2>1. PICK dto \in {dto \in AssetDto : DisposalDated(dto)} :
          Starts(r, [op |-> "UpdateAsset", row |-> a, dto |-> dto, seen |-> asset[a].records])
    BY <1>3 DEF UpdateAssetDelete
  <2>2. PICK seen \in SUBSET (1..MaxWrites) : seen = asset[a].records
    BY DEF InventoryTypeOK, AssetRow
  <2>3. PICK q \in StoresReq : q = [op |-> "UpdateAsset", row |-> a, dto |-> dto, seen |-> seen]
    BY DEF StoresReq
  <2> QED BY <2>1, <2>2, <2>3, StartSteps
<1>4. ASSUME NEW r \in Requests, MovementCommit(r) \/ UpdateAssetCommit(r) PROVE Steps(StoresReq)
  <2>1. req[r].op \in StoresOps /\ Ends(r)
    BY <1>4 DEF MovementCommit, UpdateAssetCommit, At, StoresOps
  <2> QED BY <2>1, EndSteps DEF StoresRequests
<1>5. ASSUME NEW r \in Requests, InventoryDies(r) PROVE Steps(StoresReq)
  BY <1>5, DiesSteps DEF InventoryDies, StoresRequests
<1> QED BY <1>1, <1>2, <1>3, <1>4, <1>5 DEF StockNext, AssetsNext, StockController, AssetsController

\* One movement at a time, what was worked out is still so at the write.
StillFits ==
  ~overlap => \A r \in Requests : At(r, "Movement") /\ item[req[r].row].status = "kept" =>
    req[r].quantity = item[req[r].row].quantity + req[r].change

StockInv ==
  /\ DOMAIN log = Items
  /\ \A i \in Items : /\ item[i].quantity >= 0
                      /\ item[i].status = "none" => log[i] = <<>>
  /\ ~overlap => \A i \in Items : item[i].status = "kept" =>
                   item[i].quantity = item[i].opening + Total(log[i])
  /\ StillFits

FreshAssets == \A a \in Assets : asset[a].status = "none" => asset[a].records = {} /\ asset[a].writes = 0

LEMMA StockMeans == StockInv => StockKept
BY DEF StockInv, StockKept, LogAddsUp, LoggedQuantity, Total

LEMMA StockElse ==
  ASSUME StockInv, UNCHANGED <<item, log, overlap>>,
         \A r \in Requests : req'[r] = req[r] \/ req'[r].op # "Movement"
  PROVE  StockInv'
BY DEF StockInv, StillFits, At

\* An item and its log are written together, and nobody waits to write.
LEMMA ItemStep ==
  ASSUME InventoryTypeOK, StockInv, NEW i \in Items, NEW x \in ItemRow, NEW h \in Seq(Changes),
         item' = [item EXCEPT ![i] = x], DOMAIN log' = Items, log'[i] = h,
         \A k \in Items \ {i} : log'[k] = log[k],
         x.quantity >= 0, x.status # "none", Len(h) <= MaxMoves,
         ~overlap /\ x.status = "kept" => x.quantity = x.opening + Total(h),
         UNCHANGED <<category, asset, overlap>>,
         ~overlap => \A r \in Requests : req'[r].op # "Movement"
  PROVE  InventoryTypeOK' /\ StockInv'
<1>1. item' \in [Items -> ItemRow] /\ item'[i] = x /\ \A k \in Items \ {i} : item'[k] = item[k]
  BY DEF InventoryTypeOK
<1>2. ASSUME NEW k \in Items PROVE log'[k] \in Seq(Changes) /\ Len(log'[k]) <= MaxMoves
  BY DEF InventoryTypeOK
<1>3. InventoryTypeOK'
  BY <1>1, <1>2 DEF InventoryTypeOK
<1>4. ASSUME NEW k \in Items
      PROVE  /\ item'[k].quantity >= 0
             /\ item'[k].status = "none" => log'[k] = <<>>
             /\ ~overlap /\ item'[k].status = "kept" =>
                  item'[k].quantity = item'[k].opening + Total(log'[k])
  <2>1. CASE k = i
    BY <1>1, <2>1
  <2>2. CASE k # i
    BY <1>1, <2>2 DEF StockInv
  <2> QED BY <2>1, <2>2
<1>5. StillFits'
  BY DEF StillFits, At
<1> QED BY <1>3, <1>4, <1>5 DEF StockInv

LEMMA CreateItemKeeps ==
  ASSUME InventoryTypeOK, StockInv, NEW i \in Items, CreateItem(i)
  PROVE  InventoryTypeOK' /\ StockInv'
<1>1. PICK dto \in StockItemDto :
        item' = [item EXCEPT ![i] = [status |-> "kept", quantity |-> dto.quantity, opening |-> dto.quantity]]
  BY DEF CreateItem
<1>2. PICK x, h : x = [status |-> "kept", quantity |-> dto.quantity, opening |-> dto.quantity] /\ h = <<>>
  OBVIOUS
<1>3. dto.quantity \in Nat
  BY InventoryAssumption DEF StockItemDto
<1>4. x \in ItemRow /\ x.quantity = dto.quantity /\ x.opening = dto.quantity /\ x.status = "kept"
  BY <1>2, <1>3 DEF ItemRow, RowStatus
<1>5. Total(h) = 0 /\ h \in Seq(Changes) /\ Len(h) = 0
  BY <1>2, TotalOfNone
<1>6. log[i] = h /\ UNCHANGED <<category, asset, log, req, overlap>>
  BY <1>2 DEF CreateItem, StockInv, AtOnce
<1>7. ~overlap => \A r \in Requests : req'[r].op # "Movement"
  BY <1>6 DEF CreateItem, AtOnce, MayStart
<1>8. x.quantity = x.opening + Total(h) /\ x.quantity >= 0 /\ Len(h) <= MaxMoves
  BY <1>3, <1>4, <1>5, InventoryAssumption
<1>9. DOMAIN log' = Items
  BY <1>6 DEF StockInv
<1> QED BY <1>1, <1>2, <1>4, <1>5, <1>6, <1>7, <1>8, <1>9, ItemStep

LEMMA RemoveItemKeeps ==
  ASSUME InventoryTypeOK, StockInv, NEW i \in Items, RemoveItem(i)
  PROVE  InventoryTypeOK' /\ StockInv'
<1>1. PICK x, h : x = [item[i] EXCEPT !.status = "deleted"] /\ h = <<>>
  OBVIOUS
<1>2. item[i] \in ItemRow /\ item[i].quantity >= 0
  BY DEF InventoryTypeOK, StockInv
<1>3. x \in ItemRow /\ x.quantity >= 0 /\ x.status = "deleted"
  BY <1>1, <1>2 DEF ItemRow, RowStatus
<1>4. h \in Seq(Changes) /\ Len(h) <= MaxMoves
  BY <1>1, InventoryAssumption
<1>5. /\ item' = [item EXCEPT ![i] = x] /\ log' = [log EXCEPT ![i] = h]
      /\ UNCHANGED <<category, asset, req, overlap>>
  BY <1>1 DEF RemoveItem, AtOnce
<1>6. DOMAIN log' = Items /\ log'[i] = h /\ \A k \in Items \ {i} : log'[k] = log[k]
  BY <1>5 DEF StockInv
<1>7. ~overlap => \A r \in Requests : req'[r].op # "Movement"
  BY <1>5 DEF RemoveItem, AtOnce, MayStart
<1> QED BY <1>3, <1>4, <1>5, <1>6, <1>7, ItemStep

LEMMA MovementCommitKeeps ==
  ASSUME InventoryTypeOK, StoresRequests, InFlightOK, StockInv, NEW r \in Requests, MovementCommit(r)
  PROVE  InventoryTypeOK' /\ StockInv'
<1>1. PICK i \in Items, d \in Changes, n \in Nat :
        i = req[r].row /\ d = req[r].change /\ n = req[r].quantity
  BY StoresReqOp DEF MovementCommit, At, StoresRequests, StoresOps
<1>2. PICK x, h : x = [item[i] EXCEPT !.quantity = n] /\ h = Append(log[i], d)
  OBVIOUS
<1>3. /\ item' = [item EXCEPT ![i] = x] /\ log' = [log EXCEPT ![i] = h]
      /\ item[i].status = "kept" /\ Len(log[i]) < MaxMoves /\ At(r, "Movement")
      /\ Ends(r) /\ UNCHANGED <<category, asset>>
  BY <1>1, <1>2 DEF MovementCommit
<1>4. item[i] \in ItemRow /\ log[i] \in Seq(Changes)
  BY DEF InventoryTypeOK
<1>5. x \in ItemRow /\ x.quantity = n /\ x.opening = item[i].opening /\ x.status = "kept" /\ x.quantity >= 0
  BY <1>2, <1>3, <1>4 DEF ItemRow
<1>6. h \in Seq(Changes) /\ Len(h) <= MaxMoves
  <2>1. h \in Seq(Changes) /\ Len(h) = Len(log[i]) + 1 /\ Len(log[i]) \in Nat
    BY <1>2, <1>4
  <2> QED BY <1>3, <2>1, InventoryAssumption
<1>7. Total(h) = Total(log[i]) + d /\ Total(log[i]) \in Int
  <2>1. PICK s \in Seq(Changes) : s = log[i]
    BY <1>4
  <2> QED BY <1>2, <2>1, TotalGrows
<1>8. ASSUME ~overlap PROVE x.quantity = x.opening + Total(h)
  <2>1. n = item[i].quantity + d
    BY <1>1, <1>3, <1>8 DEF StockInv, StillFits
  <2>2. item[i].quantity = item[i].opening + Total(log[i])
    BY <1>3, <1>8 DEF StockInv
  <2>3. item[i].opening \in Int /\ item[i].quantity \in Int /\ d \in Int
    BY <1>4, InventoryAssumption DEF ItemRow
  <2> QED BY <1>5, <1>7, <2>1, <2>2, <2>3
<1>9. DOMAIN log' = Items /\ log'[i] = h /\ \A k \in Items \ {i} : log'[k] = log[k]
  BY <1>3 DEF StockInv
<1>10. UNCHANGED overlap /\ (~overlap => \A y \in Requests : req'[y].op # "Movement")
  <2>1. UNCHANGED overlap /\ req'[r] = Idle /\ \A y \in Requests \ {r} : req'[y] = req[y]
    BY <1>3 DEF Ends, InFlightOK
  <2>2. req[r].op # "idle" /\ Idle.op = "idle"
    BY <1>3 DEF At, Idle
  <2>3. ~overlap => \A y \in Requests : req'[y].op = "idle"
    BY <2>1, <2>2 DEF InFlightOK, OneAtATime
  <2> QED BY <2>1, <2>3
<1> QED BY <1>3, <1>5, <1>6, <1>8, <1>9, <1>10, ItemStep

LEMMA MovementReadKeeps ==
  ASSUME InventoryTypeOK, InFlightOK, StockInv, NEW r \in Requests, NEW i \in Items, MovementRead(r, i)
  PROVE  InventoryTypeOK' /\ StockInv'
<1>1. UNCHANGED <<category, item, log, asset, overlap>>
  BY DEF MovementRead, Starts, inventoryTables
<1>2. PICK q, d : /\ q = [op |-> "Movement", row |-> i, change |-> d, quantity |-> item[i].quantity + d]
                  /\ Starts(r, q)
  BY DEF MovementRead
<1>3. q.op = "Movement" /\ q.row = i /\ q.change = d /\ q.quantity = item[i].quantity + d
  BY <1>2
<1>4. MayStart /\ req'[r] = q /\ \A x \in Requests \ {r} : req'[x] = req[x]
  BY <1>2 DEF Starts, InFlightOK
<1>5. StillFits'
  <2>1. ~overlap => \A x \in Requests \ {r} : req'[x].op = "idle"
    BY <1>4 DEF MayStart
  <2> QED BY <1>1, <1>3, <1>4, <2>1 DEF StillFits, At
<1> QED BY <1>1, <1>5 DEF StockInv, InventoryTypeOK

AssetsApart ==
  TableApart("UpdateAsset", Assets, [a \in Assets |-> asset[a].records],
             [a \in Assets |-> asset[a].status])

StoresInv == InventoryTypeOK /\ StockInv /\ FreshAssets /\ AssetsApart

LEMMA AssetsApartRead ==
  ASSUME AssetsApart, UNCHANGED overlap,
         \A a \in Assets : asset'[a].records \subseteq asset[a].records,
         \A a \in Assets : asset[a].status # "none" => asset'[a].status # "none",
         \A r \in Requests :
           \/ req'[r] = req[r] \/ req'[r].op # "UpdateAsset"
           \/ /\ req'[r].row \in Assets /\ asset'[req'[r].row].status # "none"
              /\ asset'[req'[r].row].records \subseteq req'[r].seen
  PROVE  AssetsApart'
<1>1. PICK C, St : /\ C = [a \in Assets |-> asset[a].records]
                   /\ St = [a \in Assets |-> asset[a].status]
  OBVIOUS
<1>2. PICK C2, St2 : /\ C2 = [a \in Assets |-> asset'[a].records]
                     /\ St2 = [a \in Assets |-> asset'[a].status]
  OBVIOUS
<1>3. TableApart("UpdateAsset", Assets, C, St)
  BY <1>1 DEF AssetsApart
<1>4. /\ \A k \in Assets : C2[k] \subseteq C[k]
      /\ \A k \in Assets : St[k] # "none" => St2[k] # "none"
      /\ \A r \in Requests :
           \/ req'[r] = req[r] \/ req'[r].op # "UpdateAsset"
           \/ req'[r].row \in Assets /\ St2[req'[r].row] # "none" /\ C2[req'[r].row] \subseteq req'[r].seen
  BY <1>1, <1>2
<1>5. TableApart("UpdateAsset", Assets, C2, St2)'
  BY <1>3, <1>4, TableKeeps
<1> QED BY <1>2, <1>5 DEF AssetsApart

LEMMA AssetsApartElse ==
  ASSUME AssetsApart, UNCHANGED <<asset, overlap>>,
         \A r \in Requests : req'[r] = req[r] \/ req'[r].op # "UpdateAsset"
  PROVE  AssetsApart'
BY AssetsApartRead

\* One asset is written.
LEMMA AssetTyped ==
  ASSUME InventoryTypeOK, FreshAssets, NEW a \in Assets, NEW x \in AssetRow,
         asset' = [asset EXCEPT ![a] = x], x.status # "none", x.state = "disposed" => x.disposalDate,
         UNCHANGED <<category, item, log>>
  PROVE  /\ InventoryTypeOK' /\ FreshAssets'
         /\ asset'[a] = x /\ \A k \in Assets \ {a} : asset'[k] = asset[k]
BY DEF InventoryTypeOK, FreshAssets

LEMMA SubmittedTyped ==
  ASSUME InventoryTypeOK, NEW a \in Assets, asset[a].writes < MaxWrites, NEW dto, NEW seen
  PROVE  /\ Submitted(a, dto) \in SUBSET (1..MaxWrites)
         /\ Replaced(asset[a].records, seen, Submitted(a, dto)) \in SUBSET (1..MaxWrites)
         /\ asset[a].writes + 1 \in 0..MaxWrites
<1>1. asset[a].writes \in 0..MaxWrites /\ asset[a].records \in SUBSET (1..MaxWrites)
  BY DEF InventoryTypeOK, AssetRow
<1>2. asset[a].writes + 1 \in 1..MaxWrites /\ asset[a].writes + 1 \in 0..MaxWrites
  BY <1>1, InventoryAssumption
<1> QED BY <1>1, <1>2 DEF Submitted, Replaced

LEMMA CreateAssetKeeps ==
  ASSUME InventoryTypeOK, FreshAssets, AssetsApart, NEW a \in Assets, CreateAsset(a)
  PROVE  InventoryTypeOK' /\ FreshAssets' /\ AssetsApart'
<1>1. PICK dto \in AssetDto :
        /\ DisposalDated(dto)
        /\ asset' = [asset EXCEPT ![a] = [status |-> "kept", state |-> dto.state,
             disposalDate |-> dto.disposalDate, records |-> Submitted(a, dto), writes |-> 1]]
  BY DEF CreateAsset
<1>2. PICK sub : sub = Submitted(a, dto)
  OBVIOUS
<1>3. PICK x : x = [status |-> "kept", state |-> dto.state, disposalDate |-> dto.disposalDate,
                    records |-> sub, writes |-> 1]
  OBVIOUS
<1>4. asset[a].status = "none" /\ UNCHANGED <<category, item, log, req, overlap>>
  BY DEF CreateAsset, AtOnce
<1>5. asset[a].writes = 0 /\ asset[a].records = {} /\ asset[a].writes < MaxWrites /\ 1 \in 0..MaxWrites
  BY <1>4, InventoryAssumption DEF FreshAssets
<1>6. sub \in SUBSET (1..MaxWrites) /\ sub \subseteq {1}
  <2>1. sub \in SUBSET (1..MaxWrites)
    BY <1>2, <1>5, SubmittedTyped
  <2> QED BY <1>2, <1>5, <2>1 DEF Submitted
<1>7. x \in AssetRow /\ x.status = "kept" /\ x.records = sub /\ (x.state = "disposed" => x.disposalDate)
  BY <1>1, <1>3, <1>5, <1>6 DEF AssetRow, AssetDto, RowStatus, DisposalDated
<1>8. /\ InventoryTypeOK' /\ FreshAssets'
      /\ asset'[a] = x /\ \A k \in Assets \ {a} : asset'[k] = asset[k]
  <2>1. asset' = [asset EXCEPT ![a] = x]
    BY <1>1, <1>2, <1>3
  <2> QED BY <1>4, <1>7, <2>1, AssetTyped
<1>9. AssetsApart'
  <2>1. PICK C, St : /\ C = [k \in Assets |-> asset[k].records]
                     /\ St = [k \in Assets |-> asset[k].status]
    OBVIOUS
  <2>2. PICK C2, St2 : /\ C2 = [k \in Assets |-> asset'[k].records]
                       /\ St2 = [k \in Assets |-> asset'[k].status]
    OBVIOUS
  <2>3. TableApart("UpdateAsset", Assets, C, St)
    BY <2>1 DEF AssetsApart
  <2>4. /\ \A k \in Assets : C2[k] \subseteq IF k = a THEN {1} ELSE C[k]
        /\ \A k \in Assets : St[k] # "none" => St2[k] # "none"
        /\ St[a] = "none" /\ \A r \in Requests : req'[r] = req[r] \/ req'[r].op # "UpdateAsset"
    BY <1>4, <1>6, <1>7, <1>8, <2>1, <2>2
  <2>5. TableApart("UpdateAsset", Assets, C2, St2)'
    BY <1>4, <2>3, <2>4, TableCreate
  <2> QED BY <2>2, <2>5 DEF AssetsApart
<1> QED BY <1>8, <1>9

LEMMA UpdateAssetCommitKeeps ==
  ASSUME InventoryTypeOK, FreshAssets, AssetsApart, StoresRequests, InFlightOK,
         NEW r \in Requests, UpdateAssetCommit(r)
  PROVE  InventoryTypeOK' /\ FreshAssets' /\ AssetsApart'
<1>1. PICK a \in Assets, dto \in AssetDto, seen \in SUBSET (1..MaxWrites) :
        a = req[r].row /\ dto = req[r].dto /\ seen = req[r].seen /\ DisposalDated(dto)
  BY StoresReqOp DEF UpdateAssetCommit, At, StoresRequests, StoresOps
<1>2. PICK rep, n : rep = Replaced(asset[a].records, seen, Submitted(a, dto)) /\ n = asset[a].writes + 1
  OBVIOUS
<1>3. PICK x : x = [status |-> "kept", state |-> dto.state, disposalDate |-> dto.disposalDate,
                    records |-> rep, writes |-> n]
  OBVIOUS
<1>4. /\ asset' = [asset EXCEPT ![a] = x] /\ asset[a].writes < MaxWrites /\ req[r].op = "UpdateAsset"
      /\ Ends(r) /\ UNCHANGED <<category, item, log>>
  BY <1>1, <1>2, <1>3 DEF UpdateAssetCommit, At
<1>5. rep \in SUBSET (1..MaxWrites) /\ n \in 0..MaxWrites
  BY <1>2, <1>4, SubmittedTyped
<1>6. rep \subseteq (asset[a].records \ seen) \cup {n}
  BY <1>2 DEF Replaced, Submitted
<1>7. x \in AssetRow /\ x.status = "kept" /\ x.records = rep
  BY <1>3, <1>5 DEF AssetRow, AssetDto, RowStatus
<1>8. x.state = "disposed" => x.disposalDate
  BY <1>1, <1>3 DEF DisposalDated
<1>9. /\ InventoryTypeOK' /\ FreshAssets'
      /\ asset'[a] = x /\ \A k \in Assets \ {a} : asset'[k] = asset[k]
  BY <1>4, <1>7, <1>8, AssetTyped
<1>10. AssetsApart'
  <2>1. PICK C, St : /\ C = [k \in Assets |-> asset[k].records]
                     /\ St = [k \in Assets |-> asset[k].status]
    OBVIOUS
  <2>2. PICK C2, St2 : /\ C2 = [k \in Assets |-> asset'[k].records]
                       /\ St2 = [k \in Assets |-> asset'[k].status]
    OBVIOUS
  <2>3. TableApart("UpdateAsset", Assets, C, St)
    BY <2>1 DEF AssetsApart
  <2>4. /\ \A k \in Assets : C2[k] \subseteq IF k = req[r].row THEN (C[k] \ req[r].seen) \cup {n} ELSE C[k]
        /\ \A k \in Assets : St[k] # "none" => St2[k] # "none"
    BY <1>1, <1>6, <1>7, <1>9, <2>1, <2>2
  <2>5. TableApart("UpdateAsset", Assets, C2, St2)'
    BY <1>4, <2>3, <2>4, TableCommit
  <2> QED BY <2>2, <2>5 DEF AssetsApart
<1> QED BY <1>9, <1>10

LEMMA AssetMoreKeeps ==
  ASSUME InventoryTypeOK, FreshAssets, AssetsApart, InFlightOK, NEW a \in Assets,
         RemoveAsset(a) \/ \E r \in Requests : UpdateAssetDelete(r, a)
  PROVE  InventoryTypeOK' /\ FreshAssets' /\ AssetsApart'
<1>1. CASE RemoveAsset(a)
  <2>1. PICK x : x = [asset[a] EXCEPT !.status = "deleted", !.records = {}]
    OBVIOUS
  <2>2. asset[a] \in AssetRow /\ (asset[a].state = "disposed" => asset[a].disposalDate)
    BY DEF InventoryTypeOK
  <2>3. /\ x \in AssetRow /\ x.status = "deleted" /\ x.records = {}
        /\ x.state = "disposed" => x.disposalDate
    BY <2>1, <2>2 DEF AssetRow, RowStatus
  <2>4. asset' = [asset EXCEPT ![a] = x] /\ UNCHANGED <<category, item, log, req, overlap>>
    BY <1>1, <2>1 DEF RemoveAsset, AtOnce
  <2>5. /\ InventoryTypeOK' /\ FreshAssets'
        /\ asset'[a] = x /\ \A k \in Assets \ {a} : asset'[k] = asset[k]
    BY <2>3, <2>4, AssetTyped
  <2>6. AssetsApart'
    <3>1. /\ \A k \in Assets : asset'[k].records \subseteq asset[k].records
          /\ \A k \in Assets : asset[k].status # "none" => asset'[k].status # "none"
      BY <2>3, <2>5
    <3> QED BY <2>4, <3>1, AssetsApartRead
  <2> QED BY <2>5, <2>6
<1>2. ASSUME NEW r \in Requests, UpdateAssetDelete(r, a)
      PROVE  InventoryTypeOK' /\ FreshAssets' /\ AssetsApart'
  <2>1. PICK q, dto : /\ q = [op |-> "UpdateAsset", row |-> a, dto |-> dto, seen |-> asset[a].records]
                      /\ Starts(r, q)
    BY <1>2 DEF UpdateAssetDelete
  <2>2. q.row = a /\ q.seen = asset[a].records
    BY <2>1
  <2>3. /\ req'[r] = q /\ (\A x \in Requests \ {r} : req'[x] = req[x])
        /\ UNCHANGED <<category, item, log, asset, overlap>>
    BY <1>2, <2>1 DEF Starts, InFlightOK, UpdateAssetDelete, inventoryTables
  <2>4. asset[a].status # "none"
    BY <1>2 DEF UpdateAssetDelete
  <2>5. \A x \in Requests :
           \/ req'[x] = req[x] \/ req'[x].op # "UpdateAsset"
           \/ /\ req'[x].row \in Assets /\ asset'[req'[x].row].status # "none"
              /\ asset'[req'[x].row].records \subseteq req'[x].seen
    BY <2>2, <2>3, <2>4
  <2>6. AssetsApart'
    BY <2>3, <2>5, AssetsApartRead
  <2> QED BY <2>3, <2>6 DEF InventoryTypeOK, FreshAssets
<1> QED BY <1>1, <1>2

LEMMA StoresKeeps ==
  ASSUME StoresInv, StoresRequests, InFlightOK, StockNext \/ AssetsNext
  PROVE  StoresInv'
<1>1. ASSUME UNCHANGED <<asset, overlap>>, InventoryTypeOK', StockInv',
             \A r \in Requests : req'[r] = req[r] \/ req'[r].op # "UpdateAsset"
      PROVE  StoresInv'
  BY <1>1, AssetsApartElse DEF StoresInv, FreshAssets
<1>2. ASSUME UNCHANGED <<item, log, overlap>>, InventoryTypeOK', FreshAssets', AssetsApart',
             \A r \in Requests : req'[r] = req[r] \/ req'[r].op # "Movement"
      PROVE  StoresInv'
  BY <1>2, StockElse DEF StoresInv
<1>3. CASE \E c \in Categories : CreateCategory(c) \/ DeleteCategory(c)
  <2>1. UNCHANGED <<item, log, asset, req, overlap>> /\ category' \in [Categories -> RowStatus]
    BY <1>3 DEF CreateCategory, DeleteCategory, AtOnce, StoresInv, InventoryTypeOK, RowStatus
  <2>2. InventoryTypeOK' /\ StockInv'
    BY <2>1, StockElse DEF StoresInv, InventoryTypeOK
  <2> QED BY <1>1, <2>1, <2>2
<1>4. ASSUME NEW i \in Items, CreateItem(i) \/ RemoveItem(i) PROVE StoresInv'
  <2>1. InventoryTypeOK' /\ StockInv'
    BY <1>4, CreateItemKeeps, RemoveItemKeeps DEF StoresInv
  <2>2. UNCHANGED <<asset, req, overlap>>
    BY <1>4 DEF CreateItem, RemoveItem, AtOnce
  <2> QED BY <1>1, <2>1, <2>2
<1>5. ASSUME NEW i \in Items, UpdateItem(i) PROVE StoresInv'
  <2>1. UNCHANGED <<category, item, log, asset, req, overlap>>
    BY <1>5 DEF UpdateItem, AtOnce, inventoryTables
  <2>2. InventoryTypeOK' /\ StockInv'
    BY <2>1, StockElse DEF StoresInv, InventoryTypeOK
  <2> QED BY <1>1, <2>1, <2>2
<1>6. ASSUME NEW r \in Requests, MovementCommit(r) PROVE StoresInv'
  <2>1. InventoryTypeOK' /\ StockInv'
    BY <1>6, MovementCommitKeeps DEF StoresInv
  <2>2. UNCHANGED <<asset, overlap>> /\ \A x \in Requests : req'[x] = req[x] \/ req'[x].op # "UpdateAsset"
    BY <1>6 DEF MovementCommit, Ends, Idle, InFlightOK
  <2> QED BY <1>1, <2>1, <2>2
<1>7. ASSUME NEW r \in Requests, NEW i \in Items, MovementRead(r, i) PROVE StoresInv'
  <2>1. InventoryTypeOK' /\ StockInv'
    BY <1>7, MovementReadKeeps DEF StoresInv
  <2>2. PICK d : Starts(r, [op |-> "Movement", row |-> i, change |-> d, quantity |-> item[i].quantity + d])
    BY <1>7 DEF MovementRead
  <2>3. \A x \in Requests : req'[x] = req[x] \/ req'[x].op # "UpdateAsset"
    BY <2>2 DEF Starts, InFlightOK
  <2>4. UNCHANGED <<asset, overlap>>
    BY <1>7, <2>2 DEF MovementRead, inventoryTables, Starts
  <2> QED BY <1>1, <2>1, <2>3, <2>4
<1>8. ASSUME NEW a \in Assets, CreateAsset(a) \/ RemoveAsset(a) PROVE StoresInv'
  <2>1. InventoryTypeOK' /\ FreshAssets' /\ AssetsApart'
    BY <1>8, CreateAssetKeeps, AssetMoreKeeps DEF StoresInv
  <2>2. UNCHANGED <<item, log, req, overlap>>
    BY <1>8 DEF CreateAsset, RemoveAsset, AtOnce
  <2> QED BY <1>2, <2>1, <2>2
<1>9. ASSUME NEW r \in Requests, NEW a \in Assets, UpdateAssetDelete(r, a) PROVE StoresInv'
  <2>1. InventoryTypeOK' /\ FreshAssets' /\ AssetsApart'
    BY <1>9, AssetMoreKeeps DEF StoresInv
  <2>2. PICK dto : Starts(r, [op |-> "UpdateAsset", row |-> a, dto |-> dto, seen |-> asset[a].records])
    BY <1>9 DEF UpdateAssetDelete
  <2>3. \A x \in Requests : req'[x] = req[x] \/ req'[x].op # "Movement"
    BY <2>2 DEF Starts, InFlightOK
  <2>4. UNCHANGED <<item, log, overlap>>
    BY <1>9, <2>2 DEF UpdateAssetDelete, inventoryTables, Starts
  <2> QED BY <1>2, <2>1, <2>3, <2>4
<1>10. ASSUME NEW r \in Requests, UpdateAssetCommit(r) PROVE StoresInv'
  <2>1. InventoryTypeOK' /\ FreshAssets' /\ AssetsApart'
    BY <1>10, UpdateAssetCommitKeeps DEF StoresInv
  <2>2. UNCHANGED <<item, log, overlap>> /\ \A x \in Requests : req'[x] = req[x] \/ req'[x].op # "Movement"
    BY <1>10 DEF UpdateAssetCommit, Ends, Idle, InFlightOK
  <2> QED BY <1>2, <2>1, <2>2
<1>11. ASSUME NEW r \in Requests, InventoryDies(r) PROVE StoresInv'
  <2>1. UNCHANGED <<category, item, log, asset, overlap>>
    BY <1>11 DEF InventoryDies, Dies, Ends, inventoryTables
  <2>2. \A x \in Requests : req'[x] = req[x] \/ req'[x].op = "idle"
    BY <1>11 DEF InventoryDies, Dies, Ends, Idle, InFlightOK
  <2>3. InventoryTypeOK' /\ StockInv'
    BY <2>1, <2>2, StockElse DEF StoresInv, InventoryTypeOK
  <2>4. \A x \in Requests : req'[x] = req[x] \/ req'[x].op # "UpdateAsset"
    BY <2>2
  <2> QED BY <1>1, <2>1, <2>3, <2>4
<1> QED BY <1>3, <1>4, <1>5, <1>6, <1>7, <1>8, <1>9, <1>10, <1>11
        DEF StockNext, AssetsNext, StockController, AssetsController

LEMMA StoresElsewhere ==
  ASSUME StoresInv, UNCHANGED <<inventoryTables, overlap>>,
         \A r \in Requests : req'[r] = req[r] \/ req'[r].op \notin StoresOps
  PROVE  StoresInv'
<1>1. UNCHANGED <<category, item, log, asset, overlap>>
  BY DEF inventoryTables
<1>2. /\ \A r \in Requests : req'[r] = req[r] \/ req'[r].op # "UpdateAsset"
      /\ \A r \in Requests : req'[r] = req[r] \/ req'[r].op # "Movement"
  BY DEF StoresOps
<1>3. AssetsApart' /\ StockInv'
  BY <1>1, <1>2, AssetsApartElse, StockElse DEF StoresInv
<1> QED BY <1>1, <1>3 DEF StoresInv, InventoryTypeOK, FreshAssets

LEMMA StoresInitOK == InventoryInit /\ HandlersInit => StoresInv
<1> SUFFICES ASSUME InventoryInit, HandlersInit PROVE StoresInv
  OBVIOUS
<1>1. \A r \in Requests : req[r].op = "idle"
  BY DEF HandlersInit, Idle
<1>2. StillFits
  BY <1>1 DEF StillFits, At
<1>3. \A h : h = <<>> => h \in Seq(Changes) /\ Len(h) = 0
  OBVIOUS
<1>4. DOMAIN log = Items /\ \A i \in Items : log[i] = <<>> /\ item[i].status = "none" /\ item[i].quantity = 0
  BY DEF InventoryInit
<1>5. StockInv
  BY <1>2, <1>4 DEF StockInv
<1>6. InventoryTypeOK
  <2>1. \A i \in Items : log[i] \in Seq(Changes) /\ Len(log[i]) <= MaxMoves
    BY <1>3, <1>4, InventoryAssumption
  <2>2. 0 \in 0..MaxWrites
    BY InventoryAssumption
  <2> QED BY <2>1, <2>2 DEF InventoryInit, InventoryTypeOK, ItemRow, AssetRow, AssetStatuses, RowStatus
<1>7. FreshAssets
  BY DEF InventoryInit, FreshAssets
<1>8. AssetsApart
  <2>1. PICK C, St : /\ C = [k \in Assets |-> asset[k].records]
                     /\ St = [k \in Assets |-> asset[k].status]
    OBVIOUS
  <2>2. \A k \in Assets : C[k] = {}
    BY <2>1 DEF InventoryInit
  <2>3. TableApart("UpdateAsset", Assets, C, St)
    BY <2>2, TableInit
  <2> QED BY <2>1, <2>3 DEF AssetsApart
<1> QED BY <1>5, <1>6, <1>7, <1>8 DEF StoresInv

-----------------------------------------------------------------------------
(* Transport                                                                *)

FleetReq ==
  [op : {"UpdateVehicle"}, row : Vehicles, dto : VehicleDto, seen : SUBSET Submissions]
  \cup [op : {"RemoveVehicle"}, row : Vehicles]
  \cup [op : {"CreateRoute", "UpdateRouteDelete"}, row : Routes, dto : RouteDto]
  \cup [op : {"UpdateRoute"}, row : Routes, dto : RouteDto, seen : SUBSET Submissions]

FleetRequests == \A r \in Requests : req[r].op \in FleetOps => req[r] \in FleetReq

LEMMA FleetReqOp ==
  ASSUME NEW q \in FleetReq
  PROVE  /\ q.op \in FleetOps /\ q.op # "idle"
         /\ q.op = "UpdateVehicle" => /\ q.row \in Vehicles /\ q.dto \in VehicleDto
                                      /\ q.seen \in SUBSET Submissions
         /\ q.op = "RemoveVehicle" => q.row \in Vehicles
         /\ q.op \in {"CreateRoute", "UpdateRouteDelete"} => q.row \in Routes /\ q.dto \in RouteDto
         /\ q.op = "UpdateRoute" => /\ q.row \in Routes /\ q.dto \in RouteDto
                                    /\ q.seen \in SUBSET Submissions
BY DEF FleetReq, FleetOps

LEMMA FleetSteps ==
  ASSUME TransportTypeOK, DOMAIN req = Requests, FleetRequests, Moves(FleetOps), TransportNext
  PROVE  Steps(FleetReq)
<1>1. ASSUME \/ \E v \in Vehicles : CreateVehicle(v)
             \/ \E t \in Routes : RemoveRoute(t)
             \/ \E f \in FeeStructures : CreateFeeStructure(f) \/ RemoveFeeStructure(f)
      PROVE  Steps(FleetReq)
  BY <1>1, AtOnceSteps DEF CreateVehicle, RemoveRoute, CreateFeeStructure, RemoveFeeStructure
<1>2. ASSUME NEW r \in Requests, NEW v \in Vehicles, UpdateVehicleDelete(r, v) PROVE Steps(FleetReq)
  <2>1. PICK dto \in VehicleDto :
          Starts(r, [op |-> "UpdateVehicle", row |-> v, dto |-> dto, seen |-> vehicle[v].records])
    BY <1>2 DEF UpdateVehicleDelete
  <2>2. PICK seen \in SUBSET Submissions : seen = vehicle[v].records
    BY DEF TransportTypeOK, VehicleRow
  <2>3. PICK q \in FleetReq : q = [op |-> "UpdateVehicle", row |-> v, dto |-> dto, seen |-> seen]
    BY DEF FleetReq
  <2> QED BY <2>1, <2>2, <2>3, StartSteps
<1>3. ASSUME NEW r \in Requests, NEW v \in Vehicles, RemoveVehicleCount(r, v) PROVE Steps(FleetReq)
  <2>1. PICK q \in FleetReq : q = [op |-> "RemoveVehicle", row |-> v]
    BY DEF FleetReq
  <2> QED BY <1>3, <2>1, StartSteps DEF RemoveVehicleCount
<1>4. ASSUME NEW r \in Requests,
             \/ UpdateVehicleCommit(r) \/ RemoveVehicleDelete(r)
             \/ CreateRouteInsert(r) \/ UpdateRouteCommit(r)
      PROVE  Steps(FleetReq)
  <2>1. req[r].op \in FleetOps /\ Ends(r)
    BY <1>4 DEF UpdateVehicleCommit, RemoveVehicleDelete, CreateRouteInsert, UpdateRouteCommit, At,
                FleetOps
  <2> QED BY <2>1, EndSteps DEF FleetRequests
<1>5. ASSUME NEW r \in Requests, NEW t \in Routes, CreateRouteCheck(r, t) \/ UpdateRouteCheck(r, t)
      PROVE  Steps(FleetReq)
  <2>1. PICK op \in {"CreateRoute", "UpdateRouteDelete"}, dto \in RouteDto :
          Starts(r, [op |-> op, row |-> t, dto |-> dto])
    <3>1. CASE CreateRouteCheck(r, t)
      BY <3>1 DEF CreateRouteCheck
    <3>2. CASE UpdateRouteCheck(r, t)
      BY <3>2 DEF UpdateRouteCheck
    <3> QED BY <1>5, <3>1, <3>2
  <2>2. PICK q \in FleetReq : q = [op |-> op, row |-> t, dto |-> dto]
    BY DEF FleetReq
  <2> QED BY <2>1, <2>2, StartSteps
<1>6. ASSUME NEW r \in Requests, UpdateRouteDelete(r) PROVE Steps(FleetReq)
  <2>1. req[r] \in FleetReq /\ req[r].row \in Routes /\ req[r].dto \in RouteDto
    BY <1>6, FleetReqOp DEF UpdateRouteDelete, At, FleetRequests, FleetOps
  <2>2. PICK t \in Routes, dto \in RouteDto : t = req[r].row /\ dto = req[r].dto
    BY <2>1
  <2>3. PICK seen \in SUBSET Submissions : seen = route[t].stops
    BY DEF TransportTypeOK, RouteRow
  <2>4. PICK q \in FleetReq : q = [op |-> "UpdateRoute", row |-> t, dto |-> dto, seen |-> seen]
    BY DEF FleetReq
  <2>5. Goes(r, q)
    BY <1>6, <2>2, <2>3, <2>4 DEF UpdateRouteDelete
  <2> QED BY <2>1, <2>5, GoSteps
<1>7. ASSUME NEW r \in Requests, TransportDies(r) PROVE Steps(FleetReq)
  BY <1>7, DiesSteps DEF TransportDies, FleetRequests
<1> QED BY <1>1, <1>2, <1>3, <1>4, <1>5, <1>6, <1>7
        DEF TransportNext, VehiclesController, RoutesController, FeeStructuresController

\* Rows that were never created have no records and no stops.
FreshFleet ==
  /\ \A v \in Vehicles : vehicle[v].status = "none" => vehicle[v].records = {} /\ vehicle[v].writes = 0
  /\ \A t \in Routes : route[t].status = "none" => route[t].stops = {} /\ route[t].writes = 0

LEMMA NewRowsTyped ==
  ASSUME NEW old, old.writes \in 0..MaxSubmissions, old.writes < MaxSubmissions, NEW given,
         NEW had \in SUBSET Submissions, NEW seen
  PROVE  /\ NewRows(old, given) \in SUBSET Submissions
         /\ Replaced(had, seen, NewRows(old, given)) \in SUBSET Submissions
         /\ Replaced(had, seen, NewRows(old, given)) \subseteq (had \ seen) \cup {old.writes + 1}
         /\ old.writes + 1 \in 0..MaxSubmissions
<1>1. old.writes + 1 \in Submissions /\ old.writes + 1 \in 0..MaxSubmissions
  BY TransportAssumption DEF Submissions
<1> QED BY <1>1 DEF NewRows, Replaced

\* One vehicle, or one route, is written.
LEMMA VehicleTyped ==
  ASSUME TransportTypeOK, FreshFleet, NEW v \in Vehicles, NEW x \in VehicleRow,
         vehicle' = [vehicle EXCEPT ![v] = x], x.status # "none", UNCHANGED <<route, feeStructure>>
  PROVE  /\ TransportTypeOK' /\ FreshFleet'
         /\ vehicle'[v] = x /\ \A k \in Vehicles \ {v} : vehicle'[k] = vehicle[k]
BY DEF TransportTypeOK, FreshFleet

LEMMA RouteTyped ==
  ASSUME TransportTypeOK, FreshFleet, NEW t \in Routes, NEW x \in RouteRow,
         route' = [route EXCEPT ![t] = x], x.status # "none", UNCHANGED <<vehicle, feeStructure>>
  PROVE  /\ TransportTypeOK' /\ FreshFleet'
         /\ route'[t] = x /\ \A k \in Routes \ {t} : route'[k] = route[k]
BY DEF TransportTypeOK, FreshFleet

VehiclesApart ==
  TableApart("UpdateVehicle", Vehicles, [v \in Vehicles |-> vehicle[v].records],
             [v \in Vehicles |-> vehicle[v].status])

LEMMA VehiclesApartRead ==
  ASSUME VehiclesApart, UNCHANGED overlap,
         \A v \in Vehicles : vehicle'[v].records \subseteq vehicle[v].records,
         \A v \in Vehicles : vehicle[v].status # "none" => vehicle'[v].status # "none",
         \A r \in Requests :
           \/ req'[r] = req[r] \/ req'[r].op # "UpdateVehicle"
           \/ /\ req'[r].row \in Vehicles /\ vehicle'[req'[r].row].status # "none"
              /\ vehicle'[req'[r].row].records \subseteq req'[r].seen
  PROVE  VehiclesApart'
<1>1. PICK C, St : /\ C = [v \in Vehicles |-> vehicle[v].records]
                   /\ St = [v \in Vehicles |-> vehicle[v].status]
  OBVIOUS
<1>2. PICK C2, St2 : /\ C2 = [v \in Vehicles |-> vehicle'[v].records]
                     /\ St2 = [v \in Vehicles |-> vehicle'[v].status]
  OBVIOUS
<1>3. TableApart("UpdateVehicle", Vehicles, C, St)
  BY <1>1 DEF VehiclesApart
<1>4. /\ \A k \in Vehicles : C2[k] \subseteq C[k]
      /\ \A k \in Vehicles : St[k] # "none" => St2[k] # "none"
      /\ \A r \in Requests :
           \/ req'[r] = req[r] \/ req'[r].op # "UpdateVehicle"
           \/ req'[r].row \in Vehicles /\ St2[req'[r].row] # "none" /\ C2[req'[r].row] \subseteq req'[r].seen
  BY <1>1, <1>2
<1>5. TableApart("UpdateVehicle", Vehicles, C2, St2)'
  BY <1>3, <1>4, TableKeeps
<1> QED BY <1>2, <1>5 DEF VehiclesApart

LEMMA VehiclesApartElse ==
  ASSUME VehiclesApart, UNCHANGED <<vehicle, overlap>>,
         \A r \in Requests : req'[r] = req[r] \/ req'[r].op # "UpdateVehicle"
  PROVE  VehiclesApart'
BY VehiclesApartRead

LEMMA CreateVehicleKeeps ==
  ASSUME TransportTypeOK, FreshFleet, VehiclesApart, NEW v \in Vehicles, CreateVehicle(v)
  PROVE  TransportTypeOK' /\ FreshFleet' /\ VehiclesApart'
<1>1. PICK dto \in VehicleDto : vehicle' = [vehicle EXCEPT ![v] =
        [status |-> "kept", records |-> NewRows(vehicle[v], dto.records), writes |-> 1]]
  BY DEF CreateVehicle
<1>2. PICK new : new = NewRows(vehicle[v], dto.records)
  OBVIOUS
<1>3. PICK x : x = [status |-> "kept", records |-> new, writes |-> 1]
  OBVIOUS
<1>4. vehicle[v].status = "none" /\ UNCHANGED <<route, feeStructure, req, overlap>>
  BY DEF CreateVehicle, AtOnce
<1>5. vehicle[v].writes = 0
  BY <1>4 DEF FreshFleet
<1>6. new \in SUBSET Submissions /\ new \subseteq {1} /\ 1 \in 0..MaxSubmissions
  <2>1. 1 \in Submissions /\ 1 \in 0..MaxSubmissions
    BY TransportAssumption DEF Submissions
  <2> QED BY <1>2, <1>5, <2>1 DEF NewRows
<1>7. x \in VehicleRow /\ x.status = "kept" /\ x.records = new
  BY <1>3, <1>6 DEF VehicleRow, RowStatus
<1>8. /\ TransportTypeOK' /\ FreshFleet'
      /\ vehicle'[v] = x /\ \A k \in Vehicles \ {v} : vehicle'[k] = vehicle[k]
  <2>1. vehicle' = [vehicle EXCEPT ![v] = x]
    BY <1>1, <1>2, <1>3
  <2> QED BY <1>4, <1>7, <2>1, VehicleTyped
<1>9. VehiclesApart'
  <2>1. PICK C, St : /\ C = [k \in Vehicles |-> vehicle[k].records]
                     /\ St = [k \in Vehicles |-> vehicle[k].status]
    OBVIOUS
  <2>2. PICK C2, St2 : /\ C2 = [k \in Vehicles |-> vehicle'[k].records]
                       /\ St2 = [k \in Vehicles |-> vehicle'[k].status]
    OBVIOUS
  <2>3. TableApart("UpdateVehicle", Vehicles, C, St)
    BY <2>1 DEF VehiclesApart
  <2>4. /\ \A k \in Vehicles : C2[k] \subseteq IF k = v THEN {1} ELSE C[k]
        /\ \A k \in Vehicles : St[k] # "none" => St2[k] # "none"
        /\ St[v] = "none" /\ \A r \in Requests : req'[r] = req[r] \/ req'[r].op # "UpdateVehicle"
    BY <1>4, <1>6, <1>7, <1>8, <2>1, <2>2
  <2>5. TableApart("UpdateVehicle", Vehicles, C2, St2)'
    BY <1>4, <2>3, <2>4, TableCreate
  <2> QED BY <2>2, <2>5 DEF VehiclesApart
<1> QED BY <1>8, <1>9

LEMMA UpdateVehicleCommitKeeps ==
  ASSUME TransportTypeOK, FreshFleet, VehiclesApart, FleetRequests, InFlightOK,
         NEW r \in Requests, UpdateVehicleCommit(r)
  PROVE  TransportTypeOK' /\ FreshFleet' /\ VehiclesApart'
<1>1. PICK v \in Vehicles : v = req[r].row
  BY FleetReqOp DEF UpdateVehicleCommit, At, FleetRequests, FleetOps
<1>2. PICK rep, n, seen : /\ rep = Replaced(vehicle[v].records, req[r].seen, NewRows(vehicle[v], req[r].dto.records))
                          /\ n = vehicle[v].writes + 1 /\ seen = req[r].seen
  OBVIOUS
<1>3. PICK x : x = [vehicle[v] EXCEPT !.records = rep, !.writes = n]
  OBVIOUS
<1>4. /\ vehicle' = [vehicle EXCEPT ![v] = x] /\ vehicle[v].writes < MaxSubmissions
      /\ vehicle[v].status = "kept" /\ req[r].op = "UpdateVehicle"
      /\ Ends(r) /\ UNCHANGED <<route, feeStructure>>
  BY <1>1, <1>2, <1>3 DEF UpdateVehicleCommit, At
<1>5. vehicle[v] \in VehicleRow
  BY DEF TransportTypeOK
<1>6. rep \in SUBSET Submissions /\ rep \subseteq (vehicle[v].records \ seen) \cup {n} /\ n \in 0..MaxSubmissions
  <2>1. vehicle[v].writes \in 0..MaxSubmissions /\ vehicle[v].records \in SUBSET Submissions
    BY <1>5 DEF VehicleRow
  <2>2. PICK had, old, given :
          had \in SUBSET Submissions /\ had = vehicle[v].records /\ old = vehicle[v] /\ given = req[r].dto.records
    BY <2>1
  <2>5. old.writes \in 0..MaxSubmissions /\ old.writes < MaxSubmissions /\ had \in SUBSET Submissions
    BY <1>4, <2>1, <2>2
  <2>3. /\ Replaced(had, seen, NewRows(old, given)) \in SUBSET Submissions
        /\ Replaced(had, seen, NewRows(old, given)) \subseteq (had \ seen) \cup {old.writes + 1}
        /\ old.writes + 1 \in 0..MaxSubmissions
    BY <2>5, NewRowsTyped
  <2>4. rep = Replaced(had, seen, NewRows(old, given)) /\ n = old.writes + 1
    BY <1>2, <2>2
  <2> QED BY <2>2, <2>3, <2>4
<1>7. x \in VehicleRow /\ x.status = "kept" /\ x.records = rep
  BY <1>3, <1>4, <1>5, <1>6 DEF VehicleRow
<1>9. /\ TransportTypeOK' /\ FreshFleet'
      /\ vehicle'[v] = x /\ \A k \in Vehicles \ {v} : vehicle'[k] = vehicle[k]
  BY <1>4, <1>7, VehicleTyped
<1>10. VehiclesApart'
  <2>1. PICK C, St : /\ C = [k \in Vehicles |-> vehicle[k].records]
                     /\ St = [k \in Vehicles |-> vehicle[k].status]
    OBVIOUS
  <2>2. PICK C2, St2 : /\ C2 = [k \in Vehicles |-> vehicle'[k].records]
                       /\ St2 = [k \in Vehicles |-> vehicle'[k].status]
    OBVIOUS
  <2>3. TableApart("UpdateVehicle", Vehicles, C, St)
    BY <2>1 DEF VehiclesApart
  <2>4. /\ \A k \in Vehicles : C2[k] \subseteq IF k = req[r].row THEN (C[k] \ req[r].seen) \cup {n} ELSE C[k]
        /\ \A k \in Vehicles : St[k] # "none" => St2[k] # "none"
    BY <1>1, <1>2, <1>6, <1>7, <1>9, <2>1, <2>2
  <2>5. TableApart("UpdateVehicle", Vehicles, C2, St2)'
    BY <1>4, <2>3, <2>4, TableCommit
  <2> QED BY <2>2, <2>5 DEF VehiclesApart
<1> QED BY <1>9, <1>10

LEMMA RemoveVehicleKeeps ==
  ASSUME TransportTypeOK, FreshFleet, VehiclesApart, FleetRequests, InFlightOK,
         NEW r \in Requests, RemoveVehicleDelete(r)
  PROVE  TransportTypeOK' /\ FreshFleet' /\ VehiclesApart'
<1>1. PICK v \in Vehicles : v = req[r].row
  BY FleetReqOp DEF RemoveVehicleDelete, At, FleetRequests, FleetOps
<1>2. PICK x : x = [vehicle[v] EXCEPT !.status = "deleted", !.records = {}]
  OBVIOUS
<1>3. vehicle[v] \in VehicleRow
  BY DEF TransportTypeOK
<1>4. x \in VehicleRow /\ x.status = "deleted" /\ x.records = {}
  BY <1>2, <1>3 DEF VehicleRow, RowStatus
<1>5. vehicle' = [vehicle EXCEPT ![v] = x] /\ Ends(r) /\ UNCHANGED <<route, feeStructure>>
  BY <1>1, <1>2 DEF RemoveVehicleDelete
<1>6. /\ TransportTypeOK' /\ FreshFleet'
      /\ vehicle'[v] = x /\ \A k \in Vehicles \ {v} : vehicle'[k] = vehicle[k]
  BY <1>4, <1>5, VehicleTyped
<1>7. VehiclesApart'
  <2>1. /\ \A k \in Vehicles : vehicle'[k].records \subseteq vehicle[k].records
        /\ \A k \in Vehicles : vehicle[k].status # "none" => vehicle'[k].status # "none"
    BY <1>4, <1>6
  <2>2. UNCHANGED overlap /\ \A k \in Requests : req'[k] = req[k] \/ req'[k].op # "UpdateVehicle"
    BY <1>5 DEF Ends, Idle, InFlightOK
  <2> QED BY <2>1, <2>2, VehiclesApartRead
<1> QED BY <1>6, <1>7

LEMMA UpdateVehicleReadKeeps ==
  ASSUME VehiclesApart, InFlightOK, NEW r \in Requests, NEW v \in Vehicles, UpdateVehicleDelete(r, v)
  PROVE  /\ UNCHANGED <<transportTables, overlap>> /\ VehiclesApart'
         /\ \A x \in Requests : req'[x] = req[x] \/ req'[x].op = "UpdateVehicle"
<1>1. PICK q, dto : /\ q = [op |-> "UpdateVehicle", row |-> v, dto |-> dto, seen |-> vehicle[v].records]
                    /\ Starts(r, q)
  BY DEF UpdateVehicleDelete
<1>2. q.row = v /\ q.seen = vehicle[v].records /\ q.op = "UpdateVehicle"
  BY <1>1
<1>3. /\ req'[r] = q /\ (\A x \in Requests \ {r} : req'[x] = req[x])
      /\ UNCHANGED <<transportTables, overlap>>
  BY <1>1 DEF Starts, InFlightOK, UpdateVehicleDelete
<1>4. vehicle[v].status # "none" /\ UNCHANGED vehicle
  BY <1>3 DEF UpdateVehicleDelete, transportTables
<1>5. \A x \in Requests :
         \/ req'[x] = req[x] \/ req'[x].op # "UpdateVehicle"
         \/ /\ req'[x].row \in Vehicles /\ vehicle'[req'[x].row].status # "none"
            /\ vehicle'[req'[x].row].records \subseteq req'[x].seen
  BY <1>2, <1>3, <1>4
<1>6. VehiclesApart'
  BY <1>3, <1>4, <1>5, VehiclesApartRead
<1> QED BY <1>2, <1>3, <1>6

RoutesApart ==
  /\ TableApart("UpdateRoute", Routes, [t \in Routes |-> route[t].stops],
                [t \in Routes |-> route[t].status])
  /\ \A r \in Requests : At(r, "UpdateRouteDelete") =>
       req[r].row \in Routes /\ route[req[r].row].status # "none"

LEMMA RoutesApartRead ==
  ASSUME RoutesApart, UNCHANGED overlap,
         \A t \in Routes : route'[t].stops \subseteq route[t].stops,
         \A t \in Routes : route[t].status # "none" => route'[t].status # "none",
         \A r \in Requests :
           \/ req'[r] = req[r] \/ req'[r].op \notin {"UpdateRouteDelete", "UpdateRoute"}
           \/ /\ req'[r].row \in Routes /\ route'[req'[r].row].status # "none"
              /\ req'[r].op = "UpdateRoute" => route'[req'[r].row].stops \subseteq req'[r].seen
  PROVE  RoutesApart'
<1>1. PICK C, St : /\ C = [t \in Routes |-> route[t].stops]
                   /\ St = [t \in Routes |-> route[t].status]
  OBVIOUS
<1>2. PICK C2, St2 : /\ C2 = [t \in Routes |-> route'[t].stops]
                     /\ St2 = [t \in Routes |-> route'[t].status]
  OBVIOUS
<1>3. TableApart("UpdateRoute", Routes, C, St)
  BY <1>1 DEF RoutesApart
<1>4. /\ \A k \in Routes : C2[k] \subseteq C[k]
      /\ \A k \in Routes : St[k] # "none" => St2[k] # "none"
      /\ \A r \in Requests :
           \/ req'[r] = req[r] \/ req'[r].op # "UpdateRoute"
           \/ req'[r].row \in Routes /\ St2[req'[r].row] # "none" /\ C2[req'[r].row] \subseteq req'[r].seen
  BY <1>1, <1>2
<1>5. TableApart("UpdateRoute", Routes, C2, St2)'
  BY <1>3, <1>4, TableKeeps
<1>6. \A r \in Requests : req'[r].op = "UpdateRouteDelete" =>
        req'[r].row \in Routes /\ route'[req'[r].row].status # "none"
  BY DEF RoutesApart, At
<1> QED BY <1>2, <1>5, <1>6 DEF RoutesApart, At

LEMMA RoutesApartElse ==
  ASSUME RoutesApart, UNCHANGED <<route, overlap>>,
         \A r \in Requests : req'[r] = req[r] \/ req'[r].op \notin {"UpdateRouteDelete", "UpdateRoute"}
  PROVE  RoutesApart'
BY RoutesApartRead

LEMMA CreateRouteKeeps ==
  ASSUME TransportTypeOK, FreshFleet, RoutesApart, FleetRequests, InFlightOK,
         NEW r \in Requests, CreateRouteInsert(r)
  PROVE  TransportTypeOK' /\ FreshFleet' /\ RoutesApart'
<1>1. PICK t \in Routes, dto \in RouteDto : t = req[r].row /\ dto = req[r].dto
  BY FleetReqOp DEF CreateRouteInsert, At, FleetRequests, FleetOps
<1>2. PICK new : new = NewRows(route[t], dto.stops)
  OBVIOUS
<1>3. PICK x : x = [status |-> "kept", vehicle |-> dto.vehicle, feeStructure |-> dto.feeStructure,
                    stops |-> new, writes |-> 1]
  OBVIOUS
<1>4. /\ route[t].status = "none" /\ UNCHANGED <<vehicle, feeStructure>> /\ Ends(r)
      /\ route' = [route EXCEPT ![t] = x]
  BY <1>1, <1>2, <1>3 DEF CreateRouteInsert
<1>5. route[t].writes = 0
  BY <1>4 DEF FreshFleet
<1>6. new \in SUBSET Submissions /\ new \subseteq {1} /\ 1 \in 0..MaxSubmissions
  <2>1. 1 \in Submissions /\ 1 \in 0..MaxSubmissions
    BY TransportAssumption DEF Submissions
  <2> QED BY <1>2, <1>5, <2>1 DEF NewRows
<1>7. x \in RouteRow /\ x.status = "kept" /\ x.stops = new
  BY <1>1, <1>3, <1>6 DEF RouteRow, RouteDto, RowStatus
<1>8. /\ TransportTypeOK' /\ FreshFleet'
      /\ route'[t] = x /\ \A k \in Routes \ {t} : route'[k] = route[k]
  BY <1>4, <1>7, RouteTyped
<1>9. /\ UNCHANGED overlap
      /\ \A y \in Requests : req'[y] = req[y] \/ req'[y].op = "idle"
  BY <1>4 DEF Ends, Idle, InFlightOK
<1>10. RoutesApart'
  <2>1. PICK C, St : /\ C = [k \in Routes |-> route[k].stops]
                     /\ St = [k \in Routes |-> route[k].status]
    OBVIOUS
  <2>2. PICK C2, St2 : /\ C2 = [k \in Routes |-> route'[k].stops]
                       /\ St2 = [k \in Routes |-> route'[k].status]
    OBVIOUS
  <2>3. TableApart("UpdateRoute", Routes, C, St)
    BY <2>1 DEF RoutesApart
  <2>4. /\ \A k \in Routes : C2[k] \subseteq IF k = t THEN {1} ELSE C[k]
        /\ \A k \in Routes : St[k] # "none" => St2[k] # "none"
        /\ St[t] = "none" /\ \A y \in Requests : req'[y] = req[y] \/ req'[y].op # "UpdateRoute"
    BY <1>4, <1>6, <1>7, <1>8, <1>9, <2>1, <2>2
  <2>5. TableApart("UpdateRoute", Routes, C2, St2)'
    BY <1>9, <2>3, <2>4, TableCreate
  <2>6. \A y \in Requests : req'[y].op = "UpdateRouteDelete" =>
          req'[y].row \in Routes /\ route'[req'[y].row].status # "none"
    BY <1>7, <1>8, <1>9 DEF RoutesApart, At
  <2> QED BY <2>2, <2>5, <2>6 DEF RoutesApart, At
<1> QED BY <1>8, <1>10

LEMMA UpdateRouteCommitKeeps ==
  ASSUME TransportTypeOK, FreshFleet, RoutesApart, FleetRequests, InFlightOK,
         NEW r \in Requests, UpdateRouteCommit(r)
  PROVE  TransportTypeOK' /\ FreshFleet' /\ RoutesApart'
<1>1. PICK t \in Routes, dto \in RouteDto : t = req[r].row /\ dto = req[r].dto
  BY FleetReqOp DEF UpdateRouteCommit, At, FleetRequests, FleetOps
<1>2. PICK rep, n, seen : /\ rep = Replaced(route[t].stops, req[r].seen, NewRows(route[t], dto.stops))
                          /\ n = route[t].writes + 1 /\ seen = req[r].seen
  OBVIOUS
<1>3. PICK x : x = [route[t] EXCEPT !.stops = rep, !.writes = n, !.vehicle = dto.vehicle,
                                    !.feeStructure = dto.feeStructure]
  OBVIOUS
<1>4. /\ route' = [route EXCEPT ![t] = x] /\ route[t].writes < MaxSubmissions
      /\ route[t].status = "kept" /\ req[r].op = "UpdateRoute"
      /\ Ends(r) /\ UNCHANGED <<vehicle, feeStructure>>
  BY <1>1, <1>2, <1>3 DEF UpdateRouteCommit, At
<1>5. route[t] \in RouteRow
  BY DEF TransportTypeOK
<1>6. rep \in SUBSET Submissions /\ rep \subseteq (route[t].stops \ seen) \cup {n} /\ n \in 0..MaxSubmissions
  <2>1. route[t].writes \in 0..MaxSubmissions /\ route[t].stops \in SUBSET Submissions
    BY <1>5 DEF RouteRow
  <2>2. PICK had, old, given :
          had \in SUBSET Submissions /\ had = route[t].stops /\ old = route[t] /\ given = dto.stops
    BY <2>1
  <2>3. /\ Replaced(had, seen, NewRows(old, given)) \in SUBSET Submissions
        /\ Replaced(had, seen, NewRows(old, given)) \subseteq (had \ seen) \cup {old.writes + 1}
        /\ old.writes + 1 \in 0..MaxSubmissions
    BY <1>4, <2>1, <2>2, NewRowsTyped
  <2> QED BY <1>2, <2>2, <2>3
<1>7. x \in RouteRow /\ x.status = "kept" /\ x.stops = rep
  BY <1>3, <1>4, <1>5, <1>6 DEF RouteRow, RouteDto
<1>8. /\ TransportTypeOK' /\ FreshFleet'
      /\ route'[t] = x /\ \A k \in Routes \ {t} : route'[k] = route[k]
  BY <1>4, <1>7, RouteTyped
<1>9. \A y \in Requests : req'[y] = req[y] \/ req'[y].op = "idle"
  BY <1>4 DEF Ends, Idle, InFlightOK
<1>10. RoutesApart'
  <2>1. PICK C, St : /\ C = [k \in Routes |-> route[k].stops]
                     /\ St = [k \in Routes |-> route[k].status]
    OBVIOUS
  <2>2. PICK C2, St2 : /\ C2 = [k \in Routes |-> route'[k].stops]
                       /\ St2 = [k \in Routes |-> route'[k].status]
    OBVIOUS
  <2>3. TableApart("UpdateRoute", Routes, C, St)
    BY <2>1 DEF RoutesApart
  <2>4. /\ \A k \in Routes : C2[k] \subseteq IF k = req[r].row THEN (C[k] \ req[r].seen) \cup {n} ELSE C[k]
        /\ \A k \in Routes : St[k] # "none" => St2[k] # "none"
    BY <1>1, <1>2, <1>6, <1>7, <1>8, <2>1, <2>2
  <2>5. TableApart("UpdateRoute", Routes, C2, St2)'
    BY <1>4, <2>3, <2>4, TableCommit
  <2>6. \A y \in Requests : req'[y].op = "UpdateRouteDelete" =>
          req'[y].row \in Routes /\ route'[req'[y].row].status # "none"
    BY <1>7, <1>8, <1>9 DEF RoutesApart, At
  <2> QED BY <2>2, <2>5, <2>6 DEF RoutesApart, At
<1> QED BY <1>8, <1>10

LEMMA RemoveRouteKeeps ==
  ASSUME TransportTypeOK, FreshFleet, RoutesApart, NEW t \in Routes, RemoveRoute(t)
  PROVE  TransportTypeOK' /\ FreshFleet' /\ RoutesApart'
<1>1. PICK x : x = [route[t] EXCEPT !.status = "deleted", !.stops = {}]
  OBVIOUS
<1>2. route[t] \in RouteRow
  BY DEF TransportTypeOK
<1>3. x \in RouteRow /\ x.status = "deleted" /\ x.stops = {}
  BY <1>1, <1>2 DEF RouteRow, RowStatus
<1>4. route' = [route EXCEPT ![t] = x] /\ UNCHANGED <<vehicle, feeStructure, req, overlap>>
  BY <1>1 DEF RemoveRoute, AtOnce
<1>5. /\ TransportTypeOK' /\ FreshFleet'
      /\ route'[t] = x /\ \A k \in Routes \ {t} : route'[k] = route[k]
  BY <1>3, <1>4, RouteTyped
<1>6. RoutesApart'
  <2>1. /\ \A k \in Routes : route'[k].stops \subseteq route[k].stops
        /\ \A k \in Routes : route[k].status # "none" => route'[k].status # "none"
    BY <1>3, <1>5
  <2> QED BY <1>4, <2>1, RoutesApartRead
<1> QED BY <1>5, <1>6

LEMMA UnlinkRoutesKeeps ==
  ASSUME TransportTypeOK, FreshFleet, RoutesApart, NEW f \in FeeStructures, RemoveFeeStructure(f)
  PROVE  TransportTypeOK' /\ FreshFleet' /\ RoutesApart'
<1>1. /\ feeStructure' = [feeStructure EXCEPT ![f] = "deleted"]
      /\ route' = [t \in Routes |-> IF route[t].feeStructure = f
                                    THEN [route[t] EXCEPT !.feeStructure = None] ELSE route[t]]
      /\ UNCHANGED <<vehicle, req, overlap>>
  BY DEF RemoveFeeStructure, AtOnce
<1>2. ASSUME NEW t \in Routes
      PROVE  /\ route'[t] \in RouteRow /\ route'[t].status = route[t].status
             /\ route'[t].stops = route[t].stops /\ route'[t].writes = route[t].writes
  <2>1. route[t] \in RouteRow
    BY DEF TransportTypeOK
  <2>2. PICK x : x = [route[t] EXCEPT !.feeStructure = None]
    OBVIOUS
  <2>3. x \in RouteRow /\ x.status = route[t].status /\ x.stops = route[t].stops /\ x.writes = route[t].writes
    BY <2>1, <2>2 DEF RouteRow
  <2>4. route'[t] = x \/ route'[t] = route[t]
    BY <1>1, <2>2
  <2> QED BY <2>1, <2>3, <2>4
<1>3. TransportTypeOK'
  <2>1. DOMAIN route' = Routes /\ route' = [t \in Routes |-> route'[t]]
    BY <1>1
  <2>2. route' \in [Routes -> RouteRow]
    BY <1>2, <2>1
  <2> QED BY <1>1, <2>2 DEF TransportTypeOK, RowStatus
<1>4. FreshFleet'
  BY <1>1, <1>2 DEF FreshFleet
<1>5. RoutesApart'
  BY <1>1, <1>2, RoutesApartRead
<1> QED BY <1>3, <1>4, <1>5

LEMMA UpdateRouteReadKeeps ==
  ASSUME RoutesApart, InFlightOK, FleetRequests, NEW r \in Requests,
         UpdateRouteDelete(r) \/ \E t \in Routes : UpdateRouteCheck(r, t)
  PROVE  /\ UNCHANGED <<transportTables, overlap>> /\ RoutesApart'
         /\ \A x \in Requests : req'[x] = req[x] \/ req'[x].op \in {"UpdateRouteDelete", "UpdateRoute"}
<1>1. ASSUME NEW q, NEW t \in Routes, q.row = t, route[t].status # "none",
             \/ q.op = "UpdateRouteDelete"
             \/ q.op = "UpdateRoute" /\ q.seen = route[t].stops,
             req' = [req EXCEPT ![r] = q], UNCHANGED <<transportTables, overlap>>
      PROVE  /\ UNCHANGED <<transportTables, overlap>> /\ RoutesApart'
             /\ \A x \in Requests : req'[x] = req[x] \/ req'[x].op \in {"UpdateRouteDelete", "UpdateRoute"}
  <2>1. req'[r] = q /\ (\A x \in Requests \ {r} : req'[x] = req[x]) /\ UNCHANGED route
    BY <1>1 DEF InFlightOK, transportTables
  <2>2. \A x \in Requests :
           \/ req'[x] = req[x] \/ req'[x].op \notin {"UpdateRouteDelete", "UpdateRoute"}
           \/ /\ req'[x].row \in Routes /\ route'[req'[x].row].status # "none"
              /\ req'[x].op = "UpdateRoute" => route'[req'[x].row].stops \subseteq req'[x].seen
    BY <1>1, <2>1
  <2>3. RoutesApart'
    BY <1>1, <2>1, <2>2, RoutesApartRead
  <2> QED BY <1>1, <2>1, <2>3
<1>2. CASE UpdateRouteDelete(r)
  <2>1. PICK t \in Routes : t = req[r].row /\ route[t].status # "none"
    BY <1>2 DEF UpdateRouteDelete, RoutesApart, At
  <2>2. PICK q : q = [op |-> "UpdateRoute", row |-> req[r].row, dto |-> req[r].dto,
                      seen |-> route[req[r].row].stops]
    OBVIOUS
  <2>3. q.op = "UpdateRoute" /\ q.row = t /\ q.seen = route[t].stops
    BY <2>1, <2>2
  <2>4. req' = [req EXCEPT ![r] = q] /\ UNCHANGED <<transportTables, overlap>>
    BY <1>2, <2>2 DEF UpdateRouteDelete, Goes
  <2> QED BY <1>1, <2>1, <2>3, <2>4
<1>3. ASSUME NEW t \in Routes, UpdateRouteCheck(r, t)
      PROVE  /\ UNCHANGED <<transportTables, overlap>> /\ RoutesApart'
             /\ \A x \in Requests : req'[x] = req[x] \/ req'[x].op \in {"UpdateRouteDelete", "UpdateRoute"}
  <2>1. PICK q, dto : q = [op |-> "UpdateRouteDelete", row |-> t, dto |-> dto] /\ Starts(r, q)
    BY <1>3 DEF UpdateRouteCheck
  <2>2. q.row = t /\ q.op = "UpdateRouteDelete"
    BY <2>1
  <2>3. /\ req' = [req EXCEPT ![r] = q] /\ UNCHANGED <<transportTables, overlap>>
        /\ route[t].status # "none"
    BY <1>3, <2>1 DEF UpdateRouteCheck, Starts
  <2> QED BY <1>1, <2>2, <2>3
<1> QED BY <1>2, <1>3

FleetInv == TransportTypeOK /\ FreshFleet /\ VehiclesApart /\ RoutesApart

LEMMA FleetKeeps ==
  ASSUME FleetInv, FleetRequests, InFlightOK, TransportNext
  PROVE  FleetInv'
<1>1. ASSUME TransportTypeOK', FreshFleet', VehiclesApart', UNCHANGED <<route, overlap>>,
             \A r \in Requests : req'[r] = req[r] \/ req'[r].op \notin {"UpdateRouteDelete", "UpdateRoute"}
      PROVE  FleetInv'
  BY <1>1, RoutesApartElse DEF FleetInv
<1>2. ASSUME TransportTypeOK', FreshFleet', RoutesApart', UNCHANGED <<vehicle, overlap>>,
             \A r \in Requests : req'[r] = req[r] \/ req'[r].op # "UpdateVehicle"
      PROVE  FleetInv'
  BY <1>2, VehiclesApartElse DEF FleetInv
<1>3. ASSUME NEW r \in Requests, Ends(r)
      PROVE  UNCHANGED overlap /\ \A x \in Requests : req'[x] = req[x] \/ req'[x].op = "idle"
  BY <1>3 DEF Ends, Idle, InFlightOK
<1>4. ASSUME NEW v \in Vehicles, CreateVehicle(v) PROVE FleetInv'
  <2>1. TransportTypeOK' /\ FreshFleet' /\ VehiclesApart'
    BY <1>4, CreateVehicleKeeps DEF FleetInv
  <2>2. UNCHANGED <<route, req, overlap>>
    BY <1>4 DEF CreateVehicle, AtOnce
  <2> QED BY <1>1, <2>1, <2>2
<1>5. ASSUME NEW r \in Requests, UpdateVehicleCommit(r) \/ RemoveVehicleDelete(r) PROVE FleetInv'
  <2>1. TransportTypeOK' /\ FreshFleet' /\ VehiclesApart'
    BY <1>5, UpdateVehicleCommitKeeps, RemoveVehicleKeeps DEF FleetInv
  <2>2. UNCHANGED route /\ Ends(r)
    BY <1>5 DEF UpdateVehicleCommit, RemoveVehicleDelete
  <2> QED BY <1>1, <1>3, <2>1, <2>2
<1>6. ASSUME NEW r \in Requests, NEW v \in Vehicles, UpdateVehicleDelete(r, v) PROVE FleetInv'
  <2>1. /\ UNCHANGED <<vehicle, route, feeStructure, overlap>> /\ VehiclesApart'
        /\ \A x \in Requests : req'[x] = req[x] \/ req'[x].op = "UpdateVehicle"
    BY <1>6, UpdateVehicleReadKeeps DEF FleetInv, transportTables
  <2>2. TransportTypeOK' /\ FreshFleet'
    BY <2>1 DEF FleetInv, TransportTypeOK, FreshFleet
  <2> QED BY <1>1, <2>1, <2>2
<1>7. ASSUME UNCHANGED <<transportTables, overlap>>,
             \A r \in Requests : req'[r] = req[r]
                                 \/ req'[r].op \notin {"UpdateVehicle", "UpdateRouteDelete", "UpdateRoute"}
      PROVE  FleetInv'
  <2>1. UNCHANGED <<vehicle, route, feeStructure>>
    BY <1>7 DEF transportTables
  <2>2. TransportTypeOK' /\ FreshFleet'
    BY <2>1 DEF FleetInv, TransportTypeOK, FreshFleet
  <2>3. VehiclesApart'
    BY <1>7, <2>1, VehiclesApartElse DEF FleetInv
  <2> QED BY <1>1, <1>7, <2>1, <2>2, <2>3
<1>8. ASSUME NEW r \in Requests, NEW v \in Vehicles, RemoveVehicleCount(r, v) PROVE FleetInv'
  <2>1. PICK q : q = [op |-> "RemoveVehicle", row |-> v]
    OBVIOUS
  <2>2. Starts(r, q) /\ q.op = "RemoveVehicle" /\ UNCHANGED transportTables
    BY <1>8, <2>1 DEF RemoveVehicleCount
  <2> QED BY <1>7, <2>2 DEF Starts, InFlightOK
<1>9. ASSUME NEW r \in Requests, NEW t \in Routes, CreateRouteCheck(r, t) PROVE FleetInv'
  <2>1. PICK q, dto : q = [op |-> "CreateRoute", row |-> t, dto |-> dto] /\ Starts(r, q)
    BY <1>9 DEF CreateRouteCheck
  <2>2. q.op = "CreateRoute" /\ UNCHANGED transportTables
    BY <1>9, <2>1 DEF CreateRouteCheck
  <2> QED BY <1>7, <2>1, <2>2 DEF Starts, InFlightOK
<1>10. ASSUME NEW r \in Requests, CreateRouteInsert(r) \/ UpdateRouteCommit(r) PROVE FleetInv'
  <2>1. TransportTypeOK' /\ FreshFleet' /\ RoutesApart'
    BY <1>10, CreateRouteKeeps, UpdateRouteCommitKeeps DEF FleetInv
  <2>2. UNCHANGED vehicle /\ Ends(r)
    BY <1>10 DEF CreateRouteInsert, UpdateRouteCommit
  <2> QED BY <1>2, <1>3, <2>1, <2>2
<1>11. ASSUME NEW r \in Requests, UpdateRouteDelete(r) \/ \E t \in Routes : UpdateRouteCheck(r, t)
       PROVE  FleetInv'
  <2>1. /\ UNCHANGED <<vehicle, route, feeStructure, overlap>> /\ RoutesApart'
        /\ \A x \in Requests : req'[x] = req[x] \/ req'[x].op \in {"UpdateRouteDelete", "UpdateRoute"}
    BY <1>11, UpdateRouteReadKeeps DEF FleetInv, transportTables
  <2>2. TransportTypeOK' /\ FreshFleet'
    BY <2>1 DEF FleetInv, TransportTypeOK, FreshFleet
  <2> QED BY <1>2, <2>1, <2>2
<1>12. ASSUME NEW t \in Routes, RemoveRoute(t) PROVE FleetInv'
  <2>1. TransportTypeOK' /\ FreshFleet' /\ RoutesApart'
    BY <1>12, RemoveRouteKeeps DEF FleetInv
  <2>2. UNCHANGED <<vehicle, req, overlap>>
    BY <1>12 DEF RemoveRoute, AtOnce
  <2> QED BY <1>2, <2>1, <2>2
<1>13. ASSUME NEW f \in FeeStructures, CreateFeeStructure(f) PROVE FleetInv'
  <2>1. UNCHANGED <<vehicle, route, req, overlap>> /\ feeStructure' \in [FeeStructures -> RowStatus]
    BY <1>13 DEF CreateFeeStructure, AtOnce, FleetInv, TransportTypeOK, RowStatus
  <2>2. TransportTypeOK' /\ FreshFleet'
    BY <2>1 DEF FleetInv, TransportTypeOK, FreshFleet
  <2>3. VehiclesApart'
    BY <2>1, VehiclesApartElse DEF FleetInv
  <2> QED BY <1>1, <2>1, <2>2, <2>3
<1>14. ASSUME NEW f \in FeeStructures, RemoveFeeStructure(f) PROVE FleetInv'
  <2>1. TransportTypeOK' /\ FreshFleet' /\ RoutesApart'
    BY <1>14, UnlinkRoutesKeeps DEF FleetInv
  <2>2. UNCHANGED <<vehicle, req, overlap>>
    BY <1>14 DEF RemoveFeeStructure, AtOnce
  <2> QED BY <1>2, <2>1, <2>2
<1>15. ASSUME NEW r \in Requests, TransportDies(r) PROVE FleetInv'
  <2>1. Ends(r) /\ UNCHANGED transportTables
    BY <1>15 DEF TransportDies, Dies
  <2>2. UNCHANGED overlap /\ \A x \in Requests : req'[x] = req[x] \/ req'[x].op = "idle"
    BY <1>3, <2>1
  <2> QED BY <1>7, <2>1, <2>2
<1> QED BY <1>4, <1>5, <1>6, <1>8, <1>9, <1>10, <1>11, <1>12, <1>13, <1>14, <1>15
        DEF TransportNext, VehiclesController, RoutesController, FeeStructuresController

LEMMA FleetElsewhere ==
  ASSUME FleetInv, UNCHANGED <<transportTables, overlap>>,
         \A r \in Requests : req'[r] = req[r] \/ req'[r].op \notin FleetOps
  PROVE  FleetInv'
<1>1. UNCHANGED <<vehicle, route, feeStructure>>
  BY DEF transportTables
<1>2. \A r \in Requests : req'[r] = req[r]
                          \/ req'[r].op \notin {"UpdateVehicle", "UpdateRouteDelete", "UpdateRoute"}
  BY DEF FleetOps
<1>3. VehiclesApart' /\ RoutesApart'
  BY <1>1, <1>2, VehiclesApartElse, RoutesApartElse DEF FleetInv
<1> QED BY <1>1, <1>3 DEF FleetInv, TransportTypeOK, FreshFleet

LEMMA FleetInitOK == TransportInit /\ HandlersInit => FleetInv
<1> SUFFICES ASSUME TransportInit, HandlersInit PROVE FleetInv
  OBVIOUS
<1>1. \A r \in Requests : req[r].op = "idle"
  BY DEF HandlersInit, Idle
<1>2. TransportTypeOK /\ FreshFleet
  <2>1. 0 \in 0..MaxSubmissions
    BY TransportAssumption
  <2> QED BY <2>1 DEF TransportInit, TransportTypeOK, FreshFleet, VehicleRow, RouteRow, RowStatus
<1>3. VehiclesApart
  <2>1. PICK C, St : /\ C = [k \in Vehicles |-> vehicle[k].records]
                     /\ St = [k \in Vehicles |-> vehicle[k].status]
    OBVIOUS
  <2>2. \A k \in Vehicles : C[k] = {}
    BY <2>1 DEF TransportInit
  <2>3. TableApart("UpdateVehicle", Vehicles, C, St)
    BY <2>2, TableInit
  <2> QED BY <2>1, <2>3 DEF VehiclesApart
<1>4. RoutesApart
  <2>1. PICK C, St : /\ C = [k \in Routes |-> route[k].stops]
                     /\ St = [k \in Routes |-> route[k].status]
    OBVIOUS
  <2>2. \A k \in Routes : C[k] = {}
    BY <2>1 DEF TransportInit
  <2>3. TableApart("UpdateRoute", Routes, C, St)
    BY <2>2, TableInit
  <2> QED BY <1>1, <2>1, <2>3 DEF RoutesApart, At
<1> QED BY <1>2, <1>3, <1>4 DEF FleetInv

-----------------------------------------------------------------------------
(* All desks of the campus at once                                          *)

CampusReq == SchoolReq \cup HostelReq \cup StoresReq \cup FleetReq \cup AccountsReq \cup PlatformReq

\* Every request is at a statement of one desk, or idle.
CampusRequests == \A r \in Requests : req[r] \in CampusReq \cup {Idle}

\* No statement is of two desks.
LEMMA OpsApart ==
  /\ HostelOps \cap (SchoolOps \cup StoresOps \cup FleetOps \cup AccountsOps \cup PlatformOps \cup {"idle"}) = {}
  /\ SchoolOps \cap (StoresOps \cup FleetOps \cup AccountsOps \cup PlatformOps \cup {"idle"}) = {}
  /\ StoresOps \cap (FleetOps \cup AccountsOps \cup PlatformOps \cup {"idle"}) = {}
  /\ FleetOps \cap (AccountsOps \cup PlatformOps \cup {"idle"}) = {}
  /\ AccountsOps \cap (PlatformOps \cup {"idle"}) = {} /\ "idle" \notin PlatformOps
BY DEF HostelOps, SchoolOps, StoresOps, FleetOps, AccountsOps, PlatformOps

LEMMA ReqOps ==
  /\ \A q \in SchoolReq : q.op \in SchoolOps
  /\ \A q \in HostelReq : q.op \in HostelOps
  /\ \A q \in StoresReq : q.op \in StoresOps
  /\ \A q \in FleetReq : q.op \in FleetOps
  /\ \A q \in AccountsReq : q.op \in AccountsOps
  /\ \A q \in PlatformReq : q.op \in PlatformOps
BY SchoolReqOp, HostelReqOp, StoresReqOp, FleetReqOp, AccountsReqOp, PlatformReqOp

\* What the proofs of each desk take of the requests.
LEMMA RequestsOf ==
  ASSUME CampusRequests
  PROVE  SchoolRequests /\ HostelRequests /\ StoresRequests /\ FleetRequests
         /\ AccountsRequests /\ PlatformRequests
<1> SUFFICES ASSUME NEW r \in Requests
             PROVE  /\ req[r].op \in SchoolOps => req[r] \in SchoolReq
                    /\ req[r].op \in HostelOps => req[r] \in HostelReq
                    /\ req[r].op \in StoresOps => req[r] \in StoresReq
                    /\ req[r].op \in FleetOps => req[r] \in FleetReq
                    /\ req[r].op \in AccountsOps => req[r] \in AccountsReq
                    /\ req[r].op \in PlatformOps => req[r] \in PlatformReq
  BY DEF SchoolRequests, HostelRequests, StoresRequests, FleetRequests, AccountsRequests, PlatformRequests
<1>1. req[r] \in CampusReq \/ req[r].op = "idle"
  BY DEF CampusRequests, Idle
<1>2. PICK q : q = req[r]
  OBVIOUS
<1>3. \/ q \in SchoolReq /\ q.op \in SchoolOps
      \/ q \in HostelReq /\ q.op \in HostelOps
      \/ q \in StoresReq /\ q.op \in StoresOps
      \/ q \in FleetReq /\ q.op \in FleetOps
      \/ q \in AccountsReq /\ q.op \in AccountsOps
      \/ q \in PlatformReq /\ q.op \in PlatformOps
      \/ q.op = "idle"
  BY <1>1, <1>2, ReqOps DEF CampusReq
<1> QED BY <1>2, <1>3, OpsApart

\* A step of the desk whose requests are Q and whose statements are ops.
LEMMA DeskStep ==
  ASSUME InFlightOK, CampusRequests, NEW Q \in SUBSET CampusReq, NEW ops, "idle" \notin ops,
         \A q \in Q : q.op \in ops, Steps(Q)
  PROVE  /\ InFlightOK' /\ CampusRequests' /\ UNCHANGED overlap
         /\ \A r \in Requests :
              req'[r] = req[r] \/ (req[r].op \in ops \cup {"idle"} /\ req'[r].op \in ops \cup {"idle"})
<1>1. InFlightOK' /\ UNCHANGED overlap
  <2>1. \A q \in Q : q.op # "idle"
    OBVIOUS
  <2> QED BY <2>1, StepsInFlight DEF Steps
<1>2. CASE UNCHANGED req
  BY <1>1, <1>2 DEF CampusRequests
<1>3. CASE \E r \in Requests :
             /\ req' = [req EXCEPT ![r] = req'[r]] /\ req'[r] \in Q \cup {Idle}
             /\ req[r] \in Q \/ (MayStart /\ req[r].op = "idle")
  <2>1. PICK r \in Requests :
             /\ req' = [req EXCEPT ![r] = req'[r]] /\ req'[r] \in Q \cup {Idle}
             /\ req[r] \in Q \/ (MayStart /\ req[r].op = "idle")
    BY <1>3
  <2>2. \A x \in Requests \ {r} : req'[x] = req[x]
    BY <2>1 DEF InFlightOK
  <2>3. req[r].op \in ops \cup {"idle"} /\ req'[r].op \in ops \cup {"idle"}
    BY <2>1 DEF Idle
  <2>4. CampusRequests'
    BY <2>1, <2>2 DEF CampusRequests
  <2> QED BY <1>1, <2>2, <2>3, <2>4
<1> QED BY <1>2, <1>3 DEF Steps

-----------------------------------------------------------------------------
CampusInv ==
  /\ InFlightOK /\ CampusRequests
  /\ SchoolInv /\ YearsApart /\ BranchesApart
  /\ HostelTypeOK /\ HostelInv
  /\ StoresInv /\ FleetInv /\ AccountsInv /\ PlatformInv

LEMMA CampusHas ==
  ASSUME CampusInv
  PROVE  /\ SchoolRequests /\ HostelRequests /\ StoresRequests /\ FleetRequests
         /\ AccountsRequests /\ PlatformRequests
         /\ SchoolTypeOK /\ InventoryTypeOK /\ TransportTypeOK /\ AccountsTypeOK /\ ConsoleTypeOK /\ TenancyTypeOK
         /\ DOMAIN req = Requests /\ now \in 0..MaxTime /\ cut \in BOOLEAN
<1>1. /\ SchoolRequests /\ HostelRequests /\ StoresRequests /\ FleetRequests
      /\ AccountsRequests /\ PlatformRequests
  BY RequestsOf DEF CampusInv
<1>2. SchoolTypeOK /\ InventoryTypeOK /\ TransportTypeOK /\ TenancyTypeOK
  BY DEF CampusInv, SchoolInv, StoresInv, FleetInv, PlatformInv
<1>3. AccountsTypeOK /\ ConsoleTypeOK
  BY AccountsTypes, ConsoleTypes DEF CampusInv, PlatformInv
<1>4. now \in 0..MaxTime /\ cut \in BOOLEAN
  BY <1>3 DEF AccountsTypeOK
<1> QED BY <1>1, <1>2, <1>3, <1>4 DEF CampusInv, InFlightOK

\* What another desk's step leaves alone.
LEMMA SchoolIdles ==
  ASSUME CampusInv, UNCHANGED <<schoolTables, overlap>>,
         \A r \in Requests : req'[r] = req[r] \/ req'[r].op \notin SchoolOps
  PROVE  SchoolInv' /\ YearsApart' /\ BranchesApart'
<1>1. SchoolInv'
  BY SchoolElsewhere DEF CampusInv
<1>2. UNCHANGED <<year, branch>>
  BY DEF schoolTables, listTables
<1>3. \A r \in Requests : req'[r] = req[r] \/ req'[r].op \notin {"UpdateYear", "UpdateBranch"}
  BY DEF SchoolOps
<1>4. YearsApart' /\ BranchesApart'
  BY <1>2, <1>3, YearsApartElse, BranchesApartElse DEF CampusInv
<1> QED BY <1>1, <1>4

LEMMA HostelIdles ==
  ASSUME CampusInv, UNCHANGED <<hostelTables, overlap>>,
         \A r \in Requests : req'[r] = req[r] \/ req'[r].op \notin HostelOps
  PROVE  HostelTypeOK' /\ HostelInv'
<1>1. HostelInv'
  BY HostelElsewhere DEF CampusInv
<1> QED BY <1>1 DEF CampusInv, HostelTypeOK, hostelTables

LEMMA StoresIdle ==
  ASSUME CampusInv, UNCHANGED <<inventoryTables, overlap>>,
         \A r \in Requests : req'[r] = req[r] \/ req'[r].op \notin StoresOps
  PROVE  StoresInv'
BY StoresElsewhere DEF CampusInv

LEMMA FleetIdles ==
  ASSUME CampusInv, UNCHANGED <<transportTables, overlap>>,
         \A r \in Requests : req'[r] = req[r] \/ req'[r].op \notin FleetOps
  PROVE  FleetInv'
BY FleetElsewhere DEF CampusInv

LEMMA AccountsIdle ==
  ASSUME CampusInv, UNCHANGED accountTables, NEW Q, \A q \in Q : q.op \notin AccountsOps \cup {"idle"}, Steps(Q)
  PROVE  AccountsInv'
<1>1. UNCHANGED <<now, user, session, index, token, attempts, secrets, answers, cut>>
  BY DEF accountTables
<1> QED BY <1>1, AccountsElsewhere DEF CampusInv

LEMMA PlatformIdles ==
  ASSUME CampusInv, UNCHANGED <<consoleTables, tenancyTables, overlap>>, cut' = cut \/ cut',
         \A r \in Requests :
           req'[r] = req[r] \/ (req[r].op \notin PlatformOps /\ req'[r].op \notin PlatformOps)
  PROVE  PlatformInv'
BY CampusHas, PlatformElsewhere DEF CampusInv

LEMMA SchoolDeskKeeps ==
  ASSUME CampusInv, NEW d, SchoolDesk(d)
  PROVE  CampusInv'
<1>1. SetupDesk \/ SchoolLists \/ PeopleDesk
  BY DEF SchoolDesk
<1>2. Moves(SchoolOps) /\ UNCHANGED <<hostelTables, inventoryTables, transportTables, accountTables,
                                      consoleTables, tenancyTables>>
  BY DEF SchoolDesk, campusTables, platformTables
<1>3. Steps(SchoolReq)
  BY <1>1, <1>2, CampusHas, SchoolSteps
<1>4. "idle" \notin SchoolOps /\ SchoolReq \in SUBSET CampusReq
  BY OpsApart DEF CampusReq
<1>5. /\ InFlightOK' /\ CampusRequests' /\ UNCHANGED overlap
      /\ \A r \in Requests : req'[r] = req[r]
           \/ (req[r].op \in SchoolOps \cup {"idle"} /\ req'[r].op \in SchoolOps \cup {"idle"})
  BY <1>3, <1>4, ReqOps, DeskStep DEF CampusInv
<1>6. SchoolInv' /\ YearsApart' /\ BranchesApart'
  BY <1>1, CampusHas, SchoolKeeps, YearsApartKeep, BranchesApartKeep DEF CampusInv
<1>7. HostelTypeOK' /\ HostelInv'
  BY <1>2, <1>5, HostelIdles, OpsApart
<1>8. StoresInv' /\ FleetInv'
  BY <1>2, <1>5, StoresIdle, FleetIdles, OpsApart
<1>9. AccountsInv'
  BY <1>2, <1>3, ReqOps, OpsApart, AccountsIdle
<1>10. cut' = cut \/ cut'
  BY <1>2 DEF accountTables
<1>11. PlatformInv'
  BY <1>2, <1>5, <1>10, PlatformIdles, OpsApart
<1> QED BY <1>5, <1>6, <1>7, <1>8, <1>9, <1>11 DEF CampusInv

LEMMA HostelDesksKeep ==
  ASSUME CampusInv, NEW d, HostelDesks(d)
  PROVE  /\ CampusInv'
         /\ ~overlap => \A a \in Active : allocation'[a].status \in {"active", "vacated"}
<1>1. HostelBeds \/ HostelDesk
  BY DEF HostelDesks
<1>2. Moves(HostelOps) /\ UNCHANGED <<schoolTables, inventoryTables, transportTables, accountTables,
                                      consoleTables, tenancyTables>>
  BY DEF HostelDesks, platformTables
<1>3. Steps(HostelReq)
  BY <1>1, <1>2, CampusHas, HostelSteps DEF CampusInv
<1>4. "idle" \notin HostelOps /\ HostelReq \in SUBSET CampusReq
  BY OpsApart DEF CampusReq
<1>5. /\ InFlightOK' /\ CampusRequests' /\ UNCHANGED overlap
      /\ \A r \in Requests : req'[r] = req[r]
           \/ (req[r].op \in HostelOps \cup {"idle"} /\ req'[r].op \in HostelOps \cup {"idle"})
  BY <1>3, <1>4, ReqOps, DeskStep DEF CampusInv
<1>6. SchoolInv' /\ YearsApart' /\ BranchesApart'
  BY <1>2, <1>5, SchoolIdles, OpsApart
<1>7. /\ HostelTypeOK' /\ HostelInv'
      /\ ~overlap => \A a \in Active : allocation'[a].status \in {"active", "vacated"}
  BY <1>1, CampusHas, HostelTyped, HostelKeeps DEF CampusInv
<1>8. StoresInv' /\ FleetInv'
  BY <1>2, <1>5, StoresIdle, FleetIdles, OpsApart
<1>9. AccountsInv'
  BY <1>2, <1>3, ReqOps, OpsApart, AccountsIdle
<1>10. cut' = cut \/ cut'
  BY <1>2 DEF accountTables
<1>11. PlatformInv'
  BY <1>2, <1>5, <1>10, PlatformIdles, OpsApart
<1> QED BY <1>5, <1>6, <1>7, <1>8, <1>9, <1>11 DEF CampusInv

LEMMA StoresDeskKeeps ==
  ASSUME CampusInv, NEW d, StoresDesk(d)
  PROVE  CampusInv'
<1>1. StockNext \/ AssetsNext
  BY DEF StoresDesk
<1>2. Moves(StoresOps) /\ UNCHANGED <<schoolTables, hostelTables, transportTables, accountTables,
                                      consoleTables, tenancyTables>>
  BY DEF StoresDesk, platformTables
<1>3. Steps(StoresReq)
  BY <1>1, <1>2, CampusHas, StoresSteps
<1>4. "idle" \notin StoresOps /\ StoresReq \in SUBSET CampusReq
  BY OpsApart DEF CampusReq
<1>5. /\ InFlightOK' /\ CampusRequests' /\ UNCHANGED overlap
      /\ \A r \in Requests : req'[r] = req[r]
           \/ (req[r].op \in StoresOps \cup {"idle"} /\ req'[r].op \in StoresOps \cup {"idle"})
  BY <1>3, <1>4, ReqOps, DeskStep DEF CampusInv
<1>6. SchoolInv' /\ YearsApart' /\ BranchesApart'
  BY <1>2, <1>5, SchoolIdles, OpsApart
<1>7. HostelTypeOK' /\ HostelInv'
  BY <1>2, <1>5, HostelIdles, OpsApart
<1>8. StoresInv' /\ FleetInv'
  BY <1>1, <1>2, <1>5, CampusHas, StoresKeeps, FleetIdles, OpsApart DEF CampusInv
<1>9. AccountsInv'
  BY <1>2, <1>3, ReqOps, OpsApart, AccountsIdle
<1>10. cut' = cut \/ cut'
  BY <1>2 DEF accountTables
<1>11. PlatformInv'
  BY <1>2, <1>5, <1>10, PlatformIdles, OpsApart
<1> QED BY <1>5, <1>6, <1>7, <1>8, <1>9, <1>11 DEF CampusInv

LEMMA FleetDeskKeeps ==
  ASSUME CampusInv, NEW d, FleetDesk(d)
  PROVE  CampusInv'
<1>1. TransportNext
  BY DEF FleetDesk
<1>2. Moves(FleetOps) /\ UNCHANGED <<schoolTables, hostelTables, inventoryTables, accountTables,
                                     consoleTables, tenancyTables>>
  BY DEF FleetDesk, platformTables
<1>3. Steps(FleetReq)
  BY <1>1, <1>2, CampusHas, FleetSteps
<1>4. "idle" \notin FleetOps /\ FleetReq \in SUBSET CampusReq
  BY OpsApart DEF CampusReq
<1>5. /\ InFlightOK' /\ CampusRequests' /\ UNCHANGED overlap
      /\ \A r \in Requests : req'[r] = req[r]
           \/ (req[r].op \in FleetOps \cup {"idle"} /\ req'[r].op \in FleetOps \cup {"idle"})
  BY <1>3, <1>4, ReqOps, DeskStep DEF CampusInv
<1>6. SchoolInv' /\ YearsApart' /\ BranchesApart'
  BY <1>2, <1>5, SchoolIdles, OpsApart
<1>7. HostelTypeOK' /\ HostelInv'
  BY <1>2, <1>5, HostelIdles, OpsApart
<1>8. StoresInv' /\ FleetInv'
  BY <1>1, <1>2, <1>5, CampusHas, FleetKeeps, StoresIdle, OpsApart DEF CampusInv
<1>9. AccountsInv'
  BY <1>2, <1>3, ReqOps, OpsApart, AccountsIdle
<1>10. cut' = cut \/ cut'
  BY <1>2 DEF accountTables
<1>11. PlatformInv'
  BY <1>2, <1>5, <1>10, PlatformIdles, OpsApart
<1> QED BY <1>5, <1>6, <1>7, <1>8, <1>9, <1>11 DEF CampusInv

LEMMA AccountsDeskKeeps ==
  ASSUME CampusInv, NEW d, AccountsDesk(d)
  PROVE  CampusInv'
<1>1. AccountsNext
  BY DEF AccountsDesk, AccountsNext
<1>2. Moves(AccountsOps) /\ UNCHANGED <<schoolTables, hostelTables, inventoryTables, transportTables,
                                        consoleTables, tenancyTables>>
  BY DEF AccountsDesk
<1>3. Steps(AccountsReq)
  BY <1>1, <1>2, CampusHas, AccountsSteps
<1>4. "idle" \notin AccountsOps /\ AccountsReq \in SUBSET CampusReq
  BY OpsApart DEF CampusReq
<1>5. /\ InFlightOK' /\ CampusRequests' /\ UNCHANGED overlap
      /\ \A r \in Requests : req'[r] = req[r]
           \/ (req[r].op \in AccountsOps \cup {"idle"} /\ req'[r].op \in AccountsOps \cup {"idle"})
  BY <1>3, <1>4, ReqOps, DeskStep DEF CampusInv
<1>6. SchoolInv' /\ YearsApart' /\ BranchesApart'
  BY <1>2, <1>5, SchoolIdles, OpsApart
<1>7. HostelTypeOK' /\ HostelInv'
  BY <1>2, <1>5, HostelIdles, OpsApart
<1>8. StoresInv' /\ FleetInv'
  BY <1>2, <1>5, StoresIdle, FleetIdles, OpsApart
<1>9. AccountsInv'
  BY <1>1, CampusHas, AccountsKeeps DEF CampusInv
<1>10. cut' = cut \/ cut'
  BY <1>1, CampusHas, AccountsFrame DEF CampusInv
<1>11. PlatformInv'
  BY <1>2, <1>5, <1>10, PlatformIdles, OpsApart
<1> QED BY <1>5, <1>6, <1>7, <1>8, <1>9, <1>11 DEF CampusInv

LEMMA PlatformDeskKeeps ==
  ASSUME CampusInv, NEW d, PlatformDesk(d)
  PROVE  CampusInv'
<1>1. UNCHANGED <<schoolTables, hostelTables, inventoryTables, transportTables>>
  BY DEF PlatformDesk
<1>2. Steps(PlatformReq)
  BY CampusHas, PlatformSteps
<1>3. "idle" \notin PlatformOps /\ PlatformReq \in SUBSET CampusReq
  BY OpsApart DEF CampusReq
<1>4. /\ InFlightOK' /\ CampusRequests' /\ UNCHANGED overlap
      /\ \A r \in Requests : req'[r] = req[r]
           \/ (req[r].op \in PlatformOps \cup {"idle"} /\ req'[r].op \in PlatformOps \cup {"idle"})
  BY <1>2, <1>3, ReqOps, DeskStep DEF CampusInv
<1>5. SchoolInv' /\ YearsApart' /\ BranchesApart'
  BY <1>1, <1>4, SchoolIdles, OpsApart
<1>6. HostelTypeOK' /\ HostelInv'
  BY <1>1, <1>4, HostelIdles, OpsApart
<1>7. StoresInv' /\ FleetInv'
  BY <1>1, <1>4, StoresIdle, FleetIdles, OpsApart
<1>8. AccountsInv'
  <2>1. CASE AccountsNext
    BY <2>1, CampusHas, AccountsKeeps DEF CampusInv
  <2>2. CASE UNCHANGED accountTables
    BY <1>2, <2>2, ReqOps, OpsApart, AccountsIdle
  <2> QED BY <2>1, <2>2, PlatformAccounts
<1>9. PlatformInv'
  BY <1>4, CampusHas, PlatformKeeps DEF CampusInv
<1> QED BY <1>4, <1>5, <1>6, <1>7, <1>8, <1>9 DEF CampusInv

LEMMA CampusStutters ==
  ASSUME CampusInv, UNCHANGED campusVars
  PROVE  CampusInv'
<1>1. /\ UNCHANGED <<schoolTables, hostelTables, inventoryTables, transportTables, accountTables,
                     consoleTables, tenancyTables>>
      /\ UNCHANGED <<req, overlap>>
  BY DEF campusVars, campusTables, platformTables
<1>2. Steps({})
  BY <1>1 DEF Steps
<1>3. /\ InFlightOK' /\ CampusRequests' /\ UNCHANGED overlap /\ \A r \in Requests : req'[r] = req[r]
  BY <1>1 DEF CampusInv, InFlightOK, OneAtATime, CampusRequests
<1>4. SchoolInv' /\ YearsApart' /\ BranchesApart'
  BY <1>1, <1>3, SchoolIdles
<1>5. HostelTypeOK' /\ HostelInv'
  BY <1>1, <1>3, HostelIdles
<1>6. StoresInv' /\ FleetInv'
  BY <1>1, <1>3, StoresIdle, FleetIdles
<1>7. AccountsInv'
  BY <1>1, <1>2, AccountsIdle
<1>8. cut' = cut \/ cut'
  BY <1>1 DEF accountTables
<1>9. PlatformInv'
  BY <1>1, <1>3, <1>8, PlatformIdles
<1> QED BY <1>3, <1>4, <1>5, <1>6, <1>7, <1>9 DEF CampusInv

LEMMA ChildrenBegin ==
  ASSUME EmptySchool \/ RunningSchool, HandlersInit
  PROVE  YearsApart /\ BranchesApart
<1>1. /\ \A y \in Years : year[y].children = {}
      /\ \A b \in Branches : branch[b].children = {}
  BY DEF EmptySchool, RunningSchool, Lists
<1>2. YearsApart
  <2>1. PICK C, St : C = [y \in Years |-> year[y].children] /\ St = [y \in Years |-> year[y].status]
    OBVIOUS
  <2>2. TableApart("UpdateYear", Years, C, St)
    BY <1>1, <2>1, TableInit
  <2> QED BY <2>1, <2>2 DEF YearsApart
<1>3. BranchesApart
  <2>1. PICK C, St : C = [b \in Branches |-> branch[b].children] /\ St = [b \in Branches |-> branch[b].status]
    OBVIOUS
  <2>2. TableApart("UpdateBranch", Branches, C, St)
    BY <1>1, <2>1, TableInit
  <2> QED BY <2>1, <2>2 DEF BranchesApart
<1> QED BY <1>2, <1>3

LEMMA CampusBegins == CampusInit => CampusInv
<1> SUFFICES ASSUME CampusInit PROVE CampusInv
  OBVIOUS
<1>1. HandlersInit /\ HostelInit /\ InventoryInit /\ TransportInit /\ AccountsInit /\ ConsoleInit /\ TenancyInit
      /\ (EmptySchool \/ RunningSchool)
  BY DEF CampusInit
<1>2. CampusRequests
  BY <1>1 DEF HandlersInit, CampusRequests
<1> QED BY <1>1, <1>2, HostelInitTyped, HostelInitOK, SchoolInit, ChildrenBegin, StoresInitOK, FleetInitOK,
           AccountsBegins, PlatformBegins DEF CampusInv

LEMMA CampusKeeps == CampusInv /\ [CampusNext]_campusVars => CampusInv'
<1> SUFFICES ASSUME CampusInv, [CampusNext]_campusVars PROVE CampusInv'
  OBVIOUS
<1>1. ASSUME NEW d, AtDesk(d) PROVE CampusInv'
  BY <1>1, SchoolDeskKeeps, HostelDesksKeep, StoresDeskKeeps, FleetDeskKeeps, AccountsDeskKeeps, PlatformDeskKeeps
     DEF AtDesk
<1> QED BY <1>1, CampusStutters DEF CampusNext

LEMMA CampusChildren ==
  ASSUME CampusInv
  PROVE  OneSubmission
<1>1. ASSUME NEW y \in Years PROVE Cardinality(year[y].children) <= AtOnceAtMost
  <2>1. PICK C, St : C = [k \in Years |-> year[k].children] /\ St = [k \in Years |-> year[k].status]
    OBVIOUS
  <2>2. TableApart("UpdateYear", Years, C, St)
    BY <2>1 DEF CampusInv, YearsApart
  <2>3. Cardinality(C[y]) <= AtOnceAtMost
    BY <2>2, TableCard
  <2> QED BY <2>1, <2>3
<1>2. ASSUME NEW b \in Branches PROVE Cardinality(branch[b].children) <= AtOnceAtMost
  <2>1. PICK C, St : C = [k \in Branches |-> branch[k].children] /\ St = [k \in Branches |-> branch[k].status]
    OBVIOUS
  <2>2. TableApart("UpdateBranch", Branches, C, St)
    BY <2>1 DEF CampusInv, BranchesApart
  <2>3. Cardinality(C[b]) <= AtOnceAtMost
    BY <2>2, TableCard
  <2> QED BY <2>1, <2>3
<1>3. ASSUME NEW a \in Assets PROVE Cardinality(asset[a].records) <= AtOnceAtMost
  <2>1. PICK C, St : C = [k \in Assets |-> asset[k].records] /\ St = [k \in Assets |-> asset[k].status]
    OBVIOUS
  <2>2. TableApart("UpdateAsset", Assets, C, St)
    BY <2>1 DEF CampusInv, StoresInv, AssetsApart
  <2>3. Cardinality(C[a]) <= AtOnceAtMost
    BY <2>2, TableCard
  <2> QED BY <2>1, <2>3
<1>4. ASSUME NEW v \in Vehicles PROVE Cardinality(vehicle[v].records) <= AtOnceAtMost
  <2>1. PICK C, St : C = [k \in Vehicles |-> vehicle[k].records] /\ St = [k \in Vehicles |-> vehicle[k].status]
    OBVIOUS
  <2>2. TableApart("UpdateVehicle", Vehicles, C, St)
    BY <2>1 DEF CampusInv, FleetInv, VehiclesApart
  <2>3. Cardinality(C[v]) <= AtOnceAtMost
    BY <2>2, TableCard
  <2> QED BY <2>1, <2>3
<1>5. ASSUME NEW t \in Routes PROVE Cardinality(route[t].stops) <= AtOnceAtMost
  <2>1. PICK C, St : C = [k \in Routes |-> route[k].stops] /\ St = [k \in Routes |-> route[k].status]
    OBVIOUS
  <2>2. TableApart("UpdateRoute", Routes, C, St)
    BY <2>1 DEF CampusInv, FleetInv, RoutesApart
  <2>3. Cardinality(C[t]) <= AtOnceAtMost
    BY <2>2, TableCard
  <2> QED BY <2>1, <2>3
<1>6. \A k \in RoleKeys : Cardinality({g.edit : g \in grants[k]} \ {0}) <= AtOnceAtMost
  BY GrantsApartCard DEF CampusInv, PlatformInv, ConsoleInv
<1> QED BY <1>1, <1>2, <1>3, <1>4, <1>5, <1>6 DEF OneSubmission

LEMMA CampusImplies ==
  CampusInv => /\ CampusTypeOK /\ LogsTell /\ OneSubmission
               /\ HistoryEndsHere /\ NothingOutlives /\ OneAnswerPerSecret
<1> SUFFICES ASSUME CampusInv
             PROVE  /\ CampusTypeOK /\ LogsTell /\ OneSubmission
                    /\ HistoryEndsHere /\ NothingOutlives /\ OneAnswerPerSecret
  OBVIOUS
<1>1. CampusTypeOK
  BY CampusHas DEF CampusInv, CampusTypeOK
<1>2. LogsTell
  BY StockMeans, ConsoleTypes DEF CampusInv, StoresInv, PlatformInv, LogsTell
<1>3. HistoryEndsHere
  BY DEF CampusInv, SchoolInv, HistoriesInv
<1>4. NothingOutlives /\ OneAnswerPerSecret
  BY AccountsEnds, AccountsImplies DEF CampusInv, AccountsInv
<1> QED BY <1>1, <1>2, <1>3, <1>4, CampusChildren

LEMMA CampusAlways == CampusSpec => []CampusInv
BY CampusBegins, CampusKeeps, PTL DEF CampusSpec

\* All desks at once, every variable holds a value of its table.
THEOREM CampusTyped == CampusSpec => []CampusTypeOK
BY CampusAlways, CampusImplies, PTL

\* All desks at once, stock is never below zero and, one request at a time, what its
\* movements add up to; the console's log tells of changes that were made, and of
\* each unless its handler was cut short.
THEOREM LogsTellWhatHappened == CampusSpec => []LogsTell
BY CampusAlways, CampusImplies, PTL

\* All desks at once, children that an edit replaces are those of one submission,
\* or of one for each request that overlaps.
THEOREM SubmissionsKeptApart == CampusSpec => []OneSubmission
BY CampusAlways, CampusImplies, PTL

\* All desks at once, one request at a time, the history of every placed student
\* ends at the present placement and no entry repeats the one before it.
THEOREM HistoriesEndHere == CampusSpec => []HistoryEndsHere
BY CampusAlways, CampusImplies, PTL

\* All desks at once: when requests came one at a time, none was cut short and all
\* are answered, a suspended user has no session that began within the lifetime of
\* the index, and no counter of failed logins is left without its expiry.
THEOREM NothingOutlivesItsUser == CampusSpec => []NothingOutlives
BY CampusAlways, CampusImplies, PTL

\* Beside all other desks, too, a refresh secret is answered once, or once by each
\* of the refreshes that overlap.
THEOREM SecretsAnsweredBesideAll == CampusSpec => []OneAnswerPerSecret
BY CampusAlways, CampusImplies, PTL

LEMMA BedsStep ==
  ASSUME CampusInv, [CampusNext]_campusVars
  PROVE  [/\ BedsShared'
          /\ ~overlap => \A a \in Active : allocation'[a].status \in {"active", "vacated"}]_allocation
<1> SUFFICES ASSUME allocation' # allocation
             PROVE  /\ BedsShared'
                    /\ ~overlap => \A a \in Active : allocation'[a].status \in {"active", "vacated"}
  OBVIOUS
<1>1. HostelInv'
  BY CampusKeeps DEF CampusInv
<1>2. BedsShared'
  BY <1>1, HostelShares, PTL
<1>3. PICK d : AtDesk(d)
  BY DEF campusVars, campusTables, hostelTables, CampusNext
<1>4. HostelDesks(d)
  BY <1>3 DEF AtDesk, SchoolDesk, StoresDesk, FleetDesk, AccountsDesk, PlatformDesk, campusTables, hostelTables
<1> QED BY <1>2, <1>4, HostelDesksKeep

\* All desks at once, no bed is given to more residents, nor a student more beds,
\* than requests overlap; one request at a time, an allocation that is active is
\* ended by vacating it and by nothing else.
THEOREM BedsAreKept == CampusSpec => BedsKept
<1>1. CampusInv /\ [CampusNext]_campusVars =>
        [/\ BedsShared'
         /\ ~overlap => \A a \in Active : allocation'[a].status \in {"active", "vacated"}]_allocation
  BY BedsStep
<1> QED BY <1>1, CampusAlways, PTL DEF CampusSpec, BedsKept

-----------------------------------------------------------------------------
(* Tenants beside the other desks                                           *)

\* Only Tick moves the clock.
LEMMA ClockMoves ==
  ASSUME now \in Nat, AccountsNext
  PROVE  now' \in Nat /\ now <= now'
<1>1. ASSUME Tick PROVE now' = now + 1
  BY <1>1 DEF Tick
<1>2. ASSUME NEW r \in Requests,
             \/ LoginClear(r) \/ LoginFailed(r) \/ LoginWindow(r)
             \/ Refresh(r) \/ DestroyAllSessions(r) \/ ResetPassword(r)
             \/ UpdateRolesCommit(r) \/ AccountsDies(r)
      PROVE  UNCHANGED now
  BY <1>2 DEF LoginClear, LoginFailed, LoginWindow, Refresh, RotateWrite, RotateDelete, RotateUnindex,
              RefreshProfile, DestroyAllSessions, DestroyRead, DestroyKeys, DestroyIndex, ResetPassword,
              ResetDelete, ResetSet, UpdateRolesCommit, AccountsDies, accountTables
<1>3. ASSUME NEW r \in Requests, NEW u \in Users,
             \/ \E passwordOk \in BOOLEAN : LoginRead(r, u, passwordOk)
             \/ LogoutAll(r, u) \/ UpdateStatus(r, u) \/ CreateUser(r, u) \/ UpdateRolesDelete(r, u)
      PROVE  UNCHANGED now
  BY <1>3 DEF LoginRead, LogoutAll, UpdateStatus, CreateUser, UpdateRolesDelete, accountTables
<1>4. ASSUME NEW r \in Requests,
             \/ \E s \in Sessions : CreateSession(r, s) \/ RotateRead(r, s)
             \/ \E k \in Tokens : IssueInviteToken(r, k) \/ ResetRead(r, k)
      PROVE  UNCHANGED now
  BY <1>4 DEF CreateSession, RotateRead, IssueInviteToken, ResetRead, accountTables
<1>5. ASSUME \/ \E s \in Sessions : Logout(s)
             \/ \E u \in Users : ListSessions(u) \/ AttemptsExpire(u) \/ \E k \in Tokens : ForgotPassword(u, k)
             \/ \E k \in Tokens : TokenExpires(k)
      PROVE  UNCHANGED now
  BY <1>5 DEF Logout, ListSessions, AttemptsExpire, ForgotPassword, TokenExpires, accountTables
<1>6. Tick \/ UNCHANGED now
  <2>1. CASE SignedIn
    BY <1>2, <1>3, <1>4, <1>5, <2>1 DEF SignedIn
  <2>2. CASE LockedOut
    BY <1>2, <1>3, <1>4, <1>5, <2>2 DEF LockedOut
  <2>3. CASE Invited
    BY <1>2, <1>3, <1>4, <1>5, <2>3 DEF Invited
  <2> QED BY <1>2, <2>1, <2>2, <2>3 DEF AccountsNext
<1> QED BY <1>1, <1>6

\* A step of another desk, whose requests are Q.
LEMMA TenancyIdles ==
  ASSUME TenancyInv, UNCHANGED <<consoleTables, tenancyTables>>, now' \in Nat, now <= now',
         now' # now => \A r \in Requests : ~At(r, "Sign"),
         NEW Q, \A q \in Q : q.op \notin PlatformOps, Steps(Q)
  PROVE  TenancyInv'
<1>1. UNCHANGED <<catalog, grants, revokedAt, accessTokens, row, audit>>
  BY DEF consoleTables, tenancyTables
<1>2. ConsoleOK' /\ RightsKept
  <2>1. \A k : Granted(k)' = Granted(k)
    BY <1>1 DEF Granted
  <2>2. \A p \in Permissions : revokedAt[MemberRole][p] \in Nat
    BY TenancyAssumption DEF TenancyInv, ConsoleOK
  <2> QED BY <1>1, <2>1, <2>2 DEF TenancyInv, ConsoleOK, RightsKept
<1>3. \A t \in accessTokens : TokenOK(t)'
  BY <1>2, TokenKept DEF TenancyInv
<1>4. /\ req' = [r \in Requests |-> req'[r]]
      /\ \A r \in Requests : req'[r] = req[r] \/ req'[r].op \notin PlatformOps
  BY DEF TenancyInv, Steps, Idle, PlatformOps
<1>5. ASSUME NEW r \in Requests, NEW v, v = req'[r] PROVE RequestOK(v)'
  <2>1. CASE v.op \notin PlatformOps
    BY <2>1 DEF RequestOK, PlatformOps
  <2>2. CASE v = req[r]
    <3>1. RequestOK(v) /\ ConsoleOK
      BY <2>2 DEF TenancyInv, RequestOK
    <3>2. v.op = "Sign" => now' = now
      BY <2>2 DEF At
    <3> QED BY <1>2, <3>1, <3>2, RequestKept
  <2> QED BY <1>4, <1>5, <2>1, <2>2
<1>6. \A r \in Requests : RequestOK(req[r])'
  BY <1>5 DEF RequestOK
<1>7. RowsOK' /\ AuditOK'
  BY <1>1 DEF TenancyInv, RowsOK, RowOK, AuditOK
<1> QED BY <1>1, <1>2, <1>3, <1>4, <1>6, <1>7 DEF TenancyInv

LEMMA TenancyBeside ==
  ASSUME CampusInv, TenancyInv, [CampusNext]_campusVars
  PROVE  TenancyInv'
<1>1. now \in Nat
  BY DEF TenancyInv, ConsoleOK
<1>2. /\ \A q \in SchoolReq \cup HostelReq \cup StoresReq \cup FleetReq \cup AccountsReq : q.op \notin PlatformOps
  BY ReqOps, OpsApart
<1>3. CASE UNCHANGED campusVars
  BY <1>3, StutterOK DEF campusVars, campusTables, platformTables
<1>4. ASSUME NEW d, SchoolDesk(d) \/ HostelDesks(d) \/ StoresDesk(d) \/ FleetDesk(d) PROVE TenancyInv'
  <2>1. UNCHANGED <<accountTables, consoleTables, tenancyTables>>
    BY <1>4 DEF SchoolDesk, HostelDesks, StoresDesk, FleetDesk, campusTables, platformTables
  <2>2. now' = now
    BY <2>1 DEF accountTables
  <2>3. CASE SchoolDesk(d)
    <3>1. Steps(SchoolReq)
      BY <2>3, CampusHas, SchoolSteps DEF SchoolDesk
    <3> QED BY <1>1, <1>2, <2>1, <2>2, <3>1, TenancyIdles
  <2>4. CASE HostelDesks(d)
    <3>1. Steps(HostelReq)
      BY <2>4, CampusHas, HostelSteps DEF HostelDesks, CampusInv
    <3> QED BY <1>1, <1>2, <2>1, <2>2, <3>1, TenancyIdles
  <2>5. CASE StoresDesk(d)
    <3>1. Steps(StoresReq)
      BY <2>5, CampusHas, StoresSteps DEF StoresDesk
    <3> QED BY <1>1, <1>2, <2>1, <2>2, <3>1, TenancyIdles
  <2>6. CASE FleetDesk(d)
    <3>1. Steps(FleetReq)
      BY <2>6, CampusHas, FleetSteps DEF FleetDesk
    <3> QED BY <1>1, <1>2, <2>1, <2>2, <3>1, TenancyIdles
  <2> QED BY <1>4, <2>3, <2>4, <2>5, <2>6
<1>5. ASSUME NEW d, AccountsDesk(d) PROVE TenancyInv'
  <2>1. AccountsNext /\ Moves(AccountsOps) /\ UNCHANGED <<consoleTables, tenancyTables>>
        /\ (now' # now => \A r \in Requests : ~At(r, "Sign"))
    BY <1>5 DEF AccountsDesk, AccountsNext
  <2>2. Steps(AccountsReq)
    BY <2>1, CampusHas, AccountsSteps
  <2>3. now' \in Nat /\ now <= now'
    BY <1>1, <2>1, ClockMoves
  <2> QED BY <1>2, <2>1, <2>2, <2>3, TenancyIdles
<1>6. ASSUME NEW d, PlatformDesk(d) PROVE TenancyInv'
  <2>1. TenancyNext
    BY <1>6 DEF PlatformDesk, TenancyNext
  <2> QED BY <2>1, TenancyNextOK
<1> QED BY <1>3, <1>4, <1>5, <1>6 DEF CampusNext, AtDesk

\* All desks at once: what a request reads and writes, and the audit row it leaves,
\* are of the tenant of its user, and its permissions are no older than an access
\* token, while sessions are refreshed, users suspended and time passes beside it.
THEOREM TenantsKeptApartBesideAll == CampusSpec => []ActsForItsTenant
<1>1. CampusInit => TenancyInv
  BY TenancyInitOK DEF CampusInit
<1>2. CampusInv /\ TenancyInv /\ [CampusNext]_campusVars => TenancyInv'
  BY TenancyBeside
<1> QED BY <1>1, <1>2, CampusAlways, TenancyImplies, PTL DEF CampusSpec
=============================================================================
