----------------------------- MODULE Transport -----------------------------
(***************************************************************************)
(* Vehicles with their maintenance records, and the routes they serve with *)
(* their stops.  Records and stops are replaced as a whole, as in          *)
(* Inventory.  A route refers to its vehicle by a foreign key, to its fee  *)
(* structure by one that is set to NULL, and to its students by plain ids. *)
(***************************************************************************)
EXTENDS Handlers

CONSTANTS
  Vehicles, Routes,  \* ids of rows
  FeeStructures,     \* ids of the fee structures that routes may name
  MaxSubmissions     \* bound: submissions of a vehicle or a route

ASSUME TransportAssumption == MaxSubmissions \in Nat \ {0}

VARIABLES
  vehicle,       \* Vehicle rows: records are the submissions its maintenance records are of
  route,         \* Route rows: stops are the submissions its RouteStop rows are of
  feeStructure   \* whether FeeStructure rows are there; no invoice is generated from them here

transportTables == <<vehicle, route, feeStructure>>

Submissions == 1..MaxSubmissions

VehicleRow == [status : RowStatus, records : SUBSET Submissions, writes : 0..MaxSubmissions]
RouteRow == [status : RowStatus, vehicle : Vehicles \cup {None},
             feeStructure : FeeStructures \cup {None},
             stops : SUBSET Submissions, writes : 0..MaxSubmissions]

VehicleDto == [records : BOOLEAN]
RouteDto == [vehicle : Vehicles, feeStructure : FeeStructures \cup {None}, stops : BOOLEAN]

TransportInit ==
  /\ vehicle = [v \in Vehicles |-> [status |-> "none", records |-> {}, writes |-> 0]]
  /\ route = [t \in Routes |-> [status |-> "none", vehicle |-> None, feeStructure |-> None,
                                stops |-> {}, writes |-> 0]]
  /\ feeStructure = [f \in FeeStructures |-> "none"]

NewRows(row, given) == IF given THEN {row.writes + 1} ELSE {}

RoutesOf(v) == {t \in Routes : route[t].status = "kept" /\ route[t].vehicle = v}

-----------------------------------------------------------------------------
(* VehiclesService                                                          *)

CreateVehicle(v) ==
  /\ AtOnce /\ vehicle[v].status = "none"
  /\ \E dto \in VehicleDto : vehicle' = [vehicle EXCEPT ![v] =
       [status |-> "kept", records |-> NewRows(vehicle[v], dto.records), writes |-> 1]]
  /\ UNCHANGED <<route, feeStructure>>

\* The transaction up to its delete, and its rest.
UpdateVehicleDelete(r, v) ==
  /\ vehicle[v].status = "kept" /\ vehicle[v].writes < MaxSubmissions
  /\ \E dto \in VehicleDto : Starts(r, [op |-> "UpdateVehicle", row |-> v, dto |-> dto,
                                        seen |-> vehicle[v].records])
  /\ UNCHANGED transportTables

UpdateVehicleCommit(r) ==
  /\ At(r, "UpdateVehicle")
  /\ vehicle[req[r].row].status = "kept" /\ vehicle[req[r].row].writes < MaxSubmissions
  /\ vehicle' = [vehicle EXCEPT
       ![req[r].row].records = Replaced(@, req[r].seen,
                                        NewRows(vehicle[req[r].row], req[r].dto.records)),
       ![req[r].row].writes = @ + 1]
  /\ Ends(r) /\ UNCHANGED <<route, feeStructure>>

RemoveVehicleCount(r, v) ==
  /\ vehicle[v].status = "kept" /\ RoutesOf(v) = {}
  /\ Starts(r, [op |-> "RemoveVehicle", row |-> v])
  /\ UNCHANGED transportTables

\* The foreign key of a route restricts the delete.
RemoveVehicleDelete(r) ==
  /\ At(r, "RemoveVehicle") /\ vehicle[req[r].row].status = "kept"
  /\ RoutesOf(req[r].row) = {}
  /\ vehicle' = [vehicle EXCEPT ![req[r].row].status = "deleted", ![req[r].row].records = {}]
  /\ Ends(r) /\ UNCHANGED <<route, feeStructure>>

VehiclesController ==
  \/ \E v \in Vehicles : CreateVehicle(v)
  \/ \E r \in Requests :
       \/ UpdateVehicleCommit(r) \/ RemoveVehicleDelete(r)
       \/ \E v \in Vehicles : UpdateVehicleDelete(r, v) \/ RemoveVehicleCount(r, v)

-----------------------------------------------------------------------------
(* RoutesService and FeeStructuresService                                   *)

FeeStructureFound(f) == f # None => feeStructure[f] = "kept"

VehicleFound(v) == vehicle[v].status = "kept"

CreateRouteCheck(r, t) ==
  /\ route[t].status = "none"
  /\ \E dto \in RouteDto :
       /\ FeeStructureFound(dto.feeStructure) /\ VehicleFound(dto.vehicle)
       /\ Starts(r, [op |-> "CreateRoute", row |-> t, dto |-> dto])
  /\ UNCHANGED transportTables

\* The foreign keys refuse a vehicle or a fee structure that is gone.
CreateRouteInsert(r) ==
  /\ At(r, "CreateRoute") /\ route[req[r].row].status = "none"
  /\ VehicleFound(req[r].dto.vehicle) /\ FeeStructureFound(req[r].dto.feeStructure)
  /\ route' = [route EXCEPT ![req[r].row] = [status |-> "kept", vehicle |-> req[r].dto.vehicle,
       feeStructure |-> req[r].dto.feeStructure,
       stops |-> NewRows(route[req[r].row], req[r].dto.stops), writes |-> 1]]
  /\ Ends(r) /\ UNCHANGED <<vehicle, feeStructure>>

UpdateRouteCheck(r, t) ==
  /\ route[t].status = "kept" /\ route[t].writes < MaxSubmissions
  /\ \E dto \in RouteDto :
       /\ FeeStructureFound(dto.feeStructure) /\ VehicleFound(dto.vehicle)
       /\ Starts(r, [op |-> "UpdateRouteDelete", row |-> t, dto |-> dto])
  /\ UNCHANGED transportTables

UpdateRouteDelete(r) ==
  /\ At(r, "UpdateRouteDelete")
  /\ Goes(r, [op |-> "UpdateRoute", row |-> req[r].row, dto |-> req[r].dto,
              seen |-> route[req[r].row].stops])
  /\ UNCHANGED transportTables

UpdateRouteCommit(r) ==
  /\ At(r, "UpdateRoute")
  /\ route[req[r].row].status = "kept" /\ route[req[r].row].writes < MaxSubmissions
  /\ VehicleFound(req[r].dto.vehicle) /\ FeeStructureFound(req[r].dto.feeStructure)
  /\ route' = [route EXCEPT
       ![req[r].row].stops = Replaced(@, req[r].seen,
                                      NewRows(route[req[r].row], req[r].dto.stops)),
       ![req[r].row].writes = @ + 1,
       ![req[r].row].vehicle = req[r].dto.vehicle,
       ![req[r].row].feeStructure = req[r].dto.feeStructure]
  /\ Ends(r) /\ UNCHANGED <<vehicle, feeStructure>>

RemoveRoute(t) ==
  /\ AtOnce /\ route[t].status = "kept"
  /\ route' = [route EXCEPT ![t].status = "deleted", ![t].stops = {}]
  /\ UNCHANGED <<vehicle, feeStructure>>

RoutesController ==
  \/ \E t \in Routes : RemoveRoute(t)
  \/ \E r \in Requests :
       \/ CreateRouteInsert(r) \/ UpdateRouteDelete(r) \/ UpdateRouteCommit(r)
       \/ \E t \in Routes : CreateRouteCheck(r, t) \/ UpdateRouteCheck(r, t)

\* That the applicable classes exist is checked; they are kept as plain ids, which
\* nothing reads but a new invoice.
CreateFeeStructure(f) ==
  /\ AtOnce /\ feeStructure[f] = "none"
  /\ feeStructure' = [feeStructure EXCEPT ![f] = "kept"]
  /\ UNCHANGED <<vehicle, route>>

\* No invoice is generated from it: the schema unlinks its routes.
RemoveFeeStructure(f) ==
  /\ AtOnce /\ feeStructure[f] = "kept"
  /\ feeStructure' = [feeStructure EXCEPT ![f] = "deleted"]
  /\ route' = [t \in Routes |-> IF route[t].feeStructure = f
                                THEN [route[t] EXCEPT !.feeStructure = None] ELSE route[t]]
  /\ UNCHANGED vehicle

FeeStructuresController ==
  \E f \in FeeStructures : CreateFeeStructure(f) \/ RemoveFeeStructure(f)

TransportDies(r) == Dies(r) /\ UNCHANGED transportTables

TransportNext ==
  \/ VehiclesController \/ RoutesController \/ FeeStructuresController
  \/ \E r \in Requests : TransportDies(r)

-----------------------------------------------------------------------------
(* Properties                                                               *)

TransportTypeOK ==
  /\ vehicle \in [Vehicles -> VehicleRow]
  /\ route \in [Routes -> RouteRow]
  /\ feeStructure \in [FeeStructures -> RowStatus]
=============================================================================
