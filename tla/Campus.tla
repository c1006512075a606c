------------------------------- MODULE Campus -------------------------------
(***************************************************************************)
(* The administration of a school: its structure and people, the hostel,   *)
(* the stores and the fleet, the accounts of its users, and the platform   *)
(* they run on.                                                            *)
(*                                                                         *)
(* The desks of one component that touch the same tables are one desk; two *)
(* desks share at most tables that one of them only reads.                 *)
(***************************************************************************)
EXTENDS School, Hostel, Inventory, Transport, Tenancy

platformTables == <<accountTables, consoleTables, tenancyTables>>

campusTables == <<hostelTables, inventoryTables, transportTables, platformTables>>

\* A school that is set up from nothing, and one whose pupils already have places.
CampusInit ==
  /\ EmptySchool \/ RunningSchool
  /\ HostelInit /\ InventoryInit /\ TransportInit
  /\ AccountsInit /\ ConsoleInit /\ TenancyInit /\ HandlersInit

\* The statements a handler of each desk may be at.
SchoolOps == {"UpdateYear", "UpdateBranch", "CreateProfile", "UpdateStudent"}
HostelOps == {"RemoveHostel", "RemoveRoom", "AllocateBed", "AllocateStudent", "AllocateCreate",
              "ReassignRoom", "ReassignBed", "ReassignUpdate", "Vacate"}
StoresOps == {"Movement", "UpdateAsset"}
FleetOps == {"UpdateVehicle", "RemoveVehicle", "CreateRoute", "UpdateRouteDelete", "UpdateRoute"}
AccountsOps == {"LoginClear", "LoginFailed", "LoginWindow", "CreateSession", "RotateWrite",
                "RotateDelete", "RotateUnindex", "RefreshProfile", "DestroyRead", "DestroyKeys",
                "DestroyIndex", "Invite", "ResetDelete", "ResetSet", "UpdateRoles"}
PlatformOps == {"Record", "UpdatePermissions", "SeedPermission", "SeedGrants", "SeedFlag",
                "SeedFlagWrite", "SeedAccount", "Sign", "Guard", "Handle", "Audit"}

SetupDesk == SchoolStructure \/ \E y \in Years : CreateYear(y) \/ RemoveYear(y)

PeopleDesk == \/ SchoolPeople
              \/ \E k \in Classes : CreateClass(k)
              \/ \E x \in Sections : CreateSection(x)

SchoolDesk(d) ==
  /\ \/ d = "setup" /\ SetupDesk
     \/ d = "lists" /\ SchoolLists
     \/ d = "people" /\ PeopleDesk
  /\ Moves(SchoolOps) /\ UNCHANGED campusTables

HostelDesks(d) ==
  /\ (d = "beds" /\ HostelBeds) \/ (d = "front" /\ HostelDesk)
  /\ Moves(HostelOps)
  /\ UNCHANGED <<schoolTables, inventoryTables, transportTables, platformTables>>

StoresDesk(d) ==
  /\ (d = "stock" /\ StockNext) \/ (d = "assets" /\ AssetsNext)
  /\ Moves(StoresOps)
  /\ UNCHANGED <<schoolTables, hostelTables, transportTables, platformTables>>

FleetDesk(d) ==
  /\ d = "fleet" /\ TransportNext /\ Moves(FleetOps)
  /\ UNCHANGED <<schoolTables, hostelTables, inventoryTables, platformTables>>

\* No time passes between the read of a profile and the signature at another desk.
AccountsDesk(d) ==
  /\ \/ d = "sessions" /\ SignedIn
     \/ d = "lockout" /\ LockedOut
     \/ d = "invitations" /\ Invited
     \/ d \in {"sessions", "lockout", "invitations"} /\ \E r \in Requests : AccountsDies(r)
  /\ Moves(AccountsOps) /\ (now' # now => \A r \in Requests : ~At(r, "Sign"))
  /\ UNCHANGED <<schoolTables, hostelTables, inventoryTables, transportTables>>
  /\ UNCHANGED <<consoleTables, tenancyTables>>

PlatformDesk(d) ==
  /\ \/ d = "console" /\ ConsoleNext /\ UNCHANGED tenancyTables
     \/ d = "requests" /\ Routed
     \/ d = "guards" /\ Guarded
     \/ d \in {"requests", "guards"} /\ \E r \in Requests : TenancyDies(r)
  /\ Moves(PlatformOps)
  /\ UNCHANGED <<schoolTables, hostelTables, inventoryTables, transportTables>>

Desks == {"setup", "lists", "people", "beds", "front", "stock", "assets", "fleet",
          "sessions", "lockout", "invitations", "console", "requests",
          "guards"}

AtDesk(d) == \/ SchoolDesk(d) \/ HostelDesks(d) \/ StoresDesk(d) \/ FleetDesk(d)
             \/ AccountsDesk(d) \/ PlatformDesk(d)

CampusNext == \E d \in Desks : AtDesk(d)

campusVars == <<schoolTables, campusTables, req, overlap>>

CampusSpec == CampusInit /\ [][CampusNext]_campusVars

-----------------------------------------------------------------------------
(* Properties                                                               *)

\* Every variable holds a value of its table.
CampusTypeOK ==
  /\ SchoolTypeOK /\ HostelTypeOK /\ InventoryTypeOK /\ TransportTypeOK
  /\ AccountsTypeOK /\ ConsoleTypeOK /\ TenancyTypeOK

\* Rows that every edit replaces as a whole (terms and holidays, buildings and
\* departments, maintenance records, stops, what the console granted a role) are
\* those of one submission, or of one for each request that overlaps: none of
\* before is left among them.
OneSubmission ==
  /\ \A y \in Years : Cardinality(year[y].children) <= AtOnceAtMost
  /\ \A b \in Branches : Cardinality(branch[b].children) <= AtOnceAtMost
  /\ \A a \in Assets : Cardinality(asset[a].records) <= AtOnceAtMost
  /\ \A v \in Vehicles : Cardinality(vehicle[v].records) <= AtOnceAtMost
  /\ \A t \in Routes : Cardinality(route[t].stops) <= AtOnceAtMost
  /\ \A k \in RoleKeys : Cardinality({g.edit : g \in grants[k]} \ {0}) <= AtOnceAtMost

\* What a log tells is what happened: the movements of the stock add up to what is
\* there, and the log of the console tells of its changes.
LogsTell == StockKept /\ ConsoleLogged
=============================================================================
