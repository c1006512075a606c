------------------------------- MODULE Console -------------------------------
(***************************************************************************)
(* The console of the platform: which permissions the fixed roles grant,   *)
(* the feature flags, the log of what was changed there, and the seed that *)
(* every release runs over the same tables.                                *)
(*                                                                         *)
(* A grant is tagged with the edit that inserted it, 0 for the seed; the   *)
(* primary key of RolePermission allows one per role and permission.  The  *)
(* seed is a script of single statements: it may be cut short and run      *)
(* again, and handlers run between its statements.                         *)
(***************************************************************************)
EXTENDS Accounts, Sequences

CONSTANTS
  RoleKeys, SuperAdmin, SchoolAdmins,  \* the roles, and those that get everything of a school
  Permissions, PlatformPermissions,    \* the catalog of this release
  OldCatalog,  \* the catalog of the release before
  Flags,       \* keys of the feature flags
  MaxEdits     \* bound: changes made in the console

ASSUME CatalogAssumption ==
  /\ IsFiniteSet(Permissions) /\ MaxEdits \in Nat
  /\ PlatformPermissions \subseteq Permissions /\ OldCatalog \subseteq Permissions
  /\ SuperAdmin \in RoleKeys \ SchoolAdmins /\ SchoolAdmins \subseteq RoleKeys

VARIABLES
  catalog,    \* Permission rows
  grants,     \* RolePermission rows of each role
  flag,       \* how many FeatureFlag rows each key has; nothing reads whether one is on
  account,    \* how many of AccountRows are there
  changes, logged,  \* changes made in the console, and PlatformAuditLog rows
  seeded,     \* history: a seed of this release has granted everything
  revokedAt   \* history: when a role last lost a permission

consoleTables == <<catalog, grants, flag, account, changes, logged, seeded, revokedAt>>

Grant == [permission : Permissions, edit : 0..MaxEdits]

\* The Super Admin's rows in the order the seed makes them.
AccountRows == <<"tenant", "user", "role">>

\* Only super_admin passes the guard of the console's routes.
Operator == account = Len(AccountRows)

SchoolPermissions == Permissions \ PlatformPermissions

Granted(k) == {g.permission : g \in grants[k]}

\* Every permission for super_admin, those of a school for its owner and its admin.
Default(k, permissions) ==
  CASE k = SuperAdmin -> permissions
    [] k \in SchoolAdmins -> permissions \cap SchoolPermissions
    [] OTHER -> {}

SeededWith(permissions) ==
  [k \in RoleKeys |-> [permission : Default(k, permissions), edit : {0}]]

\* A database that was never seeded, or that the release before has seeded.
ConsoleInit ==
  /\ \E permissions \in {{}, OldCatalog} :
       /\ catalog = permissions /\ grants = SeededWith(permissions)
       /\ flag = [f \in Flags |-> IF permissions = {} THEN 0 ELSE 1]
       /\ account = IF permissions = {} THEN 0 ELSE Len(AccountRows)
  /\ changes = 0 /\ logged = 0 /\ seeded = FALSE
  /\ revokedAt = [k \in RoleKeys |-> [p \in Permissions |-> 0]]

-----------------------------------------------------------------------------
(* PlatformAuditLogService                                                  *)

\* What every change of the console does last.
Record(r) ==
  /\ At(r, "Record") /\ logged' = logged + 1 /\ Ends(r)
  /\ UNCHANGED <<catalog, grants, flag, account, changes, seeded, revokedAt>>

-----------------------------------------------------------------------------
(* RolesService                                                             *)

\* The checks read what never changes or only grows; then the transaction's delete.
UpdatePermissionsDelete(r, k) ==
  /\ Operator /\ k # SuperAdmin /\ changes < MaxEdits
  /\ \E requested \in SUBSET (catalog \cap SchoolPermissions) :
       Starts(r, [op |-> "UpdatePermissions", role |-> k, requested |-> requested,
                  seen |-> grants[k]])
  /\ UNCHANGED consoleTables

\* A permission that was granted since the delete is refused as a duplicate.
UpdatePermissionsCommit(r) ==
  /\ At(r, "UpdatePermissions") /\ changes < MaxEdits
  /\ LET k == req[r].role
         since == grants[k] \ req[r].seen
         new == [permission : req[r].requested, edit : {changes + 1}]
     IN /\ \A g \in since : g.permission \notin req[r].requested
        /\ grants' = [grants EXCEPT ![k] = Replaced(@, req[r].seen, new)]
        /\ revokedAt' = [revokedAt EXCEPT ![k] = [p \in Permissions |->
             IF p \in Granted(k) /\ \A g \in grants'[k] : g.permission # p THEN now ELSE @[p]]]
  /\ changes' = changes + 1 /\ Goes(r, [op |-> "Record"])
  /\ UNCHANGED <<catalog, flag, account, logged, seeded>>

-----------------------------------------------------------------------------
(* FeatureFlagsService                                                      *)

\* Flags are never deleted: the row that findOrThrow finds is there to be updated.
UpdateFlag(r, f) ==
  /\ Operator /\ flag[f] > 0 /\ changes < MaxEdits
  /\ changes' = changes + 1 /\ Starts(r, [op |-> "Record"])
  /\ UNCHANGED <<catalog, grants, flag, account, logged, seeded, revokedAt>>

-----------------------------------------------------------------------------
(* prisma/seed.ts                                                           *)

SeedStarts(r) ==
  /\ Starts(r, [op |-> "SeedPermission"]) /\ UNCHANGED consoleTables

\* One upsert for each permission, in any order; the rows that are there stay.
SeedPermission(r) ==
  /\ At(r, "SeedPermission")
  /\ IF Permissions \subseteq catalog
     THEN /\ Goes(r, [op |-> "SeedGrants", left |-> {SuperAdmin} \cup SchoolAdmins])
          /\ UNCHANGED catalog
     ELSE /\ \E p \in Permissions \ catalog : catalog' = catalog \cup {p}
          /\ UNCHANGED <<req, overlap>>
  /\ UNCHANGED <<grants, flag, account, changes, logged, seeded, revokedAt>>

\* createMany with skipDuplicates.
WithDefaults(k) ==
  grants[k] \cup [permission : Default(k, Permissions) \ Granted(k), edit : {0}]

\* super_admin's first, then those of the school's owner and of its admin.
SeedGrants(r) ==
  /\ At(r, "SeedGrants")
  /\ \E k \in req[r].left :
       /\ SuperAdmin \in req[r].left => k = SuperAdmin
       /\ grants' = [grants EXCEPT ![k] = WithDefaults(k)]
       /\ seeded' = (seeded \/ k = SuperAdmin)
       /\ Goes(r, IF req[r].left = {k} THEN [op |-> "SeedFlag", left |-> Flags]
                  ELSE [op |-> "SeedGrants", left |-> req[r].left \ {k}])
  /\ UNCHANGED <<catalog, flag, account, changes, logged, revokedAt>>

\* findFirst; a flag that is there keeps its switch.
SeedFlagFind(r) ==
  /\ At(r, "SeedFlag")
  /\ \E f \in req[r].left :
       Goes(r, [op |-> "SeedFlagWrite", left |-> req[r].left \ {f}, key |-> f,
                found |-> flag[f] > 0])
  /\ UNCHANGED consoleTables

SeedFlagWrite(r) ==
  /\ At(r, "SeedFlagWrite")
  /\ flag' = [flag EXCEPT ![req[r].key] = IF req[r].found THEN @ ELSE @ + 1]
  /\ Goes(r, IF req[r].left = {} THEN [op |-> "SeedAccount", row |-> 1]
             ELSE [op |-> "SeedFlag", left |-> req[r].left])
  /\ UNCHANGED <<catalog, grants, account, changes, logged, seeded, revokedAt>>

\* The Super Admin's tenant, user and role, one upsert each.
SeedAccount(r) ==
  /\ At(r, "SeedAccount")
  /\ account' = IF account < req[r].row THEN req[r].row ELSE account
  /\ IF req[r].row = Len(AccountRows) THEN Ends(r)
     ELSE Goes(r, [req[r] EXCEPT !.row = @ + 1])
  /\ UNCHANGED <<catalog, grants, flag, changes, logged, seeded, revokedAt>>

Seed(r) == SeedPermission(r) \/ SeedGrants(r) \/ SeedFlagFind(r) \/ SeedFlagWrite(r) \/ SeedAccount(r)

-----------------------------------------------------------------------------
ConsoleDies(r) == AccountsDies(r) /\ UNCHANGED consoleTables

RolesController ==
  \E r \in Requests :
    \/ UpdatePermissionsCommit(r) \/ Record(r)
    \/ \E k \in RoleKeys : UpdatePermissionsDelete(r, k)

FlagsController == \E r \in Requests, f \in Flags : UpdateFlag(r, f)

SeedNext == \E r \in Requests : SeedStarts(r) \/ Seed(r)

ConsoleNext ==
  \/ (RolesController \/ FlagsController \/ SeedNext) /\ UNCHANGED accountTables
  \/ \E r \in Requests : ConsoleDies(r)

-----------------------------------------------------------------------------
(* Properties                                                               *)

\* What a role may hold: no permission twice, none of the platform but for
\* super_admin, who holds everything once a seed has granted it.  A flag has one
\* row, or one for each seed that overlaps.
MayHold(k) ==
  /\ grants[k] \subseteq Grant /\ Cardinality(Granted(k)) = Cardinality(grants[k])
  /\ k # SuperAdmin => Granted(k) \subseteq SchoolPermissions
  /\ k = SuperAdmin /\ seeded => Granted(k) = catalog

ConsoleTypeOK ==
  /\ catalog \in SUBSET Permissions
  /\ DOMAIN grants = RoleKeys /\ \A k \in RoleKeys : MayHold(k)
  /\ flag \in [Flags -> 0..AtOnceAtMost]
  /\ account \in 0..Len(AccountRows)
  /\ changes \in 0..MaxEdits /\ logged \in 0..MaxEdits /\ seeded \in BOOLEAN
  /\ revokedAt \in [RoleKeys -> [Permissions -> 0..MaxTime]]

\* The log of the console tells of changes that were made, and of each of them
\* unless its handler was cut short before its last statement.
ConsoleLogged ==
  /\ logged <= changes
  /\ ~cut => changes = logged + Cardinality({r \in Requests : At(r, "Record")})
=============================================================================
