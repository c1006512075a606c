------------------------------- MODULE Tenancy -------------------------------
(***************************************************************************)
(* The way of a request through the server: the context its middleware     *)
(* opens, the token its guards read, the tenant condition that Prisma's    *)
(* extension puts on every query, and the audit row written after the      *)
(* answer.                                                                 *)
(*                                                                         *)
(* Accounts models the sessions that login and refresh keep; here the two  *)
(* handlers are what they do for an access token: read the user's profile, *)
(* then sign.  A row stands for a row of any tenant-scoped table together  *)
(* with the child rows a handler writes with it.                           *)
(***************************************************************************)
EXTENDS Console

CONSTANTS
  Tenants,
  Members,     \* users of the schools
  TenantOf,    \* the tenant of each member
  MemberRole,  \* the role the members hold
  Rows,        \* ids of rows
  AccessTtl,   \* lifetime of an access token, in ticks
  MaxTokens    \* bound: access tokens that are out

ASSUME TenancyAssumption ==
  /\ TenantOf \in [Members -> Tenants] /\ MemberRole \in RoleKeys
  /\ Members # {} /\ AccessTtl \in Nat

VARIABLES
  accessTokens,  \* signed access tokens
  row,     \* rows of tenant-scoped tables: their tenant, their children's, who wrote them last
  audit    \* AuditLog rows: their tenant, and whose request they tell of

tenancyTables == <<accessTokens, row, audit>>

AccessToken == [member : Members, tenant : Tenants, permissions : SUBSET Permissions,
                until : 0..(MaxTime + AccessTtl)]
Row == [tenant : Tenants, children : Tenants, by : Members]
AuditRow == [tenant : Tenants, by : Members]

\* What the decorators of a route demand: all of these permissions, or any of them.
Demand == [of : SUBSET Permissions, any : BOOLEAN]

TenancyInit ==
  /\ accessTokens = {} /\ audit = {}
  /\ row = [w \in Rows |-> None]

-----------------------------------------------------------------------------
(* UsersService and AuthService                                             *)

ReadProfile(r, m) ==
  /\ Starts(r, [op |-> "Sign", member |-> m, permissions |-> Granted(MemberRole)])
  /\ UNCHANGED tenancyTables

SignAccessToken(r) ==
  /\ At(r, "Sign") /\ Cardinality(accessTokens) < MaxTokens
  /\ accessTokens' = accessTokens \cup {[member |-> req[r].member, tenant |-> TenantOf[req[r].member],
                             permissions |-> req[r].permissions, until |-> now + AccessTtl]}
  /\ Ends(r) /\ UNCHANGED <<row, audit>>

\* Time passes, but not between the read of a profile and the signature.
TokensAge ==
  /\ Tick /\ \A r \in Requests : ~At(r, "Sign")
  /\ accessTokens' = {t \in accessTokens : now' < t.until}
  /\ UNCHANGED <<row, audit>>

-----------------------------------------------------------------------------
(* RequestContext and the guards                                            *)

\* The middleware runs the rest of the request in a store of its own.
Arrives(r) ==
  /\ Starts(r, [op |-> "Guard", member |-> None, tenant |-> None, permissions |-> {},
                at |-> 0, read |-> {}])
  /\ UNCHANGED tenancyTables

\* PermissionsGuard, AnyPermissionsGuard.
Demanded(demand, permissions) ==
  \/ demand.of = {}
  \/ ~demand.any /\ demand.of \subseteq permissions
  \/ demand.any /\ demand.of \cap permissions # {}

\* The payload of a token that has not expired is put into the store of this request.
Authenticated(r) ==
  /\ At(r, "Guard")
  /\ \E t \in accessTokens, demand \in Demand :
       /\ now < t.until /\ Demanded(demand, t.permissions)
       /\ Goes(r, [op |-> "Handle", member |-> t.member, tenant |-> t.tenant,
                   permissions |-> t.permissions, at |-> now, read |-> {}])
  /\ UNCHANGED tenancyTables

\* A public route: the store stays as the middleware opened it.
Public(r) ==
  /\ At(r, "Guard") /\ Goes(r, [req[r] EXCEPT !.op = "Handle"])
  /\ UNCHANGED tenancyTables

-----------------------------------------------------------------------------
(* applyTenantScoping                                                       *)

Finds == {"findUnique", "findFirst", "findMany", "count", "aggregate", "groupBy"}
Updates == {"update", "updateMany"}
Deletes == {"delete", "deleteMany"}
UniqueWhereOperations == {"findUnique", "update", "upsert", "delete"}

\* The rows an operation asks for, and the tenants it would take them from: no
\* service names one in `where`, and what a caller may put there is not trusted.
Where(op) ==
  [ids : IF op \in UniqueWhereOperations THEN {{w} : w \in Rows} ELSE SUBSET Rows,
   tenants : SUBSET Tenants]

\* Merged flat into a unique selector, where the later key wins; else wrapped in AND.
ScopedWhere(op, where, tenant) ==
  IF op \in UniqueWhereOperations THEN [where EXCEPT !.tenants = {tenant}]
  ELSE [where EXCEPT !.tenants = @ \cap {tenant}]

Matching(where) == {w \in where.ids : row[w] # None /\ row[w].tenant \in where.tenants}

\* Mutant: the spread of the data comes after the tenant, and wins.
StampedUnder(r, data) ==
  [tenant |-> data.tenant, children |-> req[r].tenant, by |-> req[r].member]

\* The tenant of the data is overwritten.  What is nested in them is not reached:
\* the handlers stamp the tenant of their context there themselves.
Stamped(r, data) ==
  [tenant |-> req[r].tenant, children |-> req[r].tenant, by |-> req[r].member]

Data == [tenant : Tenants]

\* A tenant-scoped query with no tenant in context throws.
Queries(r) == At(r, "Handle") /\ req[r].tenant # None

FindRows(r) ==
  /\ Queries(r)
  /\ \E op \in Finds : \E where \in Where(op) :
       Goes(r, [req[r] EXCEPT !.read = @ \cup
         {row[w].tenant : w \in Matching(ScopedWhere(op, where, req[r].tenant))}])
  /\ UNCHANGED tenancyTables

CreateRow(r) ==
  /\ Queries(r)
  /\ \E w \in Rows, data \in Data : row[w] = None /\ row' = [row EXCEPT ![w] = Stamped(r, data)]
  /\ UNCHANGED <<accessTokens, audit, req, overlap>>

\* An update of one row may insert children; that of many writes fields only.
UpdateRows(r) ==
  /\ Queries(r)
  /\ \E op \in Updates : \E where \in Where(op), data \in Data :
       LET matching == Matching(ScopedWhere(op, where, req[r].tenant)) IN
       row' = [w \in Rows |-> IF w \notin matching THEN row[w]
                              ELSE IF op = "update" THEN Stamped(r, data)
                              ELSE [row[w] EXCEPT !.by = req[r].member]]
  /\ UNCHANGED <<accessTokens, audit, req, overlap>>

\* What does not match is created, unless the id is another tenant's.
UpsertRow(r) ==
  /\ Queries(r)
  /\ \E where \in Where("upsert"), data \in Data :
       LET matching == Matching(ScopedWhere("upsert", where, req[r].tenant)) IN
       /\ matching = {} => \A w \in where.ids : row[w] = None
       /\ row' = [w \in Rows |-> IF w \in where.ids THEN Stamped(r, data) ELSE row[w]]
  /\ UNCHANGED <<accessTokens, audit, req, overlap>>

DeleteRows(r) ==
  /\ Queries(r)
  /\ \E op \in Deletes : \E where \in Where(op) :
       LET matching == Matching(ScopedWhere(op, where, req[r].tenant)) IN
       row' = [w \in Rows |-> IF w \in matching THEN None ELSE row[w]]
  /\ UNCHANGED <<accessTokens, audit, req, overlap>>

-----------------------------------------------------------------------------
(* AuditInterceptor                                                         *)

\* The answer of a request; one that may write goes on, out of its caller's sight.
Answers(r) == At(r, "Handle") /\ Ends(r) /\ UNCHANGED tenancyTables

AnswersMutation(r) ==
  /\ At(r, "Handle") /\ Goes(r, [req[r] EXCEPT !.op = "Audit"])
  /\ UNCHANGED tenancyTables

\* A create like any other; without a tenant in context there is none.
WriteAuditRow(r) ==
  /\ At(r, "Audit")
  /\ audit' = IF req[r].tenant = None THEN audit
              ELSE audit \cup {[tenant |-> req[r].tenant, by |-> req[r].member]}
  /\ Ends(r) /\ UNCHANGED <<accessTokens, row>>

-----------------------------------------------------------------------------
Query(r) == FindRows(r) \/ CreateRow(r) \/ UpdateRows(r) \/ UpsertRow(r) \/ DeleteRows(r)

LetIn(members) ==
  \E r \in Requests :
    \/ SignAccessToken(r) \/ Arrives(r) \/ Authenticated(r)
    \/ \E m \in members : ReadProfile(r, m)

\* The routes of a school, all through one chain of middleware, guards and interceptor.
Routed ==
  /\ \/ LetIn(Members)
     \/ \E r \in Requests :
          \/ Public(r) \/ Query(r)
          \/ Answers(r) \/ AnswersMutation(r) \/ WriteAuditRow(r)
  /\ UNCHANGED <<accountTables, consoleTables>>

\* The same guards for one of the members, while the console edits their role and
\* tokens age.
Guarded ==
  \/ (LetIn({CHOOSE m \in Members : TRUE}) \/ \E r \in Requests : Answers(r)) /\ UNCHANGED <<accountTables, consoleTables>>
  \/ TokensAge /\ UNCHANGED consoleTables
  \/ /\ \E r \in Requests :
          \/ UpdatePermissionsDelete(r, MemberRole) \/ UpdatePermissionsCommit(r) \/ Record(r)
     /\ UNCHANGED <<accountTables, tenancyTables>>

TenancyDies(r) == ConsoleDies(r) /\ UNCHANGED tenancyTables

\* All of them at once, with the whole console and a seed beside them.
TenancyNext ==
  \/ Routed \/ Guarded
  \/ ConsoleNext /\ UNCHANGED tenancyTables
  \/ \E r \in Requests : TenancyDies(r)

TenancySpec ==
  /\ AccountsInit /\ ConsoleInit /\ TenancyInit /\ HandlersInit
  /\ [][TenancyNext]_<<accountTables, consoleTables, tenancyTables, req, overlap>>

-----------------------------------------------------------------------------
(* Properties                                                               *)

TenancyTypeOK ==
  /\ accessTokens \in SUBSET AccessToken
  /\ row \in [Rows -> Row \cup {None}]
  /\ audit \in SUBSET AuditRow

\* However requests interleave, each acts for the tenant of its user and nothing
\* else: what it wrote, the children it wrote with it, what it read and the audit
\* row it left are of that tenant.  And it was let in with permissions that its
\* user's role grants, or did within the lifetime of an access token before.
ActsForItsTenant ==
  /\ \A w \in Rows : row[w] # None =>
       row[w].tenant = TenantOf[row[w].by] /\ row[w].children = row[w].tenant
  /\ \A a \in audit : a.tenant = TenantOf[a.by]
  /\ \A r \in Requests : At(r, "Handle") =>
       /\ \A t \in req[r].read : t = TenantOf[req[r].member]
       /\ \A p \in req[r].permissions :
            p \in Granted(MemberRole) \/ req[r].at <= revokedAt[MemberRole][p] + AccessTtl
=============================================================================
