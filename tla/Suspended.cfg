SPECIFICATION MCSpec
CONSTANTS
  Classes = {k1, k2}
  Sections = {x1, x2}
  Subjects = {j1}
  Years = {y1}
  Branches = {b1}
  Students = {s1}
  Parents = {p1}
  Teachers = {t1}
  Assignments = {g1}
  MaxPlacements = 3
  MaxReplaced = 3
  Hostels = {h1}
  Rooms = {m1, m2}
  Allocations = {a1, a2, a3}
  Residents = {d1, d2}
  Visitors = {v1}
  Complaints = {c1}
  MaxBeds = 1
  Categories = {c1}
  Items = {i1}
  Assets = {i1}
  Changes <- Deliveries
  Quantities = {0, 2}
  MaxMoves = 3
  MaxWrites = 4
  Vehicles = {v1}
  Routes = {t1}
  FeeStructures = {f1}
  MaxSubmissions = 3
  Users = {u1}
  Sessions = {s1}
  Tokens = {k1}
  Roles = {o1, o2}
  AttemptLimit = 2
  Ttl = 2
  MaxTime = 3
  MaxSecrets = 3
  RoleKeys = {o0, o1, o2}
  SuperAdmin = o0
  SchoolAdmins = {o1}
  Permissions = {g1, g2, g3}
  PlatformPermissions = {g3}
  OldCatalog = {g1, g3}
  Flags = {f1}
  MaxEdits = 2
  Tenants <- Schools
  Members <- Staff
  TenantOf <- StaffOf
  MemberRole = o1
  Rows = {w1}
  AccessTtl = 2
  MaxTokens = 2
  Requests = {r1, r2}
  None = None
SYMMETRY Symmetry
INVARIANT SuspensionKillsEverySession
CHECK_DEADLOCK FALSE
