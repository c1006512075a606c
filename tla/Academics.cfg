SPECIFICATION MCSpec
CONSTANTS
  Classes = {k1}
  Sections = {x1, x2}
  Subjects = {j1}
  Years = {y1}
  Branches = {}
  Students = {s1, s2}
  Parents = {p1, p2}
  Teachers = {t1}
  Assignments = {g1, g2}
  MaxPlacements = 1
  MaxReplaced = 1
  Exams = {e1, e2}
  MaxMarks = {1, 2}
  Sheets <- SomeSheets
  MaxEntries = 2
  Substitutions = {u1}
  Slots = 2
  MaxBatches = 2
  Homeworks = {h1}
  Leaves = {v1, v2}
  Days = {d1}
  Staff = {t1}
  MaxAnswers = 2
  MeetingSlots = {z1}
  Threads = {h1}
  Posts = {q1}
  Linked = {p1, p2, t1}
  MaxUnread = 2
  MaxMessages = 2
  DocumentIds = {d1}
  CertificateIds = {c1}
  Requests = {r1, r2}
  None = None
SYMMETRY Symmetry
INVARIANTS
  AcademicsTypeOK
  RanksAreCompetition
  GradedSinceAnswered
  LinksCanBeFollowed
PROPERTIES
  PublishedMarksStand
  GeneratedClashFree
  BookingStands
CHECK_DEADLOCK FALSE
