CONSTANTS
  None = None
  Isolations = {"overlapping", "serial"}
  Requests = {r1, r2}
  Members = {owner, staff}
  Moderators = {owner}
  Announcers = {owner}
  Rooms = {c1, c2, c3}
  Names = {n1, n2, n3}
  MaxCustomChannels = 1
  MaxPosts = 1
  Employments = {1, 2, 3}
  Starters = {2}
  LinesOfReport <- MCLinesOfReport
  Threads = {t1, t2}
  Messages = {x1, x2}
  LastMessage = 3
  Owners = {customer}
  Staff = {agent}
  Cases = {k1}
  MaxNewCasesPerHour = 1
  LastStamp = 4
  MaxNotes = 1
  Grants = {g1, g2}
  Roles = {"owner", "manager", "employee"}
  Locations = {l1, l2}
  Sessions = {s1}
  All <- MCAll
  Scopable <- MCScopable
  ReadOnly <- MCReadOnly
  Presets <- MCPresets
  Characters = {"x", " ", ",", "lf", "cr", "quote", "bom"}
  MaxLength = 4
  Tables <- MCTables
  MaxImportRows = 1
  Calls = {a1, a2}
  Allowance = 2
  Window = 3
  Day = 4
  Wait = 1
  LastInstant = 7
  MaxCalls = 6
SPECIFICATION ServicesSpec
INVARIANTS
  CeilingHolds ReadWasShown CaseFollowsThread AnswersAgree FilesAreRead BurstIsBounded
CHECK_DEADLOCK FALSE
SYMMETRY Interchangeable
