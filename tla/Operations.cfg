CONSTANTS
  Shifts = {s1}
  Templates = {t1}
  People = {p1, m1}
  Managers = {m1}
  Natures = {{"verified"}, {"shared", "handoff"}}
  Roles = {r1}
  Handoffs = {h1}
  None = None
  Isolations = {"overlapping", "serial"}
  LastHour = 2
  MaxRevision = 3
  MaxChanges = 3
SPECIFICATION Spec
INVARIANTS RunFollowsShift ReminderReachedHolder NoteByWhoDidIt
PROPERTIES OpenTasksFollowShift 
CHECK_DEADLOCK FALSE
ACTION_CONSTRAINT Narrow
