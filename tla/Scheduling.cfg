\* No two managers edit the same shift at once; everything else overlaps.
CONSTANTS
  Shifts = {s1, s2}
  People = {p1, p2}
  Times = {early, late}
  Managers = {m1}
  None = None
  StaleWrites = FALSE
  MaxChanges = 6
SYMMETRY Symmetry
ACTION_CONSTRAINT Narrow
SPECIFICATION Spec
INVARIANTS ChangedFlagHonest
PROPERTIES SwapAsAgreed PublicationReachesHolder LossIsAnnounced
CHECK_DEADLOCK FALSE
