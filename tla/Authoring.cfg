CONSTANTS
  Managers = {m1, m2}
  Sections = {s1, s2}
  Tasks = {t1, t2}
  Kinds = {"course", "operations", "onboarding"}
  Isolations = {"overlapping", "serial"}
  None = None
  LastVersion = 3
  MaxChanges = 7
SPECIFICATION Spec
INVARIANTS PublishedIsWhole OrderIsSettled
PROPERTIES PublishedIsFrozen DraftContinuesPublished
CHECK_DEADLOCK FALSE
SYMMETRY Interchangeable
