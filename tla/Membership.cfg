\* Two managers, one newcomer, overlapping and not.  Every manager may be suspended: it may stop.
CONSTANTS
  Managers = {m1, m2}
  Newcomers = {p1}
  Elsewhere = {}
  Records = {r1}
  Invites = {i1, i2}
  Filings = {k1}
  Places = {l1}
  None = None
  Isolations = {"overlapping", "serial"}
  HourlyLimit = 1
  MaxChanges = 2
SPECIFICATION Spec
INVARIANTS JoinedOnce SeparationHolds
CHECK_DEADLOCK FALSE
SYMMETRY Interchangeable
ACTION_CONSTRAINT WithinBudget
