\* One transaction at a time is enough.
CONSTANTS
  Managers = {m1, m2}
  Newcomers = {p1}
  Elsewhere = {}
  Records = {r1}
  Invites = {i1, i2}
  Filings = {k1}
  Places = {l1}
  None = None
  Isolations = {"serial"}
  HourlyLimit = 1
  MaxChanges = 2
SPECIFICATION Spec
INVARIANT SeparationIsFinal
CHECK_DEADLOCK FALSE
ACTION_CONSTRAINT WithinBudget
