\* Tick: two that overlap, two organizations, one error, death or deadline.
\* Billing: three provider events in any order, some again; two periods; grace of two days.
CONSTANTS
  broken = broken
  sound = sound
  s1 = s1
  s2 = s2
  Workers = {w1, w2}
  Orgs = {broken, sound}
  Schedules = {s1, s2}
  OrgOf <- MCOrgOf
  Doubtful = {s2}
  Broken = {broken}
  Chores <- MCChores
  ChoreRows <- MCChoreRows
  BatchSize = 1
  MaxBatches = 2
  None = None
  MaxTrouble = 1
  Grace = 2
  MaxEvents = 3
  MaxPeriods = 2
SPECIFICATION WorkerSpec
INVARIANTS PastDueMeansUnpaid
PROPERTIES UndoneIsExplained DueIsDone GraceIsGranted WhatIsDueHappens
CHECK_DEADLOCK FALSE
