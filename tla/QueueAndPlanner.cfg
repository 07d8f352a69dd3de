\* Scheduled endpoint: a tick is killed (maxDuration 60 s) before a lease (120 s) runs out.
\* Quiet hours: a day of twelve minutes; the clock goes back one minute early on the second day.
CONSTANTS
  Notifications = {"mail", "bell"}
  Workers = {w1, w2}
  Channel <- MCChannel
  Lease = 2
  MaxAttempts = 2
  Backoff <- MCBackoff
  QuietDelay = 1
  BatchSize = 2
  TickSpan = 1
  MaxCrashes = 1
  ClaimCap = 4
  Day = 12
  ClockBack = 1
  ChangeAt = 14
  Horizon = 26
  People = {1, 2}
  Patterns = {"day", "late"}
  Shape <- MCShape
  Holders <- MCHolders
  DayHours = 6
  LastDay = 2
  Gap = {11}
  Weeklies <- MCWeeklies
  Exceptions <- MCExceptions
  Offs <- MCOffs
  Elsewhere <- MCElsewhere
  Overtime = 7
  None = None
  Isolations = {"overlapping", "serial"}
  Copies = 2
  MaxChanges = 3
SPECIFICATION EitherSpec
INVARIANTS DisjointBatches QuietHoursDelayNeverDrop AvailabilityRulesAgree SlotsAreNotDuplicated
PROPERTIES DeliveryPromised ApprovedTimeOffIsLocked AutofillKeepsItsWord
CHECK_DEADLOCK FALSE
ACTION_CONSTRAINT Narrow
