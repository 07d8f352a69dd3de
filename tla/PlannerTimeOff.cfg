\* What slotted.ts says of approved time off, where one request ends in the hour the clocks skip.
CONSTANTS
  People = {1, 2}
  Patterns = {"day", "late"}
  Shape <- MCShape
  Holders <- MCHolders
  DayHours = 6
  LastDay = 2
  Gap = {11}
  Weeklies <- MCWeeklies
  Exceptions <- MCExceptions
  Offs <- MCOffs
  Elsewhere <- MCElsewhere
  Overtime = 7
  None = None
  Isolations = {"serial"}
  Copies = 2
  MaxChanges = 3
SPECIFICATION PlannerSpec
PROPERTY TimeOffIsNeverAssignable
CHECK_DEADLOCK FALSE
ACTION_CONSTRAINT Narrow
