\* What inbox.ts says of an acknowledgement, one transaction at a time.
CONSTANTS
  Managers = {m1}
  People = {p1}
  Workers = {w1}
  Overlap = FALSE
  MaxEdits = 1
  MaxRevisions = 2
  MaxReminders = 2
SPECIFICATION Spec
PROPERTY AcknowledgedAsShown
