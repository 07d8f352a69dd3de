\* Transactions overlap, and a worker that keeps ticking.
CONSTANTS
  Managers = {m1}
  People = {p1}
  Workers = {w1}
  Overlap = TRUE
  MaxEdits = 1
  MaxRevisions = 2
  MaxReminders = 2
SPECIFICATION FairSpec
 
PROPERTIES StampMeansNotified DueScheduleIsSettled
ACTION_CONSTRAINT Narrow
