CONSTANTS
  People = {l1, m1}
  Learner = l1
  Managers = {l1, m1}
  LessonSets = {{"reading"}, {"practical"}, {"checklist", "quiz"}}
  MaxAttempts = 1
  None = None
  Isolations = {"overlapping", "serial"}
  Slots = {1, 2}
  LastVersion = 2
  MaxExtra = 1
  MaxChanges = 1
  Steps = {course, form}
  CourseStep = course
  VerifiedSteps = {form}
  GatingSteps = {course, form}
SPECIFICATION Spec
INVARIANTS StepFollowsCourse RunFollowsSteps CompletionIsEarned
PROPERTY NothingIsTakenBack
CHECK_DEADLOCK FALSE
ACTION_CONSTRAINT Narrow
