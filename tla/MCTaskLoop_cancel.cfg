SPECIFICATION FairSpec
CONSTANTS
  t1 = t1
  t2 = t2
  NoTask = NoTask
  Tasks = {t1}
  RepoTasks = {t1}
  Answers <- CodeOnly
  PlanSteps = 12
  MaxAttempts = 2
  MaxParallel = 1
  ReviewRounds = 1
  CodeScope = "task"
  OwnerMay = {"cancel"}
  MaxRetries = 0
  MaxStarts = 0
  MayCrash = FALSE
  MaxLen = 9
  MaxTickets = 3
PROPERTY
  CancelledStays
CHECK_DEADLOCK FALSE
