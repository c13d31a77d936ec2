SPECIFICATION Spec
CONSTANTS
  t1 = t1
  t2 = t2
  NoTask = NoTask
  Tasks = {t1}
  RepoTasks = {t1}
  Answers <- CodeOnly
  PlanSteps = 12
  MaxAttempts = 2
  MaxParallel = 1
  ReviewRounds = 1
  CodeScope = "task"
  OwnerMay = {}
  MaxRetries = 0
  MaxStarts = 1
  MayCrash = TRUE
  MaxLen = 9
  MaxTickets = 3
INVARIANTS
  WaitingCanWake
CHECK_DEADLOCK FALSE
