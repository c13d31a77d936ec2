SPECIFICATION Spec
CONSTANTS
  t1 = t1
  t2 = t2
  NoTask = NoTask
  Tasks = {t1}
  RepoTasks = {t1}
  Answers <- TwoCodes
  PlanSteps = 6
  MaxAttempts = 2
  MaxParallel = 1
  ReviewRounds = 1
  CodeScope = "task"
  OwnerMay = {}
  MaxRetries = 0
  MaxStarts = 0
  MayCrash = FALSE
  MaxLen = 8
  MaxTickets = 3
INVARIANTS
  TestedPush
CHECK_DEADLOCK FALSE
