SPECIFICATION FairSpec
CONSTANTS
  t1 = t1
  t2 = t2
  NoTask = NoTask
  Tasks = {t1, t2}
  RepoTasks = {t1}
  Answers <- ActionOrCode
  PlanSteps = 12
  MaxAttempts = 2
  MaxParallel = 2
  ReviewRounds = 1
  CodeScope = "step"
  OwnerMay = {}
  MaxRetries = 0
  MaxStarts = 0
  MayCrash = FALSE
  MaxLen = 5
  MaxTickets = 2
INVARIANTS
  WaitingCanWake
  ActionOnce
PROPERTIES
  AnswerReachesTask
  OutcomeRecorded
CHECK_DEADLOCK FALSE
