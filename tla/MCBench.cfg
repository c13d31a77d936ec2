SPECIFICATION FairSpec
CONSTANTS
  p1 = p1
  p2 = p2
  Procs = {p1, p2}
  Suite <- TwoTasks
  Tool <- ToolOf
  Values = {"v1", "v2"}
  Fixture = "v1"
  Bad = {"wrong"}
  Replies <- SomeReplies
  Answers <- SomeAnswers
  MaxSteps = 2
  Intervals = {1, 2}
  Expires = {1, 4}
  MaxRuns = 1
  MaxTokens = 3
INVARIANTS
  ResultsEarned
  SubmitsOnce
PROPERTIES
  LinkEnds
