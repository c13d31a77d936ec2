SPECIFICATION ChatsSpec
CONSTANTS
  p1 = p1
  p2 = p2
  t1 = t1
  t2 = t2
  s1 = s1
  Procs = {p1, p2}
  Ids = {t1}
  Replies <- ShortReplies
  OldTool = 1
  Budget = 4
  MaxSteps = 2
  MaxTurns <- ThirdTurnOfOne
  Sends = {s1}
  Threads = {t1, t2}
  Modes = {"native", "prompted"}
  CallCounts = {2}
  HistoryWindow = 2
  MaxAgentSteps = 2
  MaxLen = 4
INVARIANTS
  SentWhole
  FitsContext
  StoredAsItHappens
  ResultsHaveCalls
PROPERTIES
  StopEnds
  TurnEnds
