SPECIFICATION FairSpec
CONSTANTS
  Task = {goal, daily}
  Goal = {goal}
  Repeat = {daily}
  Visitor = {}
  Hint = {h}
  MaxActive = 0
  MaxRuns = 2
  MaxUnwritten = 1
  MaxCancels = 1
  MaxRestarts = 0
PROPERTIES DueWorkRuns
CHECK_DEADLOCK FALSE
