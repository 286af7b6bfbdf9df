SPECIFICATION Spec
CONSTANTS
  Task = {once}
  Goal = {}
  Repeat = {}
  Visitor = {}
  Hint = {h}
  MaxActive = 0
  MaxRuns = 2
  MaxUnwritten = 1
  MaxCancels = 1
  MaxRestarts = 1
INVARIANT InterruptedWorkResumes
CHECK_DEADLOCK FALSE
