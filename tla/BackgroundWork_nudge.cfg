SPECIFICATION Spec
CONSTANTS
  Task = {goal}
  Goal = {goal}
  Repeat = {}
  Visitor = {}
  Hint = {h}
  MaxActive = 0
  MaxRuns = 2
  MaxUnwritten = 1
  MaxCancels = 1
  MaxRestarts = 1
INVARIANT NudgesAreKept
CHECK_DEADLOCK FALSE
