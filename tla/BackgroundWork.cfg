SPECIFICATION Spec
CONSTANTS
  Task = {goal, once, daily}
  Goal = {goal}
  Repeat = {daily}
  Visitor = {goal, once}
  Hint = {}
  MaxActive = 1
  MaxRuns = 2
  MaxUnwritten = 1
  MaxCancels = 1
  MaxRestarts = 1
INVARIANTS TypeOK NoOrphanRunning RoundsBounded
PROPERTIES ImplementsLifecycle QuietAfterCancel
CHECK_DEADLOCK FALSE
