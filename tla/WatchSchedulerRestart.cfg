SPECIFICATION Spec
CONSTANTS
  a = a  b = b
  NoTask = NoTask
  Tasks = {a, b}
  EventTasks = {a}
  DefaultTasks = {a}
  EagerTasks = {}
  CoupledTasks = {}
  MaxRetries = 0
  MaxRuns = 0
  MaxOccasions <- OneEach
  MaxRestarts = 2
PROPERTY RestartRestores
CHECK_DEADLOCK FALSE
