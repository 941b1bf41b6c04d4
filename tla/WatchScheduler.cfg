SPECIFICATION FairSpec
CONSTANTS
  a = a  b = b
  NoTask = NoTask
  Tasks = {a, b}
  EventTasks = {b}
  DefaultTasks = {a}
  EagerTasks = {a}
  CoupledTasks = {b}
  MaxRetries = 1
  MaxRuns = 3
  MaxOccasions <- ThreeAndOne
  MaxRestarts = 2
INVARIANTS TypeOK AtMostOnce
PROPERTIES GaveUpAfterRetries DueServed
CHECK_DEADLOCK FALSE
