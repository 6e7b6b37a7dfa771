SPECIFICATION FairSpec
CONSTANTS
  Keys = {1, 2, 3, 4, 5, 6}
  Queries = {q1}
  MaxClosing = 1
INVARIANTS
  TasksSorted
  TasksFollowSockets
PROPERTIES
  QueriesEnd
CHECK_DEADLOCK FALSE
