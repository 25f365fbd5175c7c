CONSTANTS
  Query <- MCQuery
  KeyWidth = 2
  CallBound = 3
  ClearBound = 1
  StopBound = 1
SPECIFICATION Spec
INVARIANTS OneGroupPerQuery LearnedGroups
PROPERTIES AlertsAreFiled
\* The program ends with its bound of calls.
CHECK_DEADLOCK FALSE
