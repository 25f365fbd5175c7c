CONSTANTS
  Database = {"d1", "d2"}
  Known = {"d1"}
  Command = {"query"}
  Verdicts = {TRUE, FALSE}
  Cuts = {2, 6, 8}
  MaxCommands = 1
SPECIFICATION Spec
INVARIANTS BlockedNotForwarded
\* The session ends after its last command.
CHECK_DEADLOCK FALSE
