CONSTANTS
  Database = {"d1", "d2"}
  Known = {"d1"}
  Command = {"query", "use", "prepare", "initdb", "changeuser", "ping", "close"}
  Verdicts = {TRUE, FALSE}
  Cuts = {2, 6, 8}
  MaxCommands = 2
SPECIFICATION FairSpec
INVARIANTS TypeOK EveryQueryJudged JudgedBySettings
PROPERTIES Answered
\* The session ends after its last command.
CHECK_DEADLOCK FALSE
