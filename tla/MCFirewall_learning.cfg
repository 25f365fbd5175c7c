CONSTANTS
  drop = drop
  plain = plain
  info = info
  Db = {d1}
  Pattern = {plain}
  Perm = {info}
  Conn = {c1}
  StorageType = "mysql"
  AdminStatus = {"ALWAYS_BLOCK_NEW", "LEARNING_MODE_3DAYS", "LEARNING_MODE_7DAYS"}
  MaxEdits = 2
  DbMayFail = FALSE
  Needs <- MCNeeds
SPECIFICATION FairSpec
INVARIANTS LearnedIsAllowed NoDuplicateRows SettingsApplied
PROPERTIES LearningEnds
