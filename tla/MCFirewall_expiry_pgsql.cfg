CONSTANTS
  drop = drop
  plain = plain
  info = info
  Db = {}
  Pattern = {drop, plain}
  Perm = {info}
  Conn = {c1}
  StorageType = "pgsql"
  AdminStatus = {"LEARNING_MODE_3DAYS", "LEARNING_MODE_7DAYS"}
  MaxEdits = 1
  DbMayFail = FALSE
  Needs <- MCNeeds
SPECIFICATION FairSpec
PROPERTIES LearningEnds
