CONSTANTS
  drop = drop
  plain = plain
  info = info
  Db = {}
  Pattern = {drop, plain}
  Perm = {info}
  Conn = {c1}
  StorageType = "mysql"
  AdminStatus = {"RISK_BLOCK", "PRIVILEGE_BLOCK", "RISK_SIMULATION", "PRIVILEGE_SIMULATION", "ALWAYS_BLOCK_NEW", "LEARNING_MODE", "LEARNING_MODE_3DAYS", "LEARNING_MODE_7DAYS"}
  MaxEdits = 2
  DbMayFail = TRUE
  Needs <- MCNeeds
SPECIFICATION Spec
INVARIANTS TypeOK ModeKept LogTellsTheTruth
PROPERTIES WhitelistKept
