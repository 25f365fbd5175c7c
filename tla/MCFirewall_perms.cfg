CONSTANTS
  drop = drop
  plain = plain
  info = info
  Db = {}
  Pattern = {drop, plain}
  Perm = {info}
  Conn = {c1}
  StorageType = "mysql"
  AdminStatus = {"RISK_BLOCK"}
  MaxEdits = 2
  DbMayFail = FALSE
  Needs <- MCNeeds
SPECIFICATION Spec
INVARIANTS PermsApplied
