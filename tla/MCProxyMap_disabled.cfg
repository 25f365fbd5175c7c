CONSTANTS
  Id = {1}
  Addr = {a1, a2}
  DbType = {mysql}
  Backend = {b1}
  MaxConns = 1
  MaxEdits = 1
  DbMayFail = FALSE
SPECIFICATION FairSpec
PROPERTIES DisabledStaysClosed
\* The process may have ended, or have nothing to serve and nobody to edit the table.
CHECK_DEADLOCK FALSE
