CONSTANTS
  Id = {1, 2}
  Addr = {a1, a2}
  DbType = {mysql}
  Backend = {b1}
  MaxConns = 1
  MaxEdits = 2
  DbMayFail = TRUE
SPECIFICATION FairSpec
INVARIANTS TypeOK ConnectionsOwned ReloadApplied GoodIsServed
PROPERTIES ReloadKeepsConnections UnchangedStaysServed RemovedStopsListening StopClosesAll
\* The process may have ended, or have nothing to serve and nobody to edit the table.
CHECK_DEADLOCK FALSE
