CONSTANTS
  Protocols = {"mysql", "pgsql"}
  ReqBound = 3
  RespBound = 2
  MaxReplies = 1
SPECIFICATION FairSpec
INVARIANTS TypeOK WriterArmed NoEventAfterClose StreamsInOrder NothingLost
PROPERTIES ClosedForCause ReleasedIsSent EndClosesBoth RequestsArePipe ResponsesArePipe
\* A closed connection has no further step.
CHECK_DEADLOCK FALSE
