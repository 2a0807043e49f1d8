SPECIFICATION FairToolSpec
CONSTANTS
  Cap = 6
  LineMax = 3
  ListLines = 2
  MaxSent = 4
  MaxRespLines = 3
  ConfigCount = 2
  MaxCommands = 2
INVARIANTS RepliesExact CommandsExact HalfCloseServed InSync
PROPERTIES NoReplyLost SessionCloses CommandReturns
CHECK_DEADLOCK FALSE
