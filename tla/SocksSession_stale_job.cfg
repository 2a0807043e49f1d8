SPECIFICATION Spec
CONSTANTS
  Cap = 4
  CStream = 3
  OStream = 2
  Addrs = 1
  MaxConns = 2
  Timeouts = FALSE
  Resets = FALSE
INVARIANT NoStmAbort
