SPECIFICATION Spec
CONSTANTS
  Cap = 4
  CStream = 3
  OStream = 4
  Addrs = 1
  MaxConns = 1
  Timeouts = FALSE
  Resets = FALSE
INVARIANT OriginReadArmed
