SPECIFICATION FairSpec
CONSTANTS
  Cap = 4
  CStream = 4
  OStream = 4
  Addrs = 1
  MaxConns = 1
  Timeouts = FALSE
  Resets = FALSE
INVARIANT ReplyProtocol
PROPERTIES ImplementsTunnel ResolvingEnds UploadDelivered PendingDelivered CloseCompletes
