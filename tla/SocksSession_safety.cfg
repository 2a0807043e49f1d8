SPECIFICATION Spec
CONSTANTS
  Cap = 4
  CStream = 4
  OStream = 5
  Addrs = 2
  MaxConns = 2
  Timeouts = TRUE
  Resets = TRUE
INVARIANTS UpstreamExact DownstreamExact ClientInterestInSync OriginWriteArmed BytesAccounted ResourcesReleased LogMatchesOutcome
PROPERTY DoneIsFinal
