SPECIFICATION Spec
CONSTANTS
  CapDefault = 1
  CapMax = 2
  LogCapacity = 2
  MaxBegins = 3
  MaxBytes = 1
INVARIANTS SlotsMatchSessions LogFollowsSessions
PROPERTIES ImplementsLimit FinishedEntriesStay
