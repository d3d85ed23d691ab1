CONSTANTS
  MaxSessions = 3
  Faults = {"open", "format", "create", "start", "rate"}
SPECIFICATION FairSpec
INVARIANTS TypeOK CallbackIsSafe StreamIsOwned StreamIsTheirs
PROPERTIES WaitingEnds
CHECK_DEADLOCK FALSE
