CONSTANTS
  Values = {Default, Other}
  Default = Default
  Clients = {c1, c2}
  Options = {"volume"}
  MaxChanges = 3
  MaxStarts = 2
  WriteFaults = TRUE
SPECIFICATION FairSpec
INVARIANTS
  TypeOK
  QuietIsSaved
  QuietIsMarkedSaved
PROPERTIES
  ChangesAreSaved
CHECK_DEADLOCK FALSE
