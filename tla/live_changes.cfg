CONSTANTS
  LayoutsWithEmptyFilterStep <- MCLayouts
  Slots = {s1, s2}
  NoSlot = NoSlot
  NoConfig = NoConfig
  Configs <- GainConfigs
  WaitFlag = TRUE
  CtrlCapacity = 2
  QueueLimit = 1
  MaxCommands = 2
  Faults <- NoFaults
  Reads <- Pipe
  PausesOnSilence = FALSE
SPECIFICATION FairSpec
PROPERTIES
  ChangesAreTaken
CHECK_DEADLOCK FALSE
