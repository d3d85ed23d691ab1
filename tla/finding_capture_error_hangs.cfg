CONSTANTS
  LayoutsWithEmptyFilterStep <- MCLayouts
  Slots = {s1, s2}
  NoSlot = NoSlot
  NoConfig = NoConfig
  Configs <- OneConfig
  WaitFlag = TRUE
  CtrlCapacity = 2
  QueueLimit = 1
  MaxCommands = 0
  Faults <- ReadFaults
  Reads <- RegularFile
  PausesOnSilence = FALSE
SPECIFICATION FairSpec
PROPERTIES
  EndingCompletes
CHECK_DEADLOCK FALSE
