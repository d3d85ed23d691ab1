CONSTANTS
  LayoutsWithEmptyFilterStep <- MCLayouts
  Slots = {s1, s2}
  NoSlot = NoSlot
  NoConfig = NoConfig
  Configs <- OneConfig
  WaitFlag = TRUE
  CtrlCapacity = 2
  QueueLimit = 1
  MaxCommands = 1
  Faults <- AllButRead
  Reads <- RegularFile
  PausesOnSilence = FALSE
SPECIFICATION FairSpec
PROPERTIES
  StartupResolves
  EndingCompletes
  ExitIsServed
  LeftoversEnd
CHECK_DEADLOCK FALSE
