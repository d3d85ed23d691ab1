CONSTANTS
  LayoutsWithEmptyFilterStep <- MCLayouts
  Slots = {s1, s2}
  NoSlot = NoSlot
  NoConfig = NoConfig
  Configs <- PanicConfigs
  WaitFlag = FALSE
  CtrlCapacity = 2
  QueueLimit = 1
  MaxCommands = 1
  Faults <- FaultsThatJoin
  Reads <- AllReads
  PausesOnSilence = TRUE
SYMMETRY SlotSymmetry
SPECIFICATION Spec
INVARIANTS
  CaptureExclusive
  RunningIsNotInactive
  StatusChannelStaysOpen
  CleanEndMeansNoFault
CHECK_DEADLOCK FALSE
