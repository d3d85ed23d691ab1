CONSTANTS
  LayoutsWithEmptyFilterStep <- MCLayouts
  Slots = {s1, s2}
  NoSlot = NoSlot
  NoConfig = NoConfig
  Configs <- ThreeConfigs
  WaitFlag = TRUE
  CtrlCapacity = 2
  QueueLimit = 2
  MaxCommands = 2
  Faults <- CaptureFaulty
  Reads <- RegularFile
  PausesOnSilence = FALSE
SYMMETRY SlotSymmetry
SPECIFICATION Spec
INVARIANTS
  TypeOK
  ConfigFollowsCommands
  PipelineMatchesActive
  EndOfStreamIsLast
  PlaybackExclusive
  LastConfigWasTried
  IdleIsInactive
CHECK_DEADLOCK FALSE
