CONSTANTS
  Backends = {"generator", "cpal", "pulse", "coreaudio", "pipewire", "asio", "wasapi",
              "alsa", "alsaThreaded"}
  MaxPackets = 4
  ChunkPackets = 2
  RingCapacity = 3
  NoteCapacity = 2
  QueueLimit = 1
  Faults = {"open", "start", "read", "rate", "gone"}
SPECIFICATION FairSpec
INVARIANTS
  AudioIsFresh
  EndsInactive
PROPERTIES
  Contract
  ExitIsServed
CHECK_DEADLOCK FALSE
