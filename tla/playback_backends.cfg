CONSTANTS
  Backends = {"cpal", "pulse", "coreaudio", "pipewire", "asio", "wasapi", "alsa",
              "alsaThreaded"}
  MaxChunks = 3
  ChunkPackets = 2
  RingCapacity = 5
  NoteCapacity = 2
  QueueLimit = 2
  Prefill = 4
  Faults = {"open", "start", "write", "rate", "gone", "stall"}
SPECIFICATION FairSpec
INVARIANTS
  PlaysInOrder
  Accounting
  DoneMeansTaken
PROPERTIES
  Contract
  EndIsServed
CHECK_DEADLOCK FALSE
