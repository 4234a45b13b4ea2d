SPECIFICATION Spec
CONSTANTS
  MaxByte = 1
  TableSize = 8
  MaxVMs = 2
  MaxPorts = 3
  Bases = {5, 1000}
  Size = 3
  NBufs = 2
  Meta <- M
  Frame <- F
  BufLens = {0, 1, 2}
  Frames = 2
  MaxPosts = 4
  PoolSize = 6
  Burst = 2
  TxRing = 2
  NPorts = 2
  MaxWaiting = 3
  Cells <- C
  Capacity = 5
  SnapLen = 4
  MaxLen = 5
  Width = 2
  NumPackets = 1
  MaxRegions = 2
  Addrs = {0, 2}
  Sizes = {1, 2}
  Offsets = {0, 1}
  MaxTables = 2
  MEMPOOL_SIZE = 3
  BURST_SIZE = 2
  Vids = {0, 1}
  MaxConns = 3
INVARIANTS NothingShared FramesWhole MbufsBalanced  TranslationSound
PROPERTIES PacketsReceived QuitEnds
CHECK_DEADLOCK FALSE
