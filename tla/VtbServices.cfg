SPECIFICATION ServicesSpec
CONSTANTS
  Writers = {w1, w2}
  MaxMsgs = 3
  Flags = {"--", "-p", "--portmask", "-h", "-x"}
  Words = {"", "yes"}
  MaxArgs = 4
  Keys = {"k"}
  Types = {"int"}
  Ports = {0}
  Fds = {3, 9}
  MAX_QUEUE_PAIRS = 2
  CtlMod = 8
  MaxCalls = 4
INVARIANTS
  FileFollows
  DrainComplete
  ParseCorrect
  PortmapFollowsCalls
PROPERTIES
  ImplementsLog
  Shown
  DestroyEnds
