SPECIFICATION AnySpec
CONSTANTS
  Clients = {c1, c2}
  Backlog = 1
  MaxEvents = 2
  BufferSize = 3
  Message <- Msg
  None = None
  Input <- In
  BufSize = 2
  Capacity = 1
  MaxAddrs = 2
  Mbufs = {m1, m2, m3}
  RingCapacity = 2
  BURST_SIZE = 2
  Sockets = 2
  Vids = {0, 1}
  MaxPkts = 3
  MaxConns = 2
INVARIANTS StreamsIntact RelayInOrder StartsConnected NoMbufLeak InOrderOrDropped
PROPERTIES ClientsServed RelayEnds Empties
