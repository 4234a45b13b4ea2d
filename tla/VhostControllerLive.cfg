SPECIFICATION FairSpec
CONSTANTS
  Mbufs = {m1, m2, m3}
  PKT_BURST_SZ = 2
  RingCapacity = 2
  MAX_ENQUEUE_RETRIES = 1
  Vids = {0}
  MaxPkts = 3
  MaxConns = 2
PROPERTIES
  StopEndsRun
  PacketLeaves
