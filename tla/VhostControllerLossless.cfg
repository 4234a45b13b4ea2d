SPECIFICATION Spec
CONSTANTS
  Mbufs = {m1, m2, m3, m4}
  PKT_BURST_SZ = 2
  RingCapacity = 3
  MAX_ENQUEUE_RETRIES = 1
  Vids = {0, 1}
  MaxPkts = 4
  MaxConns = 2
SYMMETRY MbufSymmetry
INVARIANT Lossless
