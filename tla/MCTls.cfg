SPECIFICATION Spec
CONSTANTS
  Ctxs = {c1, c2}
  Certs = {x}
  MaxStores = 3
  MaxConns = 1
  Chunks = {a, b}
  MaxPeer = 1
  HighWater = 2
  MaxCalls = 1
SYMMETRY PairSymmetry
INVARIANTS
  ContextsSound
  DeliveredInOrder
  NoLostWakeUp
  FlushedBeforeDone
CHECK_DEADLOCK FALSE
