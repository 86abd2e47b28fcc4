\* a writes one unit; its TimerQueue may retransmit it once.
CONSTANTS
  a = a
  b = b
  Peers <- MCPeers
  W = 2
  MaxWriteBuf = 2
  MaxWrites <- OneUnit
  Readers = {}
  Closers = {}
  MaxLoss = 0
  MaxRetx = 1
  Timeouts = FALSE
  Setters = {}
SPECIFICATION Spec
INVARIANT ContiguousFrameIds
CHECK_DEADLOCK FALSE
