\* a writes two units, b reads; the substrate may lose one frame, the
\* TimerQueue may retransmit once on each side and blocked Reads may time
\* out.  Nobody closes: teardown is the close run's subject.
CONSTANTS
  a = a
  b = b
  Peers <- MCPeers
  W = 2
  MaxWriteBuf = 2
  MaxWrites <- TwoUnits
  Readers = {b}
  Closers = {}
  MaxLoss = 1
  MaxRetx = 1
  Timeouts = TRUE
  Setters = {}
SPECIFICATION Spec
INVARIANT TypeOK
INVARIANT DeliveredPrefix
