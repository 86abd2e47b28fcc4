\* Both applications write one unit, so data frames carry Acks both ways.
CONSTANTS
  a = a
  b = b
  Peers <- MCPeers
  W = 2
  MaxWriteBuf = 2
  MaxWrites <- OneEach
  Readers = {}
  Closers = {}
  MaxLoss = 0
  MaxRetx = 0
  Timeouts = FALSE
  Setters = {}
SPECIFICATION Spec
PROPERTY AckSound
CHECK_DEADLOCK FALSE
