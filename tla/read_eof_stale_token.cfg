\* a writes one unit; b reads, twice.  Close is allowed but not needed.
CONSTANTS
  a = a
  b = b
  Peers <- MCPeers
  W = 2
  MaxWriteBuf = 2
  MaxWrites <- OneUnit
  Readers = {b}
  Closers = {a}
  MaxLoss = 0
  MaxRetx = 0
  Timeouts = FALSE
  Setters = {}
SPECIFICATION Spec
INVARIANT EOFOnlyAtEnd
CHECK_DEADLOCK FALSE
