\* a writes two units through a one-unit buffer and may Close; b only runs
\* its workers.  Under the fairness of the workers, a Close must return.
CONSTANTS
  a = a
  b = b
  Peers <- MCPeers
  W = 2
  MaxWriteBuf = 1
  MaxWrites <- TwoUnits
  Readers = {}
  Closers = {a}
  MaxLoss = 0
  MaxRetx = 0
  Timeouts = TRUE
  Setters = {}
SPECIFICATION FairSpec
PROPERTY CloseReturns
CHECK_DEADLOCK FALSE
