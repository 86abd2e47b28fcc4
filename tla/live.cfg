\* a writes three units through a window of two frames, so the third waits
\* for b's Ack; nobody closes.  Under the fairness of the worker
\* goroutines every accepted unit must reach b.
CONSTANTS
  a = a
  b = b
  Peers <- MCPeers
  W = 2
  MaxWriteBuf = 2
  MaxWrites <- ThreeUnits
  Readers = {}
  Closers = {}
  MaxLoss = 0
  MaxRetx = 0
  Timeouts = FALSE
  Setters = {}
SPECIFICATION FairSpec
PROPERTY DataDelivered
