\* a writes two units and b one; one stored frame may be lost and one Put
\* may fail.  Under the fairness of the reader and writer goroutines.
CONSTANTS
  a = a
  b = b
  Peers <- MCPeers
  MaxWrites <- TwoOne
  MaxLoss = 1
  MaxFail = 1
SPECIFICATION FairSpec
PROPERTY WriteReturns
PROPERTY DeliveredUnlessDropped
