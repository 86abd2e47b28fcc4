\* a writes two units through a one-unit write buffer, so its second Write
\* blocks; a may Close and sets deadlines, so a blocked Write can only time
\* out through writeDeadline.  No loss, no retransmission: this run is about
\* teardown and deadlines racing the data.
CONSTANTS
  a = a
  b = b
  Peers <- MCPeers
  W = 2
  MaxWriteBuf = 1
  MaxWrites <- TwoUnits
  Readers = {}
  Closers = {a}
  MaxLoss = 0
  MaxRetx = 0
  Timeouts = FALSE
  Setters = {a}
SPECIFICATION Spec
INVARIANT DeliveredPrefix
INVARIANT EndIsLast
\* After Close both sides' goroutines exit: the stream really stops.
CHECK_DEADLOCK FALSE
