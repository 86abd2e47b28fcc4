\* Each party sends two messages and processes one key exchange; any
\* message may arrive up to twice, in any order, or never, and saved keys
\* may be dropped by a save and restore.  A reordering limit of one covers
\* every gap two messages per party can open.
CONSTANTS
  a = a
  b = b
  Parties <- MCParties
  Alice = a
  MaxMissingMessages = 0
  MaxSend = 2
  MaxDeliver = 2
  MaxKx = 1
SPECIFICATION Spec

INVARIANT PendingDecryptable
\* The ratchet only reacts to its caller: once every message is sent and
\* delivered as often as the bounds allow, nothing more happens.
CHECK_DEADLOCK FALSE
