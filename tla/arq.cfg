\* One message; the network may lose two packets or replies, and two timers
\* may fire while the reply is still on its way.  Three ETAs let a resend's
\* timer overtake or trail a stale one.  Six SURB IDs cover the first send
\* and every resend these allow.
CONSTANTS
  m1 = m1
  m2 = m2
  Msgs <- OneMsg
  Etas = {1, 2, 3}
  MaxSurbs = 6
  MaxLoss = 2
  MaxEarly = 2
SPECIFICATION FairSpec
INVARIANT PendingArmed
PROPERTY NoResendAfterAck
PROPERTY AckedEventually
\* Once the reply is handled every goroutine waits: the ARQ is idle.
CHECK_DEADLOCK FALSE
