\* Two messages, so the TimerQueue holds the timer of one while the other is
\* acknowledged.
CONSTANTS
  m1 = m1
  m2 = m2
  Msgs <- TwoMsgs
  Etas = {1, 2}
  MaxSurbs = 4
  MaxLoss = 1
  MaxEarly = 1
SPECIFICATION Spec
INVARIANT PendingArmed
\* Once the reply is handled every goroutine waits: the ARQ is idle.
CHECK_DEADLOCK FALSE
