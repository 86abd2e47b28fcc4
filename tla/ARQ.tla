-------------------------------- MODULE ARQ ---------------------------------
(***************************************************************************)
(* The client2 ARQ (src/unnamed/part_009): messages are sent with a SURB,  *)
(* remembered in surbIDMap under the SURB ID, and retransmitted by the     *)
(* TimerQueue callback (resend) under a fresh SURB ID until a reply for    *)
(* the current SURB ID reaches HandleAck.                                  *)
(*                                                                         *)
(* Goroutines: one application goroutine calling Send, the TimerQueue      *)
(* worker (pops the earliest entry and runs the callback), and the reply   *)
(* handler calling HandleAck.  a.lock is held by Send's insert, by resend  *)
(* and by the whole of HandleAck; the TimerQueue has its own lock around   *)
(* each Push, Peek and Pop, so a Pop of the worker can fall between        *)
(* HandleAck's Peek and its Pop.                                           *)
(*                                                                         *)
(* SURB IDs are random 16-byte strings; they are modelled as fresh         *)
(* numbers.  A priority is SentAt + ReplyETA + RoundTripTimeSlop: the      *)
(* model keeps a logical clock advanced at every Push and adds an ETA      *)
(* drawn from Etas.                                                        *)
(***************************************************************************)
EXTENDS Integers, FiniteSets, TLC

CONSTANTS
  Msgs,       \* the messages the application sends
  Etas,       \* the round-trip ETAs SendCiphertext may return
  MaxSurbs,   \* bound: SURB IDs handed out
  MaxLoss,    \* bound: packets or replies the network loses
  MaxEarly    \* bound: timers that fire while the reply is still on its way

ASSUME Etas \subseteq Nat \ {0} /\ Etas # {}
ASSUME {MaxSurbs, MaxLoss, MaxEarly} \subseteq Nat

Surbs == 1..MaxSurbs
NoSurb == 0

VARIABLES
  surbIDMap,   \* SURB ID -> message
  tq,          \* TimerQueue: the set of [prio, surb] entries
  clock,       \* logical time of the last Push
  locked,      \* a.lock held by HandleAck between its Peek and Pop
  nextSurb,    \* SURB IDs used so far
  inFlight,    \* SURB IDs whose reply is still on its way
  sendPc, sendMsg, sendSurb,   \* the application goroutine in Send
  twPc, twSurb,                \* the TimerQueue worker
  hPc,                         \* the reply handler in HandleAck
  nLost, nEarly,
  started,     \* history: messages Send was called for
  acked,       \* history: messages HandleAck returned a descriptor for
  surbMsg,     \* history: the message each SURB ID was sent for
  rejected     \* history: SURB IDs whose reply HandleAck refused

vars == <<surbIDMap, tq, clock, locked, nextSurb, inFlight, sendPc, sendMsg,
          sendSurb, twPc, twSurb, hPc, nLost, nEarly, started, acked,
          surbMsg, rejected>>

\* Map helpers: surbIDMap[s] = m, and delete(surbIDMap, s).
MapPut(f, s, m) == [x \in DOMAIN f \cup {s} |-> IF x = s THEN m ELSE f[x]]
MapDelete(f, s) == [x \in DOMAIN f \ {s} |-> f[x]]

\* TimerQueue.Peek: the entry with the least priority.
Head == CHOOSE e \in tq : \A d \in tq : e.prio <= d.prio
\* TimerQueue.Push at the current time plus an ETA.
Push(s) == \E eta \in Etas :
             /\ tq' = tq \cup {[prio |-> clock + eta, surb |-> s]}
             /\ clock' = clock + 1
\* A fresh SURB ID sent with a packet whose reply may come back.
NewSurb(m) ==
  /\ nextSurb < MaxSurbs
  /\ nextSurb' = nextSurb + 1
  /\ inFlight' = inFlight \cup {nextSurb + 1}
  /\ surbMsg' = surbMsg @@ (nextSurb + 1 :> m)

\* ARQ.Has: the lookup HandleAck and resend begin with.
Has(s) == s \in DOMAIN surbIDMap

-----------------------------------------------------------------------------
\* NewARQ and Start: an empty map and an empty TimerQueue.
Init ==
  /\ surbIDMap = <<>>
  /\ tq = {}
  /\ clock = 0
  /\ locked = FALSE
  /\ nextSurb = 0
  /\ inFlight = {}
  /\ sendPc = "idle" /\ sendSurb = NoSurb
  /\ sendMsg = CHOOSE m \in Msgs : TRUE
  /\ twPc = "idle" /\ twSurb = NoSurb
  /\ hPc = "idle"
  /\ nLost = 0 /\ nEarly = 0
  /\ started = {} /\ acked = {}
  /\ surbMsg = <<>>
  /\ rejected = {}

\* Send: a fresh SURB ID, then SendCiphertext puts the packet on the wire
\* before the lock is taken.
Send(m) ==
  /\ sendPc = "idle"
  /\ m \notin started
  /\ NewSurb(m)
  /\ started' = started \cup {m}
  /\ sendPc' = "sent" /\ sendMsg' = m /\ sendSurb' = nextSurb + 1
  /\ UNCHANGED <<surbIDMap, tq, clock, locked, twPc, twSurb, hPc, nLost,
                 nEarly, acked, rejected>>

\* a.lock.Lock(); surbIDMap[*surbID] = message; a.lock.Unlock()
SendInsert ==
  /\ sendPc = "sent"
  /\ ~locked
  /\ surbIDMap' = MapPut(surbIDMap, sendSurb, sendMsg)
  /\ sendPc' = "inserted"
  /\ UNCHANGED <<tq, clock, locked, nextSurb, inFlight, sendMsg, sendSurb,
                 twPc, twSurb, hPc, nLost, nEarly, started, acked, surbMsg,
                 rejected>>

\* timerQueue.Push(priority, surbID); SentEvent; return.
SendPush ==
  /\ sendPc = "inserted"
  /\ Push(sendSurb)
  /\ sendPc' = "idle" /\ sendSurb' = NoSurb
  /\ UNCHANGED <<surbIDMap, locked, nextSurb, inFlight, sendMsg, twPc,
                 twSurb, hPc, nLost, nEarly, started, acked, surbMsg,
                 rejected>>

-----------------------------------------------------------------------------
\* The worker pops the earliest entry once its priority has passed.  The
\* timeout is real when the reply is no longer on its way; it fires early,
\* with the reply still in flight, at most MaxEarly times.
TwFire ==
  /\ twPc = "idle"
  /\ tq # {}
  /\ \/ Head.surb \notin inFlight /\ UNCHANGED nEarly
     \/ Head.surb \in inFlight /\ nEarly < MaxEarly /\ nEarly' = nEarly + 1
  /\ tq' = tq \ {Head}
  /\ twPc' = "resend" /\ twSurb' = Head.surb
  /\ UNCHANGED <<surbIDMap, clock, locked, nextSurb, inFlight, sendPc,
                 sendMsg, sendSurb, hPc, nLost, started, acked, surbMsg,
                 rejected>>

\* Variant of Resend that forgets the timerQueue.Push of the new SURB ID.
ResendNoPush ==
  /\ twPc = "resend"
  /\ ~locked
  /\ IF ~Has(twSurb)
       THEN UNCHANGED <<surbIDMap, tq, clock, nextSurb, inFlight, surbMsg>>
       ELSE LET m == surbIDMap[twSurb] IN
            /\ NewSurb(m)
            /\ surbIDMap' = MapPut(MapDelete(surbIDMap, twSurb), nextSurb + 1, m)
            /\ UNCHANGED <<tq, clock>>
  /\ twPc' = "idle" /\ twSurb' = NoSurb
  /\ UNCHANGED <<locked, sendPc, sendMsg, sendSurb, hPc, nLost, nEarly,
                 started, acked, rejected>>

\* Variant of Resend that deletes the old SURB ID but never stores the new.
ResendNoInsert ==
  /\ twPc = "resend"
  /\ ~locked
  /\ IF ~Has(twSurb)
       THEN UNCHANGED <<surbIDMap, tq, clock, nextSurb, inFlight, surbMsg>>
       ELSE LET m == surbIDMap[twSurb] IN
            /\ NewSurb(m)
            /\ surbIDMap' = MapDelete(surbIDMap, twSurb)
            /\ Push(nextSurb + 1)
  /\ twPc' = "idle" /\ twSurb' = NoSurb
  /\ UNCHANGED <<locked, sendPc, sendMsg, sendSurb, hPc, nLost, nEarly,
                 started, acked, rejected>>

\* resend, all under a.lock: a SURB ID no longer in the map was acked, so
\* nothing is done; otherwise the entry is moved to a fresh SURB ID, the
\* packet is sent again and the new SURB ID is pushed.
Resend ==
  /\ twPc = "resend"
  /\ ~locked
  /\ IF ~Has(twSurb)
       THEN UNCHANGED <<surbIDMap, tq, clock, nextSurb, inFlight, surbMsg>>
       ELSE LET m == surbIDMap[twSurb] IN
            /\ NewSurb(m)
            /\ surbIDMap' = MapPut(MapDelete(surbIDMap, twSurb), nextSurb + 1, m)
            /\ Push(nextSurb + 1)
  /\ twPc' = "idle" /\ twSurb' = NoSurb
  /\ UNCHANGED <<locked, sendPc, sendMsg, sendSurb, hPc, nLost, nEarly,
                 started, acked, rejected>>

-----------------------------------------------------------------------------
\* Variant of HandleAck that forgets delete(a.surbIDMap, *surbID).
HandleAckNoDelete(s) ==
  /\ hPc = "idle"
  /\ s \in inFlight
  /\ ~locked
  /\ inFlight' = inFlight \ {s}
  /\ IF Has(s)
       THEN /\ acked' = acked \cup {surbIDMap[s]}
            /\ IF tq # {} /\ Head.surb = s
                 THEN hPc' = "pop" /\ locked' = TRUE
                 ELSE UNCHANGED <<hPc, locked>>
            /\ UNCHANGED <<surbIDMap, rejected>>
       ELSE /\ rejected' = rejected \cup {s}
            /\ UNCHANGED <<surbIDMap, acked, hPc, locked>>
  /\ UNCHANGED <<tq, clock, nextSurb, sendPc, sendMsg, sendSurb, twPc,
                 twSurb, nLost, nEarly, started, surbMsg>>

\* A reply for SURB ID s reaches HandleAck.  Under a.lock: an unknown SURB
\* ID is an error; otherwise the entry is deleted and the TimerQueue is
\* peeked; if the head is this SURB ID the lock stays held for the Pop.
HandleAck(s) ==
  /\ hPc = "idle"
  /\ s \in inFlight
  /\ ~locked
  /\ inFlight' = inFlight \ {s}
  /\ IF Has(s)
       THEN /\ acked' = acked \cup {surbIDMap[s]}
            /\ surbIDMap' = MapDelete(surbIDMap, s)
            /\ IF tq # {} /\ Head.surb = s
                 THEN hPc' = "pop" /\ locked' = TRUE
                 ELSE UNCHANGED <<hPc, locked>>
            /\ UNCHANGED rejected
       ELSE /\ rejected' = rejected \cup {s}
            /\ UNCHANGED <<surbIDMap, acked, hPc, locked>>
  /\ UNCHANGED <<tq, clock, nextSurb, sendPc, sendMsg, sendSurb, twPc,
                 twSurb, nLost, nEarly, started, surbMsg>>

\* a.timerQueue.Pop(): removes whatever is the head now; then the lock is
\* released.
HandlePop ==
  /\ hPc = "pop"
  /\ tq' = IF tq = {} THEN tq ELSE tq \ {Head}
  /\ hPc' = "idle" /\ locked' = FALSE
  /\ UNCHANGED <<surbIDMap, clock, nextSurb, inFlight, sendPc, sendMsg,
                 sendSurb, twPc, twSurb, nLost, nEarly, started, acked,
                 surbMsg, rejected>>

\* The network loses a packet or its reply.
Lose(s) ==
  /\ s \in inFlight
  /\ nLost < MaxLoss
  /\ inFlight' = inFlight \ {s}
  /\ nLost' = nLost + 1
  /\ UNCHANGED <<surbIDMap, tq, clock, locked, nextSurb, sendPc, sendMsg,
                 sendSurb, twPc, twSurb, hPc, nEarly, started, acked,
                 surbMsg, rejected>>

Next ==
  \/ \E m \in Msgs : Send(m)
  \/ SendInsert \/ SendPush
  \/ TwFire \/ Resend
  \/ \E s \in Surbs : HandleAck(s) \/ Lose(s)
  \/ HandlePop

\* Send's caller, the TimerQueue worker and the reply handler are
\* goroutines that keep running; a reply still in flight is eventually
\* delivered (or lost, which Lose bounds).  Calling Send is up to the
\* application.
Fairness ==
  /\ WF_vars(SendInsert) /\ WF_vars(SendPush)
  /\ WF_vars(TwFire) /\ WF_vars(Resend) /\ WF_vars(HandlePop)
  /\ WF_vars(\E s \in Surbs : HandleAck(s))

Spec == Init /\ [][Next]_vars
FairSpec == Spec /\ Fairness

-----------------------------------------------------------------------------
TypeOK ==
  /\ DOMAIN surbIDMap \subseteq Surbs /\ \A s \in DOMAIN surbIDMap : surbIDMap[s] \in Msgs
  /\ tq \subseteq [prio : Nat, surb : Surbs]
  /\ locked \in BOOLEAN /\ nextSurb \in 0..MaxSurbs /\ inFlight \subseteq Surbs
  /\ sendPc \in {"idle", "sent", "inserted"} /\ twPc \in {"idle", "resend"}
  /\ hPc \in {"idle", "pop"}
  /\ started \subseteq Msgs /\ acked \subseteq started /\ rejected \subseteq Surbs

\* Every message waiting for its reply has a timer armed for its current
\* SURB ID, unless Send has not pushed it yet or the worker has just popped
\* it: otherwise a lost reply is never followed by a resend.  HandleAck's
\* Peek and Pop, the worker's Pop, Send's insert-then-Push and resend's
\* delete-then-insert all bear on it.
PendingArmed ==
  \A s \in DOMAIN surbIDMap :
    \/ \E e \in tq : e.surb = s
    \/ sendPc = "inserted" /\ sendSurb = s
    \/ twPc = "resend" /\ twSurb = s

\* A message whose reply HandleAck accepted is never sent again: no step
\* adds a SURB ID for an acked message.
NoResendAfterAck ==
  [][\A s \in DOMAIN surbIDMap' \ DOMAIN surbIDMap : surbIDMap'[s] \notin acked]_vars

\* Every message sent is eventually acknowledged by a reply.
AckedEventually ==
  \A m \in Msgs : m \in started ~> m \in acked

\* A reply for a SURB ID the ARQ sent is refused only when its message has
\* already been acknowledged.
ReplyAccepted ==
  \A s \in rejected : surbMsg[s] \in acked

=============================================================================
