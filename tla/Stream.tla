------------------------------- MODULE Stream -------------------------------
(***************************************************************************)
(* Two katzenpost Streams (src/stream/stream.go) talking to each other     *)
(* through the map substrate.  Each peer runs the goroutines the code      *)
(* runs: the reader worker, the writer worker, the TimerQueue callback     *)
(* that retransmits unacknowledged frames (retx.Push), and three          *)
(* application goroutines: one calling Write, one Read and one Close.      *)
(*                                                                         *)
(* Data is abstracted to units: the k-th unit a peer's application writes  *)
(* is the number k, and a frame carries at most one unit                   *)
(* (FramePayloadSize bytes).  Keys, nonces, AEAD and CBOR are left out:    *)
(* frame n of peer p is stored under TID(txFrameID(n)) of p, which is      *)
(* TID(rxFrameID(n)) of the other peer, so the substrate is modelled as    *)
(* the set of frames stored per writing peer, addressed by frame index.    *)
(***************************************************************************)
EXTENDS Integers, Sequences, FiniteSets

CONSTANTS
  Peers,          \* the two ends of the stream
  W,              \* stream_window_size
  MaxWriteBuf,    \* max_writebuf_size, in units of FramePayloadSize
  MaxWrites,      \* bound: units each peer's application writes
  Readers,        \* peers whose application calls Read
  Closers,        \* peers whose application calls Close
  MaxLoss,        \* bound: frames the substrate loses in a behaviour
  MaxRetx,        \* bound: retransmissions the TimerQueue triggers per peer
  Timeouts,       \* may the defaultTimeout of a blocked Read/Write expire?
  Setters         \* peers whose application sets deadlines

ASSUME Cardinality(Peers) = 2
ASSUME W \in Nat \ {0} /\ MaxWriteBuf \in Nat \ {0}
ASSUME MaxWrites \in [Peers -> Nat] /\ Readers \cup Closers \subseteq Peers
ASSUME {MaxLoss, MaxRetx} \subseteq Nat /\ Timeouts \in BOOLEAN
ASSUME Setters \subseteq Peers

Peer(p) == CHOOSE q \in Peers : q # p

\* StreamState
Open == "Open"
Closing == "Closing"
Closed == "Closed"
\* FrameType; the writer never sets Type, so data frames carry StreamStart
StreamStart == "Start"
StreamEnd == "End"
\* A deadline (time.Time) relative to the clock: the zero Time, a time still
\* ahead, or a time already passed.
ZeroTime == "zero"
Future == "future"
Past == "past"
Deadlines == {ZeroTime, Future, Past}

Frames == [id : Nat, type : {StreamStart, StreamEnd}, ack : Nat,
           payload : Seq(Nat)]
NullFrame == [id |-> 0, type |-> "None", ack |-> 0, payload |-> <<>>]

VARIABLES
  writeBuf, readBuf,            \* the bytes.Buffers, as sequences of units
  f_read_idx, f_write_idx, f_ack_idx,
  wack,                         \* retx.wack: frame ids not yet acknowledged
  RState, WState,
  onFlush, onAck, onWrite, onRead, onStreamClose,  \* chan struct{}, cap 1
  tq,                           \* TimerQueue: the armed smsg frames
  store,                        \* substrate: the frames stored, per writer
  rdPc, rdFrame,                \* reader goroutine and the frame it read
  wrPc, wrFrame,                \* writer goroutine and the frame it sends
  rxPc, rxFrame, nRetx,         \* TimerQueue callback goroutine
  nLost,                        \* frames the substrate has lost
  wApp, rApp, cApp,             \* application goroutines
  accepted,                     \* history: units Write accepted, per peer
  delivered,                    \* history: units appended to readBuf
  sent,                         \* history: frames ever Put, per writer
  gotEnd,                       \* history: the peer's StreamEnd was read
  readDeadline, writeDeadline,
  onUpdateDeadline,             \* chan struct{}, cap 1, never received
  sApp,                         \* application goroutine setting deadlines
  rArmed, wArmed                \* the blocked select's time.After can fire

strm == <<writeBuf, readBuf, f_read_idx, f_write_idx, f_ack_idx, wack,
          RState, WState>>
sigs == <<onFlush, onAck, onWrite, onRead, onStreamClose>>
wrk  == <<rdPc, rdFrame, wrPc, wrFrame, rxPc, rxFrame, nRetx>>
app  == <<wApp, rApp, cApp>>
hist == <<accepted, delivered, sent, gotEnd>>
dl   == <<readDeadline, writeDeadline, onUpdateDeadline, sApp, rArmed, wArmed>>
vars == <<strm, sigs, wrk, app, tq, store, nLost, hist, dl>>

Signal(ch, p) == ch' = [ch EXCEPT ![p] = TRUE]   \* select { case ch <- ...: default: }
Take(ch, p)   == ch[p] /\ ch' = [ch EXCEPT ![p] = FALSE]

\* Substrate Put overwrites the value stored under the frame's identifier.
Put(p, f) == store' = [store EXCEPT ![p] = {g \in @ : g.id # f.id} \cup {f}]
Stored(p, i) == {g \in store[p] : g.id = i}

-----------------------------------------------------------------------------
\* NewStream: both halves Open, counters zero, Mode ReliableStream.
Init ==
  /\ writeBuf = [p \in Peers |-> <<>>]
  /\ readBuf = [p \in Peers |-> <<>>]
  /\ f_read_idx = [p \in Peers |-> 0]
  /\ f_write_idx = [p \in Peers |-> 0]
  /\ f_ack_idx = [p \in Peers |-> 0]
  /\ wack = [p \in Peers |-> {}]
  /\ RState = [p \in Peers |-> Open]
  /\ WState = [p \in Peers |-> Open]
  /\ onFlush = [p \in Peers |-> FALSE]
  /\ onAck = [p \in Peers |-> FALSE]
  /\ onWrite = [p \in Peers |-> FALSE]
  /\ onRead = [p \in Peers |-> FALSE]
  /\ onStreamClose = [p \in Peers |-> FALSE]
  /\ tq = [p \in Peers |-> {}]
  /\ store = [p \in Peers |-> {}]
  /\ rdPc = [p \in Peers |-> "top"]
  /\ wrPc = [p \in Peers |-> "top"]
  /\ wrFrame = [p \in Peers |-> NullFrame]
  /\ rdFrame = [p \in Peers |-> NullFrame]
  /\ rxPc = [p \in Peers |-> "idle"]
  /\ rxFrame = [p \in Peers |-> NullFrame]
  /\ nRetx = [p \in Peers |-> 0]
  /\ nLost = 0
  /\ wApp = [p \in Peers |-> "idle"]
  /\ rApp = [p \in Peers |-> "idle"]
  /\ cApp = [p \in Peers |-> "idle"]
  /\ accepted = [p \in Peers |-> 0]
  /\ delivered = [p \in Peers |-> <<>>]
  /\ sent = [p \in Peers |-> {}]
  /\ gotEnd = [p \in Peers |-> FALSE]
  /\ readDeadline = [p \in Peers |-> ZeroTime]
  /\ writeDeadline = [p \in Peers |-> ZeroTime]
  /\ onUpdateDeadline = [p \in Peers |-> FALSE]
  /\ sApp = [p \in Peers |-> "idle"]
  /\ rArmed = [p \in Peers |-> FALSE]
  /\ wArmed = [p \in Peers |-> FALSE]

-----------------------------------------------------------------------------
(***************************************************************************)
(* reader()                                                                *)
(***************************************************************************)
\* Variant of ProdWriter with a strict comparison: the Ack prod comes one
\* frame late.
ProdWriterLate(p) == f_read_idx[p] - f_ack_idx[p] > W

\* The reader prods the writer once a window of frames is unacknowledged.
ProdWriter(p) == f_read_idx[p] - f_ack_idx[p] >= W

\* Loop head, under the lock: on RState Closed send the final Ack if one is
\* owed and exit; otherwise prod the writer if an Ack is due.
RdTop(p) ==
  /\ rdPc[p] = "top"
  /\ IF RState[p] = Closed
       THEN /\ IF f_read_idx[p] > f_ack_idx[p] THEN Signal(onFlush, p)
                                              ELSE UNCHANGED onFlush
            /\ rdPc' = [rdPc EXCEPT ![p] = "done"]
       ELSE /\ IF ProdWriter(p) THEN Signal(onFlush, p) ELSE UNCHANGED onFlush
            /\ rdPc' = [rdPc EXCEPT ![p] = "get"]
  /\ UNCHANGED <<strm, onAck, onWrite, onRead, onStreamClose, rdFrame, wrPc,
                 wrFrame, rxPc, rxFrame, nRetx, app, tq, store, nLost, hist>>

\* Variant of ReadAdvance that forgets to advance f_read_idx.
ReadAdvanceStuck(p, f) ==
  IF f.type = StreamEnd
    THEN /\ RState' = [RState EXCEPT ![p] = Closed]
         /\ gotEnd' = [gotEnd EXCEPT ![p] = TRUE]
         /\ UNCHANGED f_read_idx
    ELSE UNCHANGED <<f_read_idx, RState, gotEnd>>

\* A StreamEnd frame closes the read half; any other frame advances
\* f_read_idx.
ReadAdvance(p, f) ==
  IF f.type = StreamEnd
    THEN /\ RState' = [RState EXCEPT ![p] = Closed]
         /\ gotEnd' = [gotEnd EXCEPT ![p] = TRUE]
         /\ UNCHANGED f_read_idx
    ELSE /\ f_read_idx' = [f_read_idx EXCEPT ![p] = @ + 1]
         /\ UNCHANGED <<RState, gotEnd>>

\* processAck: under the retx lock, delete every wack entry i <= f.Ack; if
\* one was deleted, prod a writer waiting on onAck.
ProcessAck(p, f) ==
  LET acked == {i \in wack[p] : i <= f.ack} IN
  /\ wack' = [wack EXCEPT ![p] = @ \ acked]
  /\ IF acked # {} THEN Signal(onAck, p) ELSE UNCHANGED onAck

\* readFrame() Gets the frame at f_read_idx (a failed Get goes back to the
\* loop head), then processAck() runs under the retx lock only; the frame
\* is local to the reader goroutine until it is appended.
RdFetch(p) ==
  /\ rdPc[p] = "get"
  /\ IF Stored(Peer(p), f_read_idx[p]) = {}
       THEN /\ rdPc' = [rdPc EXCEPT ![p] = "top"]
            /\ UNCHANGED <<wack, onAck, rdFrame>>
       ELSE \E f \in Stored(Peer(p), f_read_idx[p]) :
            /\ ProcessAck(p, f)
            /\ rdFrame' = [rdFrame EXCEPT ![p] = f]
            /\ rdPc' = [rdPc EXCEPT ![p] = "append"]
  /\ UNCHANGED <<writeBuf, readBuf, f_read_idx, f_write_idx, f_ack_idx,
                 RState, WState, onFlush, onWrite, onRead, onStreamClose,
                 wrPc, wrFrame, rxPc, rxFrame, nRetx, app, tq, store, nLost,
                 hist>>

\* Then, under the stream lock, the payload is appended to readBuf and
\* ReadAdvance; after the unlock, doOnRead().
RdAppend(p) ==
  LET f == rdFrame[p] IN
  /\ rdPc[p] = "append"
  /\ rdPc' = [rdPc EXCEPT ![p] = "top"]
  /\ rdFrame' = [rdFrame EXCEPT ![p] = NullFrame]
  /\ readBuf' = [readBuf EXCEPT ![p] = @ \o f.payload]
  /\ delivered' = [delivered EXCEPT ![p] = @ \o f.payload]
  /\ ReadAdvance(p, f)
  /\ Signal(onRead, p)
  /\ UNCHANGED <<writeBuf, f_write_idx, f_ack_idx, wack, WState, onFlush,
                 onAck, onWrite, onStreamClose, wrPc, wrFrame, rxPc, rxFrame,
                 nRetx, app, tq, store, nLost, accepted, sent>>

-----------------------------------------------------------------------------
(***************************************************************************)
(* writer(): the loop head decides under the lock whether a frame must go  *)
(* out (an Ack or a teardown obligation) or whether to wait on onFlush or  *)
(* onAck; the frame is assembled under the lock and passed to txFrame()    *)
(* once the lock is dropped.                                               *)
(***************************************************************************)
Teardown(p) == RState[p] = Closed \/ WState[p] = Closing
\* Variant of MustTeardown without the check that writeBuf is empty.
MustTeardownEager(p) == Teardown(p)
\* XXX in the code: no teardown while writeBuf still holds data.
MustTeardown(p) == Teardown(p) /\ writeBuf[p] = <<>>
MustAck(p) == \/ f_read_idx[p] - f_ack_idx[p] >= W
              \/ Teardown(p) /\ f_read_idx[p] - f_ack_idx[p] > 0
MustWait(p) == /\ Cardinality(wack[p]) >= W \/ writeBuf[p] = <<>>
               /\ WState[p] # Closing

\* writeBuf.Read into a FramePayloadSize buffer takes at most one unit.
FirstUnit(buf) == IF buf = <<>> THEN <<>> ELSE <<Head(buf)>>
Drop(n, buf) == [k \in 1..(Len(buf) - n) |-> buf[k + n]]

\* Variant of EndWriteHalf that never closes the write half.
EndWriteHalfMissing(p, mustTeardown) == UNCHANGED WState

\* A teardown frame is StreamEnd and closes the write half.
EndWriteHalf(p, mustTeardown) ==
  WState' = IF mustTeardown THEN [WState EXCEPT ![p] = Closed] ELSE WState

\* Frame id f_write_idx, Ack f_read_idx, payload read from writeBuf.  A
\* frame with no payload and no obligation is dropped.
Build(p, mustAck, mustTeardown) ==
  LET f == [id |-> f_write_idx[p],
            type |-> IF mustTeardown THEN StreamEnd ELSE StreamStart,
            ack |-> f_read_idx[p],
            payload |-> FirstUnit(writeBuf[p])]
  IN
  /\ writeBuf' = [writeBuf EXCEPT ![p] = Drop(Len(f.payload), @)]
  /\ EndWriteHalf(p, mustTeardown)
  /\ IF f.payload # <<>> \/ mustAck \/ mustTeardown
       THEN /\ wrFrame' = [wrFrame EXCEPT ![p] = f]
            /\ wrPc' = [wrPc EXCEPT ![p] = "put"]
       ELSE /\ wrPc' = [wrPc EXCEPT ![p] = "top"]
            /\ UNCHANGED wrFrame

\* What a writer step before txFrame() leaves alone.
WrKeeps == <<readBuf, f_read_idx, f_write_idx, f_ack_idx, wack, RState,
             onAck, onWrite, onRead, rdPc, rdFrame, rxPc, rxFrame, nRetx, app, tq,
             store, nLost, hist>>

\* WState Closed: send on onStreamClose (cap 1, so it does not block the
\* first time) under the lock, and exit.
WrExit(p) ==
  /\ wrPc[p] = "top"
  /\ WState[p] = Closed
  /\ ~onStreamClose[p]
  /\ Signal(onStreamClose, p)
  /\ wrPc' = [wrPc EXCEPT ![p] = "done"]
  /\ UNCHANGED <<WrKeeps, writeBuf, WState, onFlush, wrFrame>>

\* An Ack or teardown obligation: build the frame without dropping the lock.
WrObliged(p) ==
  /\ wrPc[p] = "top"
  /\ WState[p] # Closed
  /\ MustAck(p) \/ MustTeardown(p)
  /\ Build(p, MustAck(p), MustTeardown(p))
  /\ UNCHANGED <<WrKeeps, onFlush, onStreamClose>>

\* No obligation: drop the lock; wait on onFlush/onAck if the window is
\* full or writeBuf is empty, unless Closing.
WrCheck(p) ==
  /\ wrPc[p] = "top"
  /\ WState[p] # Closed
  /\ ~MustAck(p) /\ ~MustTeardown(p)
  /\ wrPc' = [wrPc EXCEPT ![p] = IF MustWait(p) THEN "wait" ELSE "build"]
  /\ UNCHANGED <<WrKeeps, writeBuf, WState, onFlush, onStreamClose, wrFrame>>

WrWait(p) ==
  /\ wrPc[p] = "wait"
  /\ \/ Take(onFlush, p) /\ UNCHANGED onAck
     \/ Take(onAck, p) /\ UNCHANGED onFlush
  /\ wrPc' = [wrPc EXCEPT ![p] = "build"]
  /\ UNCHANGED <<strm, onWrite, onRead, onStreamClose, rdPc, rdFrame, wrFrame, rxPc,
                 rxFrame, nRetx, app, tq, store, nLost, hist>>

\* Lock re-taken: the frame is built with both obligations FALSE.
WrBuild(p) ==
  /\ wrPc[p] = "build"
  /\ Build(p, FALSE, FALSE)
  /\ UNCHANGED <<WrKeeps, onFlush, onStreamClose>>

\* txFrame() up to txEnqueue: raise f_ack_idx to the frame's Ack, Put the
\* frame under its identifier, then f_write_idx += 1.
TxPut(p, f) ==
  /\ f_ack_idx' = [f_ack_idx EXCEPT ![p] = IF f.ack > @ THEN f.ack ELSE @]
  /\ Put(p, f)
  /\ sent' = [sent EXCEPT ![p] = @ \cup {f}]
  /\ f_write_idx' = [f_write_idx EXCEPT ![p] = @ + 1]

\* txEnqueue(): mark the frame unacknowledged and arm its retransmission.
TxEnqueue(p, f) ==
  /\ wack' = [wack EXCEPT ![p] = @ \cup {f.id}]
  /\ tq' = [tq EXCEPT ![p] = @ \cup {f}]

WrPut(p) ==
  /\ wrPc[p] = "put"
  /\ TxPut(p, wrFrame[p])
  /\ wrPc' = [wrPc EXCEPT ![p] = "enqueue"]
  /\ UNCHANGED <<writeBuf, readBuf, f_read_idx, wack, RState, WState, sigs,
                 rdPc, rdFrame, wrFrame, rxPc, rxFrame, nRetx, app, tq, nLost,
                 accepted, delivered, gotEnd>>

\* txEnqueue, then doOnWrite() for a Write blocked on the buffer cap.
WrEnqueue(p) ==
  /\ wrPc[p] = "enqueue"
  /\ TxEnqueue(p, wrFrame[p])
  /\ Signal(onWrite, p)
  /\ wrPc' = [wrPc EXCEPT ![p] = "top"]
  /\ wrFrame' = [wrFrame EXCEPT ![p] = NullFrame]
  /\ UNCHANGED <<writeBuf, readBuf, f_read_idx, f_write_idx, f_ack_idx,
                 RState, WState, onFlush, onAck, onRead, onStreamClose, rdPc, rdFrame,
                 rxPc, rxFrame, nRetx, app, store, nLost, hist>>

-----------------------------------------------------------------------------
(***************************************************************************)
(* The TimerQueue pops an smsg once its priority has elapsed and calls     *)
(* retx.Push, one callback at a time.  Which armed entry elapses next is   *)
(* left open.                                                              *)
(***************************************************************************)
\* retx.Push: the frame was acknowledged meanwhile; nothing to do.
TqAcked(p) ==
  /\ rxPc[p] = "idle"
  /\ \E m \in tq[p] :
       /\ m.id \notin wack[p]
       /\ tq' = [tq EXCEPT ![p] = @ \ {m}]
  /\ UNCHANGED <<strm, sigs, wrk, app, store, nLost, hist>>

\* retx.Push: the frame is still in wack, so txFrame() sends it again (the
\* wack check and the Put are two lock sections; an Ack landing between
\* them has the effect of one landing just after the Put).
TqRetransmit(p) ==
  /\ rxPc[p] = "idle"
  /\ nRetx[p] < MaxRetx
  /\ \E m \in tq[p] :
       /\ m.id \in wack[p]
       /\ tq' = [tq EXCEPT ![p] = @ \ {m}]
       /\ rxFrame' = [rxFrame EXCEPT ![p] = m]
       /\ TxPut(p, m)
  /\ rxPc' = [rxPc EXCEPT ![p] = "enqueue"]
  /\ nRetx' = [nRetx EXCEPT ![p] = @ + 1]
  /\ UNCHANGED <<writeBuf, readBuf, f_read_idx, wack, RState, WState, sigs,
                 rdPc, rdFrame, wrPc, wrFrame, app, nLost, accepted, delivered,
                 gotEnd>>

RetxEnqueue(p) ==
  /\ rxPc[p] = "enqueue"
  /\ TxEnqueue(p, rxFrame[p])
  /\ rxPc' = [rxPc EXCEPT ![p] = "idle"]
  /\ rxFrame' = [rxFrame EXCEPT ![p] = NullFrame]
  /\ UNCHANGED <<writeBuf, readBuf, f_read_idx, f_write_idx, f_ack_idx,
                 RState, WState, sigs, rdPc, rdFrame, wrPc, wrFrame, nRetx, app,
                 store, nLost, hist>>

-----------------------------------------------------------------------------
(***************************************************************************)
(* The application.  A call that returns at once without touching any     *)
(* state (Write on a closing stream) is a stuttering step.                 *)
(***************************************************************************)
WKeeps == <<readBuf, f_read_idx, f_write_idx, f_ack_idx, wack, RState,
            WState, onAck, onRead, wrk, rApp, cApp, tq, store, nLost,
            delivered, sent, gotEnd>>

\* Variant of Enqueue that appends the count of units so far, not the next.
EnqueueOffByOne(p) ==
  /\ writeBuf' = [writeBuf EXCEPT ![p] = Append(@, accepted[p])]
  /\ accepted' = [accepted EXCEPT ![p] = @ + 1]
  /\ Signal(onFlush, p)

\* writeBuf.Write of the next unit, unlock, doFlush().
Enqueue(p) ==
  /\ writeBuf' = [writeBuf EXCEPT ![p] = Append(@, accepted[p] + 1)]
  /\ accepted' = [accepted EXCEPT ![p] = @ + 1]
  /\ Signal(onFlush, p)

\* Write below the buffer cap.  WState Closing or Closed returns io.EOF and
\* a passed writeDeadline returns ErrDeadlineExceeded, both without
\* touching any state.
Write(p) ==
  /\ wApp[p] = "idle"
  /\ accepted[p] < MaxWrites[p]
  /\ WState[p] = Open
  /\ writeDeadline[p] # Past
  /\ Len(writeBuf[p]) < MaxWriteBuf
  /\ Enqueue(p)
  /\ UNCHANGED <<WKeeps, onWrite, onStreamClose, wApp, dl>>

\* Write at the cap: drop the lock and block on the select, whose
\* time.After runs until writeDeadline if one is set, for defaultTimeout
\* otherwise.
WriteBlock(p) ==
  /\ wApp[p] = "idle"
  /\ accepted[p] < MaxWrites[p]
  /\ WState[p] = Open
  /\ writeDeadline[p] # Past
  /\ Len(writeBuf[p]) >= MaxWriteBuf
  /\ wApp' = [wApp EXCEPT ![p] = "blocked"]
  /\ wArmed' = [wArmed EXCEPT ![p] = writeDeadline[p] # ZeroTime \/ Timeouts]
  /\ UNCHANGED <<WKeeps, writeBuf, sigs, accepted, readDeadline,
                 writeDeadline, onUpdateDeadline, sApp, rArmed>>

\* case <-s.onWrite: re-take the lock and append; WState is not rechecked.
WriteWake(p) ==
  /\ wApp[p] = "blocked"
  /\ Take(onWrite, p)
  /\ Enqueue(p)
  /\ wApp' = [wApp EXCEPT ![p] = "idle"]
  /\ wArmed' = [wArmed EXCEPT ![p] = FALSE]
  /\ UNCHANGED <<WKeeps, onStreamClose, readDeadline, writeDeadline,
                 onUpdateDeadline, sApp, rArmed>>

\* case <-s.onStreamClose, or case <-time.After(timeout): return 0, io.EOF.
WriteAbort(p) ==
  /\ wApp[p] = "blocked"
  /\ \/ Take(onStreamClose, p)
     \/ wArmed[p] /\ UNCHANGED onStreamClose
  /\ wApp' = [wApp EXCEPT ![p] = "idle"]
  /\ wArmed' = [wArmed EXCEPT ![p] = FALSE]
  /\ UNCHANGED <<WKeeps, writeBuf, onFlush, onWrite, accepted, readDeadline,
                 writeDeadline, onUpdateDeadline, sApp, rArmed>>

CKeeps == <<writeBuf, readBuf, f_read_idx, f_write_idx, f_ack_idx, wack,
            onFlush, onAck, onWrite, onRead, wrk, wApp, rApp, tq, store,
            nLost, hist>>

\* Close: RState Closed; if WState is Open make it Closing and block on
\* onStreamClose, otherwise return at once.
Close(p) ==
  /\ p \in Closers
  /\ cApp[p] = "idle"
  /\ RState' = [RState EXCEPT ![p] = Closed]
  /\ IF WState[p] = Open
       THEN /\ WState' = [WState EXCEPT ![p] = Closing]
            /\ cApp' = [cApp EXCEPT ![p] = "closing"]
       ELSE /\ cApp' = [cApp EXCEPT ![p] = "done"]
            /\ UNCHANGED WState
  /\ UNCHANGED <<CKeeps, onStreamClose, dl>>

CloseReturn(p) ==
  /\ cApp[p] = "closing"
  /\ Take(onStreamClose, p)
  /\ cApp' = [cApp EXCEPT ![p] = "done"]
  /\ UNCHANGED <<CKeeps, RState, WState, dl>>

RKeeps == <<writeBuf, f_read_idx, f_write_idx, f_ack_idx, wack, RState,
            WState, onFlush, onAck, onWrite, onStreamClose, wrk, wApp, cApp,
            tq, store, nLost, hist>>

\* Read: a passed readDeadline returns ErrDeadlineExceeded without touching
\* any state; EOF if either half is Closed; block if readBuf is empty, with
\* time.After running until readDeadline if one is set, for defaultTimeout
\* otherwise; else readBuf.Read takes a unit.  The application stops
\* reading at EOF.
Read(p) ==
  /\ p \in Readers
  /\ rApp[p] = "idle"
  /\ readDeadline[p] # Past
  /\ CASE RState[p] = Closed \/ WState[p] = Closed ->
            /\ rApp' = [rApp EXCEPT ![p] = "eof"]
            /\ UNCHANGED <<readBuf, rArmed>>
       [] readBuf[p] = <<>> ->
            /\ rApp' = [rApp EXCEPT ![p] = "blocked"]
            /\ rArmed' = [rArmed EXCEPT ![p] =
                             readDeadline[p] # ZeroTime \/ Timeouts]
            /\ UNCHANGED readBuf
       [] OTHER ->
            /\ readBuf' = [readBuf EXCEPT ![p] = Tail(@)]
            /\ UNCHANGED <<rApp, rArmed>>
  /\ UNCHANGED <<RKeeps, onRead, readDeadline, writeDeadline,
                 onUpdateDeadline, sApp, wArmed>>

\* case <-s.onRead: readBuf.Read returns 0, io.EOF if readBuf is empty.
ReadWake(p) ==
  /\ rApp[p] = "blocked"
  /\ Take(onRead, p)
  /\ IF readBuf[p] = <<>>
       THEN rApp' = [rApp EXCEPT ![p] = "eof"] /\ UNCHANGED readBuf
       ELSE /\ readBuf' = [readBuf EXCEPT ![p] = Tail(@)]
            /\ rApp' = [rApp EXCEPT ![p] = "idle"]
  /\ rArmed' = [rArmed EXCEPT ![p] = FALSE]
  /\ UNCHANGED <<RKeeps, readDeadline, writeDeadline, onUpdateDeadline, sApp,
                 wArmed>>

\* case <-time.After(timeout): return 0, io.EOF.
ReadTimeout(p) ==
  /\ rApp[p] = "blocked"
  /\ rArmed[p]
  /\ rApp' = [rApp EXCEPT ![p] = "eof"]
  /\ rArmed' = [rArmed EXCEPT ![p] = FALSE]
  /\ UNCHANGED <<RKeeps, readBuf, onRead, readDeadline, writeDeadline,
                 onUpdateDeadline, sApp, wArmed>>

-----------------------------------------------------------------------------
(***************************************************************************)
(* Deadlines.  Each setter assigns under the lock and then sends on        *)
(* onUpdateDeadline, which has capacity 1 and which nothing receives: the  *)
(* first send completes, every later one blocks.  The blocked selects of   *)
(* Read and Write computed their timeout before they blocked and never     *)
(* look at a new deadline.                                                 *)
(***************************************************************************)
SetKeeps == <<strm, sigs, wrk, app, tq, store, nLost, hist, rArmed, wArmed>>

\* The new deadlines.  Only Read looks at readDeadline and only Write at
\* writeDeadline, so the deadline of a call the application never makes is
\* kept at zero.
Assign(p, rd, wd) ==
  /\ readDeadline' = [readDeadline EXCEPT ![p] =
                         IF p \in Readers THEN rd ELSE ZeroTime]
  /\ writeDeadline' = [writeDeadline EXCEPT ![p] =
                          IF MaxWrites[p] > 0 THEN wd ELSE ZeroTime]

\* The application calls SetDeadline, SetReadDeadline or SetWriteDeadline
\* with a time t; each assigns under the lock and then sends.
SetDeadlines(p) ==
  /\ p \in Setters
  /\ sApp[p] = "idle"
  /\ \E t \in Deadlines :
       \/ Assign(p, t, t)
       \/ Assign(p, t, writeDeadline[p])
       \/ Assign(p, readDeadline[p], t)
  /\ sApp' = [sApp EXCEPT ![p] = "send"]
  /\ UNCHANGED <<SetKeeps, onUpdateDeadline>>

\* s.onUpdateDeadline <- struct{}{}; return nil.
SetSend(p) ==
  /\ sApp[p] = "send"
  /\ ~onUpdateDeadline[p]
  /\ Signal(onUpdateDeadline, p)
  /\ sApp' = [sApp EXCEPT ![p] = "idle"]
  /\ UNCHANGED <<SetKeeps, readDeadline, writeDeadline>>

\* The clock passes a deadline that was ahead of it.
Expire(p) ==
  /\ \/ /\ readDeadline[p] = Future
        /\ readDeadline' = [readDeadline EXCEPT ![p] = Past]
        /\ UNCHANGED writeDeadline
     \/ /\ writeDeadline[p] = Future
        /\ writeDeadline' = [writeDeadline EXCEPT ![p] = Past]
        /\ UNCHANGED readDeadline
  /\ UNCHANGED <<SetKeeps, onUpdateDeadline, sApp>>

-----------------------------------------------------------------------------
\* The substrate loses a stored frame.
Lose(p) ==
  /\ nLost < MaxLoss
  /\ \E f \in store[p] : store' = [store EXCEPT ![p] = @ \ {f}]
  /\ nLost' = nLost + 1
  /\ UNCHANGED <<strm, sigs, wrk, app, tq, hist, dl>>

\* The workers and the substrate leave the deadlines alone.
Reader(p) == (RdTop(p) \/ RdFetch(p) \/ RdAppend(p)) /\ UNCHANGED dl
Writer(p) == /\ \/ WrExit(p) \/ WrObliged(p) \/ WrCheck(p) \/ WrWait(p)
                \/ WrBuild(p) \/ WrPut(p) \/ WrEnqueue(p)
             /\ UNCHANGED dl
Timer(p)  == (TqAcked(p) \/ TqRetransmit(p) \/ RetxEnqueue(p)) /\ UNCHANGED dl
Setter(p) == SetDeadlines(p) \/ SetSend(p)
App(p)    == \/ Write(p) \/ WriteBlock(p) \/ WriteWake(p) \/ WriteAbort(p)
             \/ Close(p) \/ CloseReturn(p)
             \/ Read(p) \/ ReadWake(p) \/ ReadTimeout(p)

Next == \E p \in Peers : \/ Reader(p) \/ Writer(p) \/ Timer(p) \/ App(p)
                         \/ Setter(p) \/ Expire(p) \/ Lose(p)

\* The workers and the TimerQueue are goroutines the runtime keeps
\* scheduling.  The application need not call anything, but a call blocked
\* in a select or a channel send returns once the channel is ready, an
\* armed time.After fires, and the clock passes every deadline set ahead
\* of it.
Fairness ==
  \A p \in Peers :
    /\ WF_vars(Reader(p)) /\ WF_vars(Writer(p)) /\ WF_vars(Timer(p))
    /\ WF_vars(WriteWake(p)) /\ WF_vars(CloseReturn(p)) /\ WF_vars(ReadWake(p))
    /\ WF_vars(WriteAbort(p)) /\ WF_vars(ReadTimeout(p))
    /\ WF_vars(SetSend(p)) /\ WF_vars(Expire(p))

Spec == Init /\ [][Next]_vars
FairSpec == Spec /\ Fairness

-----------------------------------------------------------------------------
TypeOK ==
  /\ \A p \in Peers : /\ writeBuf[p] \in Seq(1..MaxWrites[p])
                      /\ readBuf[p] \in Seq(1..MaxWrites[Peer(p)])
  /\ f_read_idx \in [Peers -> Nat] /\ f_write_idx \in [Peers -> Nat]
  /\ f_ack_idx \in [Peers -> Nat]
  /\ wack \in [Peers -> SUBSET Nat]
  /\ RState \in [Peers -> {Open, Closed}]
  /\ WState \in [Peers -> {Open, Closing, Closed}]
  /\ \A ch \in {onFlush, onAck, onWrite, onRead, onStreamClose} :
       ch \in [Peers -> BOOLEAN]
  /\ tq \in [Peers -> SUBSET Frames] /\ store \in [Peers -> SUBSET Frames]
  /\ rdPc \in [Peers -> {"top", "get", "append", "done"}]
  /\ wrPc \in [Peers -> {"top", "wait", "build", "put", "enqueue", "done"}]
  /\ rxPc \in [Peers -> {"idle", "enqueue"}]
  /\ nRetx \in [Peers -> 0..MaxRetx] /\ nLost \in 0..MaxLoss
  /\ wApp \in [Peers -> {"idle", "blocked"}]
  /\ rApp \in [Peers -> {"idle", "blocked", "eof"}]
  /\ cApp \in [Peers -> {"idle", "closing", "done"}]
  /\ \A p \in Peers : wrPc[p] \in {"put", "enqueue"} => wrFrame[p] \in Frames
  /\ \A p \in Peers : rxPc[p] = "enqueue" => rxFrame[p] \in Frames
  /\ \A p \in Peers : rdPc[p] = "append" => rdFrame[p] \in Frames
  /\ readDeadline \in [Peers -> Deadlines]
  /\ writeDeadline \in [Peers -> Deadlines]
  /\ onUpdateDeadline \in [Peers -> BOOLEAN]
  /\ sApp \in [Peers -> {"idle", "send"}]
  /\ rArmed \in [Peers -> BOOLEAN] /\ wArmed \in [Peers -> BOOLEAN]

\* The units the reader worker appends to readBuf are, in order and without
\* gaps or repeats, the units the peer's application wrote (reader() fetches
\* frames by consecutive f_read_idx and a retransmission reuses its frame).
DeliveredPrefix ==
  \A p \in Peers :
    /\ delivered[p] = [k \in 1..Len(delivered[p]) |-> k]
    /\ Len(delivered[p]) <= accepted[Peer(p)]

\* The StreamEnd frame is the last frame of its direction: after writer()
\* sends it, WState is Closed and no later frame index is used.
EndIsLast ==
  \A p \in Peers : \A f, g \in sent[p] : f.type = StreamEnd => g.id <= f.id

\* Every unit a Write accepts is eventually appended to the peer's readBuf
\* (writer(), reader(), processAck() and the reader's Ack prod together
\* keep the window moving).
DataDelivered ==
  \A p \in Peers : \A k \in 1..MaxWrites[p] :
    accepted[p] >= k ~> Len(delivered[Peer(p)]) >= k

\* A Close() that blocks on onStreamClose returns: writer() eventually sends
\* the StreamEnd frame and the onStreamClose token.
CloseReturns ==
  \A p \in Peers : cApp[p] = "closing" ~> cApp[p] = "done"

\* SetDeadline, SetReadDeadline and SetWriteDeadline return: their send on
\* onUpdateDeadline completes.
SetDeadlineReturns ==
  \A p \in Peers : sApp[p] = "send" ~> sApp[p] = "idle"

\* Frames are numbered without holes: the indices ever Put are exactly
\* 0 .. f_write_idx-1, which reader() on the other side needs, since it
\* fetches frame f_read_idx and nothing else.
ContiguousFrameIds ==
  \A p \in Peers : {f.id : f \in sent[p]} = 0..(f_write_idx[p] - 1)

\* processAck() removes a frame from wack (ending its retransmission) only
\* when the peer has read it: the peer's reader is past that frame index,
\* or has read the StreamEnd frame.
AckSound ==
  [][\A p \in Peers : \A i \in wack[p] \ wack'[p] :
        i < f_read_idx[Peer(p)] \/ gotEnd[Peer(p)]]_vars

\* At most stream_window_size frames are unacknowledged at any time.
WindowBound ==
  \A p \in Peers : Cardinality(wack[p]) <= W

\* Read() returns io.EOF only when nothing is left to read: readBuf is empty
\* and the peer's StreamEnd has been read or the stream was closed locally.
EOFOnlyAtEnd ==
  \A p \in Peers :
    rApp[p] = "eof" => readBuf[p] = <<>> /\ (gotEnd[p] \/ cApp[p] # "idle")

\* Stream implements StreamDelivery: Write's accepted units are the
\* abstract sent units, the units the reader appends to readBuf are the
\* abstract deliveries, and reading the peer's StreamEnd is end of stream.
\* Every step of the reader, the writer, the TimerQueue callback and the
\* application is a step of the reliable FIFO or leaves it unchanged: no
\* unit is lost, repeated or reordered before StreamEnd, StreamEnd comes
\* after every unit Write accepted, and no Write succeeds once it has come.
\* The code breaks the last clause: a Write blocked at the buffer cap wakes
\* after Close and buffers its unit behind the StreamEnd (Write, line 321),
\* so the peer reaches end of stream with that unit missing.
Delivery == INSTANCE StreamDelivery WITH sentU <- accepted, recv <- delivered,
                                         eof <- gotEnd
ImplementsDelivery == Delivery!Spec

=============================================================================
