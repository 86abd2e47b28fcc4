----------------------------- MODULE MailStream -----------------------------
(***************************************************************************)
(* The earlier Stream kept in src/mailproxy/mailproxy.go, between two      *)
(* peers.  Each peer runs a reader and a writer goroutine over the storage *)
(* client; Write appends to writeBuf and then sends on prodWriter, a       *)
(* channel of capacity 1, with a blocking send.  A frame carries at most   *)
(* maxmsg bytes, one unit here, and the Ack field (the sender's readPtr).  *)
(* The hashed pointers writePtr and readPtr are abstracted to frame        *)
(* indices: H applied n times to the starting ID is index n.               *)
(*                                                                         *)
(* The TimerQueue and the storage client are not under src/; as for       *)
(* Stream.tla they are modelled from spec.md: an armed entry may fire at   *)
(* any time, and a stored frame may be lost.                               *)
(***************************************************************************)
EXTENDS Naturals, Sequences, FiniteSets

CONSTANTS
  Peers,      \* the two ends of the stream
  MaxWrites,  \* MaxWrites[p]: units p's application writes (one per Write)
  MaxLoss,    \* bound: stored frames the substrate loses
  MaxFail     \* bound: Put calls that return an error

ASSUME Cardinality(Peers) = 2

Peer(p) == CHOOSE q \in Peers : q # p

VARIABLES
  writeBuf,  \* writeBuf[p]: units written and not yet taken by the writer
  wApp,      \* wApp[p]: "idle", or "prod" while Write blocks on prodWriter
  prod,      \* prod[p]: prodWriter holds a token
  wrPc,      \* wrPc[p]: the writer's position: "top", "tx", "wait"
  wrFrame,   \* wrFrame[p]: the frame the writer is sending
  writeIdx,  \* writeIdx[p]: writePtr, the index of the next frame
  store,     \* store[p]: frames p has Put and the substrate still holds
  tq,        \* tq[p]: the frames (smsg) armed in the TimerQueue
  wack,      \* wack[p]: indices of p's frames waiting for an Ack
  readIdx,   \* readIdx[p]: readPtr, the index of the next frame to Get
  readBuf,   \* readBuf[p]: units read from frames, not yet Read
  accepted,  \* history: units p's application wrote
  delivered, \* history: units appended to p's readBuf, in order
  nLoss,     \* frames lost so far
  nFail      \* failed Puts so far

vars == <<writeBuf, wApp, prod, wrPc, wrFrame, writeIdx, store, tq, wack,
          readIdx, readBuf, accepted, delivered, nLoss, nFail>>

NoFrame == [ack |-> 0, payload |-> <<>>]

\* NewStream: empty buffers, pointers at the derived starting IDs, the
\* reader and writer goroutines started.
Init ==
  /\ writeBuf = [p \in Peers |-> <<>>]
  /\ wApp = [p \in Peers |-> "idle"]
  /\ prod = [p \in Peers |-> FALSE]
  /\ wrPc = [p \in Peers |-> "top"]
  /\ wrFrame = [p \in Peers |-> NoFrame]
  /\ writeIdx = [p \in Peers |-> 0]
  /\ store = [p \in Peers |-> {}]
  /\ tq = [p \in Peers |-> {}]
  /\ wack = [p \in Peers |-> {}]
  /\ readIdx = [p \in Peers |-> 0]
  /\ readBuf = [p \in Peers |-> <<>>]
  /\ accepted = [p \in Peers |-> 0]
  /\ delivered = [p \in Peers |-> <<>>]
  /\ nLoss = 0
  /\ nFail = 0

-----------------------------------------------------------------------------
\* Write: the data goes to writeBuf under the lock, then Write sends on
\* prodWriter.
Write(p) ==
  /\ wApp[p] = "idle"
  /\ accepted[p] < MaxWrites[p]
  /\ writeBuf' = [writeBuf EXCEPT ![p] = Append(@, accepted[p] + 1)]
  /\ accepted' = [accepted EXCEPT ![p] = @ + 1]
  /\ wApp' = [wApp EXCEPT ![p] = "prod"]
  /\ UNCHANGED <<prod, wrPc, wrFrame, writeIdx, store, tq, wack, readIdx,
                 readBuf, delivered, nLoss, nFail>>

\* The send on prodWriter completes once the one slot is free; Write
\* then returns.
WriteProd(p) ==
  /\ wApp[p] = "prod"
  /\ ~prod[p]
  /\ prod' = [prod EXCEPT ![p] = TRUE]
  /\ wApp' = [wApp EXCEPT ![p] = "idle"]
  /\ UNCHANGED <<writeBuf, wrPc, wrFrame, writeIdx, store, tq, wack, readIdx,
                 readBuf, accepted, delivered, nLoss, nFail>>

\* writer, top of the loop: the Ack is readPtr, read without the lock; up
\* to maxmsg bytes are taken from writeBuf under the lock.  With data the
\* frame goes to txFrame, without it the writer blocks in the select.
WrTake(p) ==
  /\ wrPc[p] = "top"
  /\ IF writeBuf[p] # <<>>
       THEN /\ wrFrame' = [wrFrame EXCEPT ![p] =
                             [ack |-> readIdx[p], payload |-> <<Head(writeBuf[p])>>]]
            /\ writeBuf' = [writeBuf EXCEPT ![p] = Tail(@)]
            /\ wrPc' = [wrPc EXCEPT ![p] = "tx"]
       ELSE /\ wrPc' = [wrPc EXCEPT ![p] = "wait"]
            /\ UNCHANGED <<wrFrame, writeBuf>>
  /\ UNCHANGED <<wApp, prod, writeIdx, store, tq, wack, readIdx, readBuf,
                 accepted, delivered, nLoss, nFail>>

\* Variant of WrWake that leaves the token in prodWriter.
WrWakeKeepToken(p) ==
  /\ wrPc[p] = "wait"
  /\ wrPc' = [wrPc EXCEPT ![p] = "top"]
  /\ UNCHANGED <<writeBuf, wApp, prod, wrFrame, writeIdx, store, tq, wack,
                 readIdx, readBuf, accepted, delivered, nLoss, nFail>>

\* The select: a prodWriter token is taken, or, when none comes, the 10
\* second time.After fires (a token already in the channel is ready at
\* once and wins).  Either way the loop starts again.  HaltCh is not
\* modelled.
WrWake(p) ==
  /\ wrPc[p] = "wait"
  /\ \/ /\ prod[p]
        /\ prod' = [prod EXCEPT ![p] = FALSE]
     \/ /\ ~prod[p]
        /\ UNCHANGED prod
  /\ wrPc' = [wrPc EXCEPT ![p] = "top"]
  /\ UNCHANGED <<writeBuf, wApp, wrFrame, writeIdx, store, tq, wack, readIdx,
                 readBuf, accepted, delivered, nLoss, nFail>>

\* Variant of TxPut that does not move writePtr.
TxPutNoAdvance(p) ==
  /\ wrPc[p] = "tx"
  /\ LET m == [idx |-> writeIdx[p], ack |-> wrFrame[p].ack,
               payload |-> wrFrame[p].payload] IN
     /\ store' = [store EXCEPT ![p] = @ \cup {m}]
     /\ tq' = [tq EXCEPT ![p] = @ \cup {m}]
  /\ wrPc' = [wrPc EXCEPT ![p] = "top"]
  /\ wrFrame' = [wrFrame EXCEPT ![p] = NoFrame]
  /\ UNCHANGED <<writeBuf, wApp, prod, writeIdx, wack, readIdx, readBuf,
                 accepted, delivered, nLoss, nFail>>

\* txFrame: Put under TID(writePtr), then txEnqueue pushes the frame on
\* the TimerQueue, and writePtr moves on.  Nothing enters wack.
TxPut(p) ==
  /\ wrPc[p] = "tx"
  /\ LET m == [idx |-> writeIdx[p], ack |-> wrFrame[p].ack,
               payload |-> wrFrame[p].payload] IN
     /\ store' = [store EXCEPT ![p] = @ \cup {m}]
     /\ tq' = [tq EXCEPT ![p] = @ \cup {m}]
  /\ writeIdx' = [writeIdx EXCEPT ![p] = @ + 1]
  /\ wrPc' = [wrPc EXCEPT ![p] = "top"]
  /\ wrFrame' = [wrFrame EXCEPT ![p] = NoFrame]
  /\ UNCHANGED <<writeBuf, wApp, prod, wack, readIdx, readBuf, accepted,
                 delivered, nLoss, nFail>>

\* txFrame: Put returns an error; txFrame returns it before txEnqueue and
\* before writePtr moves, and the writer drops the frame.
TxPutFail(p) ==
  /\ wrPc[p] = "tx"
  /\ nFail < MaxFail
  /\ nFail' = nFail + 1
  /\ wrPc' = [wrPc EXCEPT ![p] = "top"]
  /\ wrFrame' = [wrFrame EXCEPT ![p] = NoFrame]
  /\ UNCHANGED <<writeBuf, wApp, prod, writeIdx, store, tq, wack, readIdx,
                 readBuf, accepted, delivered, nLoss>>

\* retx.Push: the TimerQueue hands back an expired frame.  A frame not in
\* wack is not retransmitted; one in wack is Put again under its TID.
TqFire(p) ==
  \E m \in tq[p] :
    /\ tq' = [tq EXCEPT ![p] = @ \ {m}]
    /\ IF m.idx \in wack[p]
         THEN store' = [store EXCEPT ![p] = @ \cup {m}]
         ELSE UNCHANGED store
    /\ UNCHANGED <<writeBuf, wApp, prod, wrPc, wrFrame, writeIdx, wack,
                   readIdx, readBuf, accepted, delivered, nLoss, nFail>>

\* reader: Get(TID(readPtr)) finds the peer's frame; its Ack is deleted
\* from wack, the payload appended to readBuf under the lock, and readPtr
\* moves on.  A failed Get is retried and changes nothing.
RdFetch(p) ==
  \E f \in store[Peer(p)] :
    /\ f.idx = readIdx[p]
    /\ wack' = [wack EXCEPT ![p] = @ \ {f.ack}]
    /\ readBuf' = [readBuf EXCEPT ![p] = @ \o f.payload]
    /\ delivered' = [delivered EXCEPT ![p] = @ \o f.payload]
    /\ readIdx' = [readIdx EXCEPT ![p] = @ + 1]
    /\ UNCHANGED <<writeBuf, wApp, prod, wrPc, wrFrame, writeIdx, store, tq,
                   accepted, nLoss, nFail>>

\* Read: takes what readBuf holds, up to the caller's buffer; an empty
\* readBuf returns 0 bytes and no error.
Read(p) ==
  \E k \in 1..Len(readBuf[p]) :
    /\ readBuf' = [readBuf EXCEPT ![p] = SubSeq(@, k + 1, Len(@))]
    /\ UNCHANGED <<writeBuf, wApp, prod, wrPc, wrFrame, writeIdx, store, tq,
                   wack, readIdx, accepted, delivered, nLoss, nFail>>

\* The storage substrate loses a stored frame.
Lose(p) ==
  \E f \in store[p] :
    /\ nLoss < MaxLoss
    /\ store' = [store EXCEPT ![p] = @ \ {f}]
    /\ nLoss' = nLoss + 1
    /\ UNCHANGED <<writeBuf, wApp, prod, wrPc, wrFrame, writeIdx, tq, wack,
                   readIdx, readBuf, accepted, delivered, nFail>>

Writer(p) == WrTake(p) \/ WrWake(p) \/ TxPut(p) \/ TxPutFail(p)

Next ==
  \E p \in Peers :
    \/ Write(p) \/ WriteProd(p) \/ Writer(p) \/ TqFire(p)
    \/ RdFetch(p) \/ Read(p) \/ Lose(p)

Spec == Init /\ [][Next]_vars

\* The reader and writer goroutines run whenever they can; the Write that
\* is blocked in its send completes once the slot is free.  The writer's
\* fairness excludes TxPutFail, which the substrate decides.
Fairness ==
  \A p \in Peers :
    /\ WF_vars(RdFetch(p)) /\ WF_vars(WriteProd(p))
    /\ WF_vars(WrTake(p) \/ WrWake(p) \/ TxPut(p))

FairSpec == Spec /\ Fairness

-----------------------------------------------------------------------------
\* A Write blocked in its send on prodWriter returns: the writer drains
\* the token whenever writeBuf runs empty.
WriteReturns ==
  \A p \in Peers : wApp[p] = "prod" ~> wApp[p] = "idle"

\* When no frame is ever lost and no Put fails, every unit written reaches
\* the peer's readBuf: the writer sends everything it takes and the reader
\* finds every index.  (With a loss nothing is retransmitted: txEnqueue
\* never puts the frame in wack, so retx.Push always returns.)
DeliveredUnlessDropped ==
  [](nLoss = 0 /\ nFail = 0) =>
    \A p \in Peers : \A k \in 1..MaxWrites[p] :
      accepted[p] >= k ~> Len(delivered[Peer(p)]) >= k

=============================================================================
