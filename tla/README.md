# TLA+ models of katzenpost

This directory holds TLA+ models of four parts of the repository, checked
with TLC:

* `src/stream/stream.go`: the reliable byte stream two katzenpost clients
  run over a key-value "map" substrate (spec.md, components D–G).
  Modules: `Stream`, `StreamDelivery`, `MCStream`.
* `src/mailproxy/mailproxy.go`: the earlier copy of that stream, kept in
  the mail proxy. Modules: `MailStream`, `MCMailStream`.
* the client2 ARQ (`src/unnamed/part_009`): SURB bookkeeping and
  retransmission of messages sent through the mix network. Modules: `ARQ`,
  `MCARQ`.
* `src/ratchet.go`: the double ratchet catshadow uses between two
  contacts. Modules: `Ratchet`, `MCRatchet`.

`PROJECT.json` lists every component, every run, the mutants that show each
property can fail, the source lines of every definition ("map"), the
findings and the hazards.

## The system

A `Stream` is one end of a bidirectional stream. The other end runs the same
code with the secrets swapped (`exchange`). Each direction is a sequence of
frames. Frame *n* is sealed with a key derived from *n* and is `Put` under
`TID(txFrameID(n))`. The peer `Get`s it under `TID(rxFrameID(n))`, which is
the same address.

Each end runs these goroutines. All of them share the stream mutex; `wack`
has its own mutex `retx.Mutex`.

| goroutine | code | what it does |
|---|---|---|
| reader worker | `reader`, `readFrame`, `processAck` | polls frame `f_read_idx`, acknowledges own frames up to its `Ack`, appends the payload to `readBuf`, advances `f_read_idx` or closes the read half on `StreamEnd`, prods the writer to Ack once a window of frames is unacknowledged |
| writer worker | `writer`, `txFrame`, `txEnqueue` | drains `writeBuf` one frame at a time, sends Ack and teardown (`StreamEnd`) frames, waits on `onFlush`/`onAck` when the window is full or there is nothing to send, then signals `onStreamClose` and exits |
| TimerQueue callback | `retx.Push` | retransmits a frame that is still in `wack` through `txFrame` |
| application | `Write`, `Read`, `Close` | `Write` buffers and prods the writer, blocking at the soft cap; `Read` takes from `readBuf` or blocks on `onRead`; `Close` closes the read half, marks the write half Closing and waits on `onStreamClose` |

The goroutines talk through single-slot channels (`onFlush`, `onAck`,
`onWrite`, `onRead`, `onStreamClose`). Every send but the writer's last
one is non-blocking, so a second signal is coalesced into the first.

## Modules

* `Stream.tla` models two peers `Peers`. Each peer has the state of one
  `Stream`, as functions over `Peers`.
  * The buffers are sequences of *units*. The k-th unit a peer's application
    writes is the number k. One unit is `FramePayloadSize` bytes, so a frame
    carries at most one unit.
  * `store[p]` is the set of frames peer p has `Put`, addressed by frame
    index. Key derivation, AEAD and CBOR are not modelled: all they provide
    is this addressing.
  * Each goroutine has a program counter: `rdPc`, `wrPc`, `rxPc`, `wApp`,
    `rApp`, `cApp`. An action is one lock section of the code, or one
    select case.
    * Reader: `RdTop`, `RdFetch` (the `Get` of `readFrame` and
      `ProcessAck`, under the retx lock only), `RdAppend` (the append,
      `ReadAdvance` and `doOnRead`, under the stream lock). The writer can
      run between the two, seeing `wack` pruned before `f_read_idx` moves.
    * Writer: `WrExit`, `WrObliged`, `WrCheck`, `WrWait`, `WrBuild`,
      `WrPut`, `WrEnqueue`.
    * TimerQueue callback: `TqAcked`, `TqRetransmit`, `RetxEnqueue`.
    * Application: `Write`, `WriteBlock`, `WriteWake`, `WriteAbort`,
      `Close`, `CloseReturn`, `Read`, `ReadWake`, `ReadTimeout`.
    * Deadline setters (`Setters`): `SetDeadlines` stands for one call of
      `SetDeadline`, `SetReadDeadline` or `SetWriteDeadline`. It assigns
      under the lock. `SetSend` is the send on `onUpdateDeadline` that
      follows.
    * Clock: `Expire` lets time pass a deadline that was still ahead.
    * Substrate: `Lose`.
  * Deadlines are abstracted to `ZeroTime`, `Future` or `Past` relative to
    the clock.
    * `Read` and `Write` return `ErrDeadlineExceeded` on a `Past` deadline.
      The step is a stutter, so their guards exclude it.
    * A select that blocks records whether its `time.After` can fire
      (`rArmed`, `wArmed`). It can fire if a deadline was set when the
      call blocked, or if the default timeout may expire (`Timeouts`).
    * Nothing ever receives `onUpdateDeadline`, so a blocked call never
      sees a new deadline.
    * The deadline of a call the peer's application never makes is kept
      at zero. No guard reads it.
  * History variables record what the properties need: `accepted`,
    `delivered`, `sent`, `gotEnd`.
  * `PROJECT.json` "map" gives the source lines of every definition.
* `MCStream.tla` makes the peers the model values `a` and `b`, and defines
  how many units each application writes.

The substrate and the TimerQueue are not in this repository. They are
modelled from spec.md:
* The substrate may lose any stored frame, up to `MaxLoss` frames in all.
* The TimerQueue may fire any armed entry at any time, up to `MaxRetx`
  retransmissions per peer. The code's priority is a duration, not a
  deadline, so this is what it really does.

## Runs

| run | cfg | result | what it shows |
|---|---|---|---|
| stream_retx | retx.cfg | pass | 2 units, 1 lost frame, 1 retransmission per side, Read by b with timeouts, no Close. Units arrive in order, without repeats and none unwritten (`DeliveredPrefix`). Two units are needed: with one, the order cannot go wrong. |
| stream_close | close.cfg | pass | a writes 2 units through a one-unit buffer, closes and sets deadlines; its blocked Write can time out only through `writeDeadline`. Units still arrive in order (`DeliveredPrefix`) and `StreamEnd` is the last frame a peer Puts (`EndIsLast`) (1.67M states, about 100 s). |
| stream_live | live.cfg | pass | Under worker fairness, with a 3-unit burst through a window of 2 and no Close, every accepted unit is delivered (`DataDelivered`). |
| mail_stream | mailstream.cfg | pass | Mail proxy stream, 2+1 units, 1 lost frame, 1 failed Put: a Write blocked on `prodWriter` returns (`WriteReturns`); without loss or failure every unit arrives (`DeliveredUnlessDropped`). The stream is not reliable, although the code calls it `ReliableStream`: see the hazard at mailproxy.go:368. |
| close_hang | close_hang.cfg | violation | a may write 2 units and close; b only runs its workers; default timeouts armed. A `Close` never returns (`CloseReturns`): in 6 states on an idle stream, a's writer parks on `onFlush`/`onAck`, `Close` marks it Closing without a signal, and a's reader exits. |
| retx_index_gap | retx_index_gap.cfg | violation | A retransmission skips a frame index (`ContiguousFrameIds`). |
| ack_before_receipt | ack_before_receipt.cfg | violation | `processAck` releases the frame the peer has not read yet (`AckSound`). |
| read_eof_stale_token | read_eof_stale_token.cfg | violation | A `Read` that found data leaves the reader's `onRead` token behind; the next `Read` blocks, wakes on the stale token at once, finds `readBuf` empty and returns `io.EOF` on an open stream (`EOFOnlyAtEnd`). |
| arq | arq.cfg | pass | One message, two losses, two early timers: a waiting message always has a timer armed (`PendingArmed`), is never resent after its reply (`NoResendAfterAck`), and is eventually acknowledged (`AckedEventually`). |
| arq_pop_race | arq_pop_race.cfg | violation | Two messages: the TimerQueue worker pops between `HandleAck`'s Peek and Pop, and the Pop removes the other message's timer (`PendingArmed`). |
| ratchet | ratchet.cfg | pass | Two messages per party, lost, reordered and duplicated, reordering limit 1: no message decrypts twice (`NoReplay`) and every message not yet decrypted still decrypts (`PendingDecryptable`). |
| ratchet_partial_decrypt | ratchet_partial_decrypt.cfg | violation | Reordering limit 0: a message over the limit on a new chain leaves the new root key stored, and the skipped message no longer decrypts (`PendingDecryptable`). |

### Findings

Each violation run is a disagreement between the code and spec.md or the
code's own comments. `PROJECT.json` "findings" gives the lines.

1. **Close can hang forever.** Close sets WState Closing but sends no
   signal. A writer already parked on `onFlush`/`onAck` stays there. The
   reader exits without a flush when no Ack is owed.
2. **Retransmissions leave holes in the frame sequence.**
   `f_write_idx += 1` sits in `txFrame`, which retransmissions also call.
   The next new frame skips an index, and the peer's reader waits for that
   index forever.
3. **Acks are off by one.** `Ack = f_read_idx` is the next index the peer
   expects. `processAck` releases `i <= Ack`, so the frame the peer does not
   have yet is never retransmitted.
4. **Read returns `io.EOF` on an open stream.** `doOnRead` leaves a token
   in `onRead` for each frame, and a `Read` that finds data never takes
   it. The next `Read` on an empty `readBuf` wakes on the stale token, and
   `readBuf.Read` returns `io.EOF` (stream.go:268-281).
5. **ARQ: HandleAck's Peek and Pop are not atomic.** The TimerQueue
   worker can pop the acked entry in between, and HandleAck then pops the
   next message's timer, which is never resent.
6. **Ratchet: a rejected message corrupts the state.** `Decrypt` stores
   the new root key (ratchet.go:719) before the second `saveKeys` and the
   message `Open`; when either fails the root key stays advanced, and a
   message the peer sent on the new chain no longer decrypts.
Properties stated in the modules that TLC also finds violated, kept out of
the run list: `WindowBound` (more than W frames outstanding while Closing),
`ImplementsDelivery` (a blocked Write buffers data after `StreamEnd`),
`SetDeadlineReturns` (the second deadline call blocks forever on
`onUpdateDeadline`, which nothing receives),
`DataDelivered` with Close (the reader exits and the window never reopens),
`ReplyAccepted` in `ARQ` (a reply handled before `Send` inserts the
message) and `DeliveredUnlessDropped` without its premise in `MailStream`
(a lost frame is never retransmitted, because nothing enters `wack`).

## The other modules

* `StreamDelivery.tla` is what a Stream promises: per direction a reliable
  FIFO of the units Write accepted, and end of stream only after all of
  them. `Stream.tla` instantiates it with `sentU <- accepted`,
  `recv <- delivered`, `eof <- gotEnd`. The code does not implement it:
  a `Write` blocked at the buffer cap wakes after `Close` and buffers its
  unit behind the `StreamEnd` (stream.go:321), and the peer reaches end of
  stream without it. With close.cfg's bounds TLC finds `ImplementsDelivery`
  violated in 17 states. No run keeps it; the hazard at stream.go:321
  records it.
* `MailStream.tla` models `mailproxy.go`'s Stream. Writer and reader
  goroutines per peer; `Write` appends to `writeBuf` and blocks in its send
  on `prodWriter` (`WriteProd`). The writer takes a frame (`WrTake`), waits
  in its select (`WrWake`: the token, or the 10 s timeout when there is
  none), and Puts it (`TxPut`) or sees the Put fail (`TxPutFail`).
  `TqFire` is `retx.Push`; `RdFetch` is the reader; `Lose` is the
  substrate. Pointers `writePtr`/`readPtr` are hash chains, modelled as
  frame indices.
* `ARQ.tla` models `Send` (SURB ID, `SendCiphertext`, insert under the
  lock, `Push`), the TimerQueue worker's fire and `resend`, and
  `HandleAck` (lookup, delete, Peek, Pop) over a network that loses
  packets and replies.
* `Ratchet.tla` models the ratchet of two parties. Cryptography is
  symbolic: a DH secret is the set of the two private keys, a root key the
  sequence of DH secrets mixed into it, header/chain/message keys tagged
  tuples of the root key they come from. Actions: `CreateKeyExchange`,
  `ProcessKeyExchange` (with `CompleteKeyExchange` as `Established`),
  `Encrypt`, `Decrypt` (`TrySavedKeys`, `CurrentChain`, `NextChain`,
  `SaveKeys`, `MergeSavedKeys`), and `SaveAndRestore`, the loss of a saved
  key across `Marshal`/`Unmarshal`. The network is a set of messages any
  of which may be delivered up to `MaxDeliver` times, in any order, or
  never.

## Bounds and why they are enough

### Stream

* Two peers. A stream has exactly two ends.
* `W = 2`. This is the smallest window with both a full-window case and a
  non-full case. The code uses 3, and no code path depends on the value
  beyond these comparisons.
* `MaxWriteBuf` is 1 or 2 units. 1 makes a second Write block at the cap;
  2 lets two writes be pending.
* The number of units written:
  * 2 in the loss/retransmission run, the fewest that can arrive out of
    order; it has no Close, as Close with loss, retransmission and two
    units did not finish in 20 minutes;
  * 2 in the close run;
  * 3 in the liveness run, one more than the window.
* At most 1 lost frame and 1 retransmission per side.

* Deadlines: `Setters = {a}` in the close run, where a writes, so
  `writeDeadline` matters. A third setter call is never possible: the
  second one already blocks.
* `Timeouts`: `NewStream` always sets `defaultTimeout` (stream.go:734), so
  in the code every blocked `Read` and `Write` can time out, after at most
  five minutes. `Timeouts = TRUE` (retx, close_hang) keeps that. `FALSE`
  (close, live, the violation runs but close_hang) leaves out the
  behaviours in which the default timeout fires. For an invariant this
  checks a subset of the code's behaviours, so a pass there is weaker and
  a violation still real. None of the properties these runs check is
  about a blocked call returning.

Every violation found needs at most 3 units and 1 retransmission. The
passing runs take between 5 s and about two minutes each.

The passing runs use `CHECK_DEADLOCK FALSE` where Close is called. Once
both write halves are Closed, every goroutine exits, and that is the end of
the stream, not a deadlock. `stream_live` checks for deadlock: without a
Close the reader polls forever.

### MailStream

a writes 2 units and b 1, so frames flow both ways and carry Acks; 1 lost
frame and 1 failed Put, each enough to show its effect (a stall, a gap).
172,010 states in about 1.5 minutes.

### ARQ

One message with two losses and two early timers for the pass run (every
resend path, and a reply arriving after a resend); two messages for the
race, which needs a second timer behind the first.

### Ratchet

Two messages per party: Alice's first message starts a new chain for Bob,
Bob's reply a new one for Alice, and two messages on one chain are enough
to skip one. Each message may arrive twice. `MaxMissingMessages` 1 covers
every gap two messages can open; 0 is the setting where a skip exceeds the
limit. Each party creates and processes one key exchange, the order
catshadow follows.

## Fairness

`FairSpec` assumes:
* weak fairness for each peer's reader, writer and TimerQueue callback;
* weak fairness for the select cases `WriteWake`, `CloseReturn` and
  `ReadWake`;
* weak fairness for an armed timer (`ReadTimeout`, `WriteAbort`), for the
  setter's send and for the clock (`Expire`).

This is justified because the workers are goroutines started by
`NewStream` and the Go scheduler keeps running a goroutine that is ready.
The TimerQueue is the exception: `NewStream` builds it with
`client.NewTimerQueue` (not under src/) and never calls `Start`, which the
ARQ's own queue needs (`part_009:118`). The fairness of `Timer` assumes
that `NewTimerQueue` starts its worker itself. No run needs it for
safety, and `stream_live` has no loss, so none of its results depends on
it.
The safety runs use `Spec`, where `TqAcked` and `TqRetransmit` may fire or
not: they cover a queue that never runs (no step of it) as well as one
that does.
A blocked select returns once one of its channels holds a token.

Application calls are not fair: an application may never call Write, Read
or Close.

`MailStream` assumes weak fairness of each peer's writer steps (take, the
select, a successful Put), of the reader's fetch, and of the completion of
a Write's send; a failed Put and a lost frame are the substrate's choice
and are not fair. `ARQ` assumes weak fairness of Send's steps after
`SendCiphertext`, of the TimerQueue worker and of HandleAck; `Send` itself
is the application's call. `Ratchet` has no liveness property: it only
reacts to its caller.

## Not modelled

* Stream: `HaltCh` shutdown (`worker.Worker` is not under src/). The
  code's halt does not reach `Close`, which has no `HaltCh` case, or the
  TimerQueue, which `Stream` never halts. Both are listed as hazards.
  A lossy `stream_live` is not checked either: under a finite `MaxRetx`,
  the TimerQueue may spend its budget on frames that were not lost, so a
  violation would come from the bound, not from the code.
* Stream:
  `ScrambleStream` mode (never selected), a Read of less than one unit,
  and frame corruption (the code panics).
* MailStream: `HaltCh` (`worker.Worker` is not under src/). The copy in
  `src/unnamed/part_001` is not modelled.
* Ratchet: signature and identity-key checks of `ProcessKeyExchange`, and
  the identity DH terms of `CompleteKeyExchange`; both sides see the same
  values. A repeated key exchange after the handshake is possible in the
  model (`MaxKx` > 1): with `MaxKx = 2`, `ratchet.cfg` violates
  `PendingDecryptable` in 7 states (the hazard at ratchet.go:382). The
  runs keep `MaxKx = 1`, the order catshadow follows. `saveKeys` panics whenever a
  clock `r.Now` is injected; the model takes `r.Now == nil`.
* PKI descriptor validation, the CBOR plugins, sockatz, talek, rates and
  the catshadow state file are pure validation, I/O or glue.
* The server decoy traffic (its SURB store and sweep) and the client
  provider connection (its retry worker) are state machines of their own.
  Neither talks to the stream core, so each would need a run of its own.
  The twelve runs are spent on the stream, ARQ and ratchet. Each of these
  components is listed in `PROJECT.json` with the reason it is left out.

## Open questions

The project keeps twelve runs, and each item below needs a run of its own:
1. A Read timeout returns `io.EOF`, not the deadline error of spec S6.
   `EOFOnlyAtEnd` catches it with `Setters = {b}`, but the run that checks
   `EOFOnlyAtEnd` shows the stale-token case. The case at stream.go:247
   (EOF once the read half is Closed with bytes left in `readBuf`) is a
   longer trace of the same property.
2. `WindowBound` (stream.go:444), `ImplementsDelivery` (stream.go:321),
   `SetDeadlineReturns` (stream.go:379) and `ReplyAccepted` (part_009:239)
   are stated and violated, but no run keeps them.
3. A deadline set while a `Read` or `Write` is blocked is ignored
   (stream.go:258, 307). With the default timeout the call still returns,
   up to five minutes late; telling late from on time needs a clock the
   model does not have.
4. The mail proxy's stream loses a unit on a failed `Put`
   (mailproxy.go:368), and nothing resends it, because nothing enters
   `wack`. The code calls the mode `ReliableStream`; a reliable-delivery
   property would be violated.
5. A window of 1 with Ack-of-Ack frames (stream.go:466). Ack frames take
   frame indices without bound, so the check needs a bound on the indices,
   and reaching that bound is the violation.
6. Stream `Halt`: the code's halt reaches neither `Close` nor the
   TimerQueue (both are hazards). Checking it needs a run with a halt.
