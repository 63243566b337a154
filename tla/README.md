# Verification of lapin, an AMQP 0.9.1 client

TLA+ models of the client's moving parts, checked with TLC on small instances and,
for the publisher confirms, proved with TLAPS for any size. Paths are relative to
the repository (`src/src/` holds the crate). `PROJECT.json` ties every definition
to the lines it models.

## The system

lapin runs three kinds of actors over shared state:

* **application tasks** call methods of `Channel` (`channel.rs`, `generated/channel.rs`);
* the **IO loop** thread (`io_loop.rs`) owns the socket: it pops frames from `Frames`
  (`frames.rs`), encodes them into a ring (`buffer.rs`), writes, reads, parses, and
  dispatches what it reads to `Channels` (`channels.rs`);
* the **internal RPC task** (`internal_rpc.rs`) executes a FIFO of commands: acks of
  `Acker`, close and cancel on drop, the start and the end of a recovery, connection errors.

They meet in `Frames` (one lock), in the per-channel `Acknowledgements` and
`ReturnedMessages` (a lock each), in `ChannelStatus` and `ConnectionStatus`, and in
promises (`promise.rs`), whose first value wins and which nobody settles when the
resolver is dropped. Nothing holds these locks together, and almost every method is
"check the state, then register, then push": what can go wrong lies between.

| part | source | module | state |
|---|---|---|---|
| publisher confirms, returned messages, `wait_for_confirms` | `acknowledgement.rs`, `returned_messages.rs`, `publisher_confirm.rs` | `Confirms`, `ConfirmsProofs` | modelled, proved |
| outbound queues, poison, expected replies | `frames.rs` | `Frames` | queues and replies modelled; handshake steps and close-ok left |
| IO loop: serialize, write, end of the loop | `io_loop.rs` | `Frames` | write side modelled; read side left |
| recovery of channels and of the connection | `channels.rs`, `channel.rs`, `channel_status.rs`, `channel_recovery_context.rs` | `Confirms` (one channel), `Frames` (steps between the threads) | partly |
| promises | `promise.rs` | both | set-once; wake-ups left |
| channel ids, creation, close, removal, internal RPC queue, nowait, `wait_for_recovery` | `channels.rs`, `internal_rpc.rs`, `id_sequence.rs`, `channel_closer.rs` | — | planned: `Lifecycle` |
| handshake, tuning, close, secret update | `connection.rs`, `connection_step.rs` | — | planned: `Handshake` |
| consumers, delegates, cancellation, ackers | `consumer*.rs`, `acker.rs` | — | planned: `Consumer` |
| content assembly | `channel_receiver_state.rs`, `basic_get_delivery.rs` | — | planned: `Receiver` |
| ring buffer and parsing context | `buffer.rs`, `parsing.rs` | — | planned: `Buffer` |
| heartbeat | `heartbeat.rs` | — | planned: `Heartbeat` |
| socket events, listener | `socket_state.rs`, `listener.rs` | — | planned: `Wakeups` |
| topology to replay | `registry.rs`, `topology.rs` | — | planned: `Topology` |
| settings, errors, events, runtime glue | `configuration.rs`, `error.rs`, ... | — | not modelled: no state that evolves |

The hazards, each at the line where it bites, are in `PROJECT.json`; those without a
property name the planned module that will carry one.

## Module `Confirms`

One channel in confirm mode, `Tasks` that publish, await, drop or wait, the broker and
one connection at a time. State and code:

* `delivery_tag`, `last`, `pending` are the fields of `Acknowledgements::Inner`;
  `register_pending`, `complete_pending`, `on_channel_error`, `reset` its methods. A
  multiple ack walks a hash map, so the confirms that get the waiting returned
  messages are chosen freely (`HandOuts`).
* `current_message`, `non_confirm_messages`, `waiting_messages`, `messages` are the
  fields of `ReturnedMessages::Inner`; `register_dropped_confirm` and `drain` its methods.
* `conf`, `errp` are the two promises of each publish; `carried` what a resolved one
  carries, `held` where the `PublisherConfirm` is.
* A publish is three steps, as in the code: `BasicPublish` (state check),
  `BeforeBasicPublish` (tag and promises), `PushFrames` (queue or poison). The broker
  numbers what it reads on its own (`btag`).
* `InitRecovery`, `ResetAcknowledgements`, `ReopenChannel`, `ConfirmSelect`,
  `FinalizeConnection` are the steps of a recovery; `ChannelClose*` the two close
  exchanges; `SetConnectionError` the end.

Abstractions: a publish is one frame here (`Frames` splits it); a content is one step
after its `basic.return`; confirm mode is fixed for a behaviour; the drop and the
poisoning of a recovery are one step here and three in `Frames`. The broker sends a
multiple ack with tag 0 only when it has read every registered publish. It answers
within the connection it read the publish on.

Checked (`Confirms.cfg`: two tasks, two publishes, one fault; `ConfirmsLive.cfg`: one
task). Two publishes and two tasks are the least that let tags and frames cross, an ack
come out of order and a multiple ack cover more than one; one fault is a loss, a close
by either side or an error at any point.

* `ConfirmNotLost`: an unresolved confirm has exactly one entry in the pending map.
* `WokenByOwnConfirm`: the promise of `wait_for_confirms` is settled with, and as, its confirm.
* `ConfirmedAsAnswered`: a confirm is only ack or nack if the broker said so of its tag.
* `ReturnedOnce`, `ReturnedKept`: a returned message is in one place, and is only lost
  where the code says so (a channel that ends or is reset).
* `ConfirmedInSameSession`: no answer of a new connection settles an older publish.
* `ConfirmsResolve`, `WaitReturnsUndisturbed`: confirms are settled; a wait that no
  later publish or recovery disturbs returns.

Fairness: weak, on each task's next step, the IO loop's write, the completion of a
content, the broker's answers, the steps of a recovery once begun and of a close. The
runtime polls woken tasks, the loop and the RPC task run on threads of their own, and
a broker in confirm mode answers every publish. Publishing, waiting, dropping,
faults and closing are never assumed to happen.

What the documentation says and the code does not do (one run each):

* `ConfirmedByOwnAck`: two tasks on a channel can get each other's confirms.
* `WaitCoversPrior`: `wait_for_confirms` returns on the ack of the last tag alone.
* `WaitEnds`: a recovery can leave `wait_for_confirms` waiting for ever, because `reset`
  replaces the tag sequence before `on_channel_error` looks at it.

## Proofs (`ConfirmsProofs`)

For every `Tasks`, `MaxPublish` and `MaxFaults` (natural numbers, `ConfirmsAssumption`):

* `Invariance`: `Spec => []IInv`;
* `TypeCorrect`, `NoConfirmLost`, `WaiterAgrees`: the type invariant, `ConfirmNotLost`
  and `WokenByOwnConfirm`;
* `NoConfirmAcrossRecovery`: the action property `ConfirmedInSameSession`.

`ConfirmNotLost` is not inductive: that a registration does not overwrite an entry needs
to know that every pending tag is below the next one, that the tag noted for a publish is
the one it is filed under, that what is pending belongs to the current epoch, and that a
task in the middle of a publish holds one that exists. `IInv` is `TypeOK`, the `Ledger`
(those facts, per publish) and `Jobs` (per task). The step lemmas (`CompletePendingStep`,
`OnChannelErrorStep`, `RegisterPendingStep`, ...) say what each method of
`Acknowledgements` does to the ledger; one lemma per action (`BasicPublishIInv`, ...) shows
that it keeps `IInv`, and `NextIInv` puts them together.

Only model-checked: the liveness properties (the prover has no fairness), and the
properties about returned messages and answers.

## Module `Frames`

The way out, with every step another thread can come between. Operations are
publishes (several frames), sends and calls (one frame, calls with an expected reply;
`cancel` is the call whose reply is taken for done when others are cancelled).

* Callers: `Start` (state check), `Push` (`push` / `push_frames`, one lock).
* IO loop: `Pop` and `Encode` are the two halves of `serialize` (the frame is in `hand`
  and in no queue between them), `Write` the completion of a frame in `write_to_stream`,
  `Answer` a reply read, `SetFlow` and `SetBlocked` the pauses.
* Recovery: `InitConnectionRecovery`, then per channel `set_reconnecting`,
  `drop_frames_for_channel`, `poison_channel`, then channel 0; `Reconnect` when
  `should_continue` lets the loop end; `StartRecovery` (handshake), `UpdateRecovery`,
  `ChannelOpen`, `FinalizeConnection` per channel. `Refused` is a broker that closes a
  connection whose first bytes are not the handshake.
* Error: `SetConnectionError` (`drop_pending`), `IoStop` (`clear_serialized_frames`).

Abstractions: the frames of the handshake and of the recovery itself are not in the
queues (the guards of `StartRecovery` and `ChannelOpen` say what would come before
them); the buffer counts frames, not bytes; an encoding error other than a full buffer
does not occur; a socket lost again before the end of the handshake is left to `Lifecycle`.

Runs: `Frames.cfg` (two channels, two operations, one fault, one pause; channels are
symmetric) and `FramesRecovery.cfg` (one channel, two operations, two faults). A
publish has three frames and the buffer room for one, so that every publish meets a full
buffer; two operations are a publish and what could come between its frames, or two
calls whose replies could be swapped; two faults are a recovery inside a recovery.

* `Contiguous`: header and bodies directly follow their `basic.publish`.
* `SentWhenOk`: a publish that succeeds is entirely on one wire.
* `AnswerSettlesOwn`: outside a recovery, an answer settles its own call. During one it
  may not: a call whose frame was dropped leaves its expected reply behind.
* `NeverCrosses`: what was pushed on one connection is never written on the next.
* `PendingIsHeld`: a pending operation is queued, encoded or expected, and nothing is
  pending once the loop has ended, but for `forgotten`: replies thrown away with the
  recovery context, and a frame requeued after `drop_pending`.
* `PublishSettles`: every publish is settled, also across a recovery.

Fairness: weak on callers' pushes, on the loop's steps and on the recovery; strong on
`Write`, because `serialize` is always followed by a write before it runs again, so a
socket that takes bytes again and again gets them.

Violated: `Reconnects` (the loop does not end while frames are encoded, and a dead
socket takes none) and `RepliesCleanedUp` (calls of a recovery that does not end).

## Plan

In this order, each with its runs and mutants:

1. `Lifecycle`: request and reply by kind with nowait, channel creation and ids, close by
   either side, removal through the internal RPC queue, the recovery futures and their
   errors, `wait_for_recovery`. Composes with the reply part of `Frames`. One passing
   run and at most one violated one.
2. `Consumer` with ackers: deliveries, delegate or stream, cancel by either side,
   recovery, prefetched messages; an abstract stream (deliveries in order, then one end)
   that it implements through a refinement mapping.
3. `Buffer`: the ring against a plain sequence of bytes, exhaustively for small
   capacities, as a refinement; `Receiver`: content assembly against the messages sent.
4. `Handshake`, `Heartbeat`, `Wakeups`, `Topology`, as small modules.
5. Proofs: types, `PendingIsHeld` and `NeverCrosses` of `Frames`; the ring invariant of
   `Buffer`; the refinement steps of `Consumer`.
