------------------------------- MODULE Frames -------------------------------
(***************************************************************************)
(* The way out of the client: the four queues of Frames, poisoning, the    *)
(* replies it expects, and the IO loop that pops, encodes and writes,      *)
(* against tasks that push, the internal RPC task that starts a recovery   *)
(* or declares the connection in error, and the end of the IO loop.        *)
(*                                                                         *)
(* An operation is a call of the application on a channel: "publish"       *)
(* (push_frames: method, header and bodies, a promise for the last write), *)
(* "send" (push with a resolver: basic.ack and the like), "call" and       *)
(* "cancel" (push with an expected reply; cancel is basic.cancel, whose    *)
(* reply is resolved where others are cancelled).  A frame is an operation *)
(* and the rank of the frame in it.  Channel 0 and the frames recovery     *)
(* itself sends are left out.  The broker and the socket are external.     *)
(***************************************************************************)
EXTENDS Naturals, Sequences, SequencesExt

CONSTANTS
    Channels,
    MaxOps,        \* bound: operations started
    PublishParts,  \* bound: how many frames a publish has (method, header, bodies)
    BufferFrames,  \* bound: encoded frames the send buffer holds
    MaxFaults,     \* bound: connection recoveries and connection errors
    MaxPauses      \* bound: changes of the flow of a channel or of blocked

ASSUME FramesAssumption ==
    /\ MaxOps \in Nat /\ PublishParts \subseteq Nat \ {0, 1}
    /\ BufferFrames \in Nat \ {0} /\ MaxFaults \in Nat /\ MaxPauses \in Nat

VARIABLES
    \* operations: what they are, how far the caller is, their promise
    nops, chan, kind, parts, stage, promise,
    \* Frames
    retry_frames, publish_frames, frames, low_prio_frames,
    expected_replies, poison, channels_poison,
    \* IO loop: the frame serialize holds, serialized_frames, the loop, the socket
    hand, serialized_frames, io, sock, wire,
    \* Channel and ConnectionStatus
    state, flow, context, conn, blocked, rpc, rpc0,
    \* auxiliary: whether an operation was pushed on this connection, on an earlier one
    \* or during a recovery, the broker's open channels and the calls it has read and not answered,
    \* operations nothing will ever settle
    born, open, unanswered, forgotten, faults, pauses

ops == <<nops, chan, kind, parts, stage>>
queues == <<retry_frames, publish_frames, frames, low_prio_frames>>
loop == <<hand, serialized_frames, io, sock, wire>>
chans == <<state, flow, context, conn, blocked, rpc, rpc0>>
vars == <<ops, promise, queues, expected_replies, poison, channels_poison, loop, chans,
          born, open, unanswered, forgotten, faults, pauses>>

Ops == 1..MaxOps
Kinds == {"publish", "send", "call", "cancel"}
Calls == {"call", "cancel"}

Init ==
    /\ nops = 0 /\ chan = <<>> /\ kind = <<>> /\ parts = <<>>
    /\ stage = [o \in Ops |-> "new"] /\ promise = [o \in Ops |-> "unset"]
    /\ retry_frames = <<>> /\ publish_frames = <<>> /\ frames = <<>>
    /\ low_prio_frames = <<>> /\ expected_replies = [c \in Channels |-> <<>>]
    /\ poison = FALSE /\ channels_poison = {}
    /\ hand = <<>> /\ serialized_frames = <<>> /\ io = "run" /\ sock = "up" /\ wire = <<>>
    /\ state = [c \in Channels |-> "Connected"] /\ flow = [c \in Channels |-> TRUE]
    /\ context = [c \in Channels |-> <<>>] /\ conn = "Connected"
    /\ blocked = FALSE /\ rpc = [c \in Channels |-> "idle"] /\ rpc0 = "idle"
    /\ born = [o \in Ops |-> "none"] /\ open = Channels
    /\ unanswered = [c \in Channels |-> <<>>] /\ forgotten = {} /\ faults = 0 /\ pauses = 0

-----------------------------------------------------------------------------
(* Promises: the first value set stays.  FrameSending: a frame of a publish *)
(* has a resolver only if it is the last one, a call only a canceler.       *)

Set(p, S, v) == [o \in Ops |-> IF o \in S /\ p[o] = "unset" THEN v ELSE p[o]]

Frame(o, i) == [op |-> o, part |-> i]
FramesOf(o) == [i \in 1..parts[o] |-> Frame(o, i)]
LastPart(f) == f.part = parts[f.op]

\* The operations whose promise FrameSending::reject, or resolve, settles.
Rejected(q) == {q[i].op : i \in {j \in DOMAIN q : LastPart(q[j])}}

\* Mutant: the promise of a publish goes with its method frame.
Resolved_First(f) == IF f.part = 1 /\ kind[f.op] \notin Calls THEN {f.op} ELSE {}

Resolved(f) == IF LastPart(f) /\ kind[f.op] \notin Calls THEN {f.op} ELSE {}

\* cancel_expected_replies: a basic.cancel is taken for done.
CancelReplies(p, S) ==
    Set(Set(p, {o \in S : kind[o] = "cancel"}, "ok"), S, "err")

-----------------------------------------------------------------------------
(* Callers                                                                 *)

\* The state check every method starts with.
Start(c, k, n) ==
    /\ nops < MaxOps /\ state[c] = "Connected"
    /\ nops' = nops + 1
    /\ chan' = Append(chan, c) /\ kind' = Append(kind, k)
    /\ parts' = Append(parts, IF k = "publish" THEN n ELSE 1)
    /\ stage' = [stage EXCEPT ![nops + 1] = "checked"]
    /\ UNCHANGED <<promise, queues, expected_replies, poison, channels_poison, loop,
                   chans, born, open, unanswered, forgotten, faults, pauses>>

check_poison(c) == poison \/ c \in channels_poison

\* push and push_frames, under the lock of Frames.
Push(o) ==
    /\ stage[o] = "checked" /\ stage' = [stage EXCEPT ![o] = "pushed"]
    /\ born' = [born EXCEPT ![o] = IF conn = "Connected" THEN "now" ELSE "recovery"]
    /\ IF check_poison(chan[o])
       THEN /\ promise' = IF kind[o] \in Calls THEN CancelReplies(promise, {o})
                          ELSE Set(promise, {o}, "err")
            /\ UNCHANGED <<queues, expected_replies>>
       ELSE /\ IF kind[o] = "publish"
               THEN /\ low_prio_frames' = low_prio_frames \o FramesOf(o)
                    /\ UNCHANGED frames
               ELSE /\ frames' = Append(frames, Frame(o, 1))
                    /\ UNCHANGED low_prio_frames
            /\ expected_replies' = IF kind[o] \in Calls
                   THEN [expected_replies EXCEPT ![chan[o]] = Append(@, o)]
                   ELSE expected_replies
            /\ UNCHANGED <<promise, retry_frames, publish_frames>>
    /\ UNCHANGED <<nops, chan, kind, parts, poison, channels_poison, loop, chans,
                   open, unanswered, forgotten, faults, pauses>>

-----------------------------------------------------------------------------
(* IO loop                                                                 *)

Flow == \A c \in Channels : flow[c]

\* Mutant: the header and bodies stay in low_prio_frames.
PublishTail_Left(q) == 0

\* How many header and body frames follow the method at the head of q.
PublishTail(q) ==
    IF Len(q) < 2 \/ q[2].part # 2 THEN 0
    ELSE CHOOSE n \in 1..Len(q) - 1 :
            /\ \A i \in 2..n + 1 : q[i].part > 1
            /\ n = Len(q) - 1 \/ q[n + 2].part = 1

\* serialize: Frames::pop.
Pop ==
    /\ io # "stopped" /\ hand = <<>> /\ sock = "up" /\ ~blocked
    /\ \/ /\ retry_frames # <<>>
          /\ hand' = <<Head(retry_frames)>> /\ retry_frames' = Tail(retry_frames)
          /\ UNCHANGED <<publish_frames, frames, low_prio_frames>>
       \/ /\ retry_frames = <<>> /\ publish_frames # <<>>
          /\ hand' = <<Head(publish_frames)>> /\ publish_frames' = Tail(publish_frames)
          /\ UNCHANGED <<retry_frames, frames, low_prio_frames>>
       \/ /\ retry_frames = <<>> /\ publish_frames = <<>> /\ frames # <<>>
          /\ hand' = <<Head(frames)>> /\ frames' = Tail(frames)
          /\ UNCHANGED <<retry_frames, publish_frames, low_prio_frames>>
       \/ /\ retry_frames = <<>> /\ publish_frames = <<>> /\ frames = <<>>
          /\ Flow /\ low_prio_frames # <<>>
          /\ LET n == PublishTail(low_prio_frames) IN
             /\ hand' = <<Head(low_prio_frames)>>
             /\ publish_frames' = SubSeq(low_prio_frames, 2, n + 1)
             /\ low_prio_frames' = SubSeq(low_prio_frames, n + 2, Len(low_prio_frames))
          /\ UNCHANGED <<retry_frames, frames>>
    /\ UNCHANGED <<ops, promise, expected_replies, poison, channels_poison,
                   serialized_frames, io, sock, wire, chans, born, open, unanswered, forgotten, faults, pauses>>

\* Mutant: a frame that does not fit is not requeued.
retry_Lost(f) == UNCHANGED retry_frames

retry(f) == retry_frames' = Append(retry_frames, f)

\* Mutant: the check forgets the frame being encoded.
Fits_OneMore == Len(serialized_frames) <= BufferFrames

\* The send buffer has room for one more frame.
Fits == Len(serialized_frames) < BufferFrames

\* serialize: the frame is encoded, or requeued when the buffer is too small.
Encode ==
    /\ hand # <<>> /\ hand' = <<>>
    /\ \/ Fits /\ serialized_frames' = serialized_frames \o hand /\ UNCHANGED retry_frames
       \/ ~Fits /\ retry(hand[1]) /\ UNCHANGED serialized_frames
    /\ UNCHANGED <<ops, promise, publish_frames, frames, low_prio_frames, expected_replies, poison,
                   channels_poison, io, sock, wire, chans, born, open, unanswered, forgotten, faults, pauses>>

\* write_to_stream: the frame is on the wire to its last byte.
Write ==
    LET f == serialized_frames[1] IN
    /\ io # "stopped" /\ hand = <<>> /\ sock = "up" /\ ~blocked /\ serialized_frames # <<>>
    /\ serialized_frames' = Tail(serialized_frames)
    /\ wire' = Append(wire, f)
    /\ unanswered' = IF kind[f.op] \in Calls /\ chan[f.op] \in open
                     THEN [unanswered EXCEPT ![chan[f.op]] = Append(@, f.op)] ELSE unanswered
    /\ promise' = Set(promise, Resolved(f), "ok")
    /\ UNCHANGED <<ops, queues, expected_replies, poison, channels_poison, hand, io, sock,
                   chans, born, open, forgotten, faults, pauses>>

\* Mutant: the reply expected last is taken.
FirstOfKind_Newest(q, k) ==
    LET S == {i \in DOMAIN q : kind[q[i]] = k}
    IN  CHOOSE i \in S : \A j \in S : j <= i

\* A reply: find_expected_reply removes the first one of its kind.
FirstOfKind(q, k) ==
    LET S == {i \in DOMAIN q : kind[q[i]] = k}
    IN  CHOOSE i \in S : \A j \in S : i <= j

\* The broker answers the calls of a channel in the order it reads them.
Answer(c) ==
    LET o == Head(unanswered[c])
        q == expected_replies[c]
        i == FirstOfKind(q, kind[o])
    IN  /\ unanswered[c] # <<>> /\ io = "run" /\ sock = "up" /\ state[c] # "Error"
        /\ \E j \in DOMAIN q : kind[q[j]] = kind[o]
        /\ unanswered' = [unanswered EXCEPT ![c] = Tail(@)]
        /\ expected_replies' = [expected_replies EXCEPT ![c] = RemoveAt(q, i)]
        /\ promise' = Set(promise, {q[i]}, "ok")
        /\ UNCHANGED <<ops, queues, poison, channels_poison, loop, chans, born,
                       open, forgotten, faults, pauses>>

\* channel.flow received (the flow-ok it spawns is one of the sends of Start).
SetFlow(c) ==
    /\ io # "stopped" /\ sock = "up" /\ state[c] = "Connected"
    /\ pauses < MaxPauses /\ pauses' = pauses + 1
    /\ flow' = [flow EXCEPT ![c] = ~@]
    /\ UNCHANGED <<ops, promise, queues, expected_replies, poison, channels_poison, loop,
                   state, context, conn, blocked, rpc, rpc0, born, open, unanswered, forgotten, faults>>
\* connection.blocked and connection.unblocked received, on channel 0.
SetBlocked ==
    /\ io = "run" /\ sock = "up" /\ conn # "Error" /\ rpc0 = "idle"
    /\ pauses < MaxPauses /\ pauses' = pauses + 1
    /\ blocked' = ~blocked
    /\ UNCHANGED <<ops, promise, queues, expected_replies, poison, channels_poison, loop,
                   state, flow, context, conn, rpc, rpc0, born, open, unanswered, forgotten, faults>>

-----------------------------------------------------------------------------
(* Recovery: the internal RPC task marks, drops and poisons one channel     *)
(* after the other while callers and the IO loop go on; the loop ends when   *)
(* it has nothing left to write, and connects again.                        *)

InitConnectionRecovery ==
    /\ conn = "Connected" /\ faults < MaxFaults
    /\ conn' = "Reconnecting" /\ blocked' = FALSE
    /\ rpc' = [c \in Channels |-> "idle"] /\ rpc0' = "idle"
    /\ faults' = faults + 1
    /\ UNCHANGED <<ops, promise, queues, expected_replies, poison, channels_poison,
                   loop, state, flow, context, 
                   born, open, unanswered, forgotten, pauses>>

\* The socket that is given up is dead after an IO error; after a missed heartbeat or a
\* connection.close of the broker it may go on for some time.
SocketDies ==
    /\ conn = "Reconnecting" /\ io = "run" /\ sock = "up" /\ sock' = "dead"
    /\ UNCHANGED <<ops, promise, queues, expected_replies, poison, channels_poison, hand,
                   serialized_frames, io, wire, chans, born, open, unanswered, forgotten, faults, pauses>>

\* init_recovery, in three steps that nothing holds together.
set_reconnecting(c) ==
    /\ conn = "Reconnecting" /\ rpc[c] = "idle"
    /\ \A d \in Channels : rpc[d] \in {"idle", "poisoned"}
    /\ rpc' = [rpc EXCEPT ![c] = "marked"]
    /\ state' = [state EXCEPT ![c] = "Reconnecting"]
    /\ UNCHANGED <<ops, promise, queues, expected_replies, poison, channels_poison, loop,
                   flow, context, conn, blocked, rpc0, born, open, unanswered, forgotten, faults, pauses>>

drop_frames_for_channel(c) ==
    LET Of(q) == SelectSeq(q, LAMBDA f : chan[f.op] = c)
        Left(q) == SelectSeq(q, LAMBDA f : chan[f.op] # c)
    IN  /\ rpc[c] = "marked" /\ rpc' = [rpc EXCEPT ![c] = "dropped"]
        /\ promise' = Set(promise, Rejected(Of(retry_frames)) \cup Rejected(Of(publish_frames))
                             \cup Rejected(Of(frames)) \cup Rejected(Of(low_prio_frames)), "err")
        /\ retry_frames' = Left(retry_frames) /\ publish_frames' = Left(publish_frames)
        /\ frames' = Left(frames) /\ low_prio_frames' = Left(low_prio_frames)
        /\ UNCHANGED <<ops, expected_replies, poison, channels_poison, loop, state, flow,
                       context, conn, blocked, rpc0, born, open, unanswered, forgotten, faults, pauses>>

poison_channel(c) ==
    /\ rpc[c] = "dropped" /\ rpc' = [rpc EXCEPT ![c] = "poisoned"]
    /\ channels_poison' = channels_poison \cup {c}
    /\ UNCHANGED <<ops, promise, queues, expected_replies, poison, loop, state, flow,
                   context, conn, blocked, rpc0, born, open, unanswered, forgotten, faults, pauses>>

\* init_recovery of channel 0, after the others.
InitRecovery0 ==
    /\ conn = "Reconnecting" /\ rpc0 = "idle" /\ \A c \in Channels : rpc[c] = "poisoned"
    /\ rpc0' = "poisoned"
    /\ UNCHANGED <<ops, promise, queues, expected_replies, poison, channels_poison, loop,
                   state, flow, context, conn, blocked, rpc, born, open, unanswered, forgotten, faults, pauses>>

Aged == [o \in Ops |-> IF born[o] = "now" THEN "old" ELSE born[o]]

\* Mutant: publishes that wait do not count.
has_pending_Urgent == retry_frames \o publish_frames \o frames # <<>>

has_pending == retry_frames \o publish_frames \o frames \o low_prio_frames # <<>>

\* The loop ends (should_continue) and connects to a new socket.
Reconnect ==
    /\ io = "run" /\ conn = "Reconnecting"
    /\ ~has_pending /\ hand = <<>> /\ serialized_frames = <<>>
    /\ io' = "connecting" /\ sock' = "up" /\ wire' = <<>> /\ born' = Aged
    /\ open' = {} /\ unanswered' = [c \in Channels |-> <<>>]
    /\ UNCHANGED <<ops, promise, queues, expected_replies, poison, channels_poison, hand,
                   serialized_frames, chans, forgotten, faults, pauses>>

\* Channels::start_recovery up to the end of the handshake.  Whatever waits in another
\* queue than the last one, or in that one if the flow allows it, reaches the broker
\* before the handshake is over.
StartRecovery ==
    /\ io = "connecting" /\ conn = "Reconnecting" /\ rpc0 = "poisoned" /\ ~blocked
    /\ wire \o serialized_frames \o hand \o retry_frames \o publish_frames \o frames = <<>>
    /\ Flow => low_prio_frames = <<>>
    /\ io' = "run" /\ conn' = "Connected" /\ rpc0' = "idle" /\ poison' = FALSE
    /\ UNCHANGED <<ops, promise, queues, expected_replies, channels_poison, hand,
                   serialized_frames, sock, wire, state, flow, context, blocked, rpc,
                   born, open, unanswered, forgotten, faults, pauses>>

\* The broker closes a connection that does not begin with the handshake; the loop,
\* still connecting, clears what it has encoded and connects again.
Refused ==
    /\ io = "connecting" /\ hand = <<>> /\ wire # <<>>
    /\ promise' = Set(promise, Rejected(serialized_frames), "err")
    /\ serialized_frames' = <<>> /\ wire' = <<>> /\ born' = Aged
    /\ UNCHANGED <<ops, queues, expected_replies, poison, channels_poison, hand, io, sock,
                   chans, open, unanswered, forgotten, faults, pauses>>

Unset(q) == {o \in Range(q) : promise[o] = "unset"}

UpdateRecovery(c) ==
    /\ conn = "Connected" /\ rpc[c] = "poisoned" /\ \A d \in Channels : rpc[d] # "updated"
    /\ rpc' = [rpc EXCEPT ![c] = "updated"]
    /\ context' = [context EXCEPT ![c] = expected_replies[c]]
    /\ forgotten' = forgotten \cup Unset(context[c])
    /\ expected_replies' = [expected_replies EXCEPT ![c] = <<>>]
    /\ channels_poison' = channels_poison \ {c}
    /\ UNCHANGED <<ops, promise, queues, poison, loop, state, flow, conn, blocked, rpc0,
                   born, open, unanswered, faults, pauses>>

\* start_recovery pushes channel.open, and the broker opens the channel unless a frame of
\* it comes first.
ChannelOpen(c) ==
    /\ conn = "Connected" /\ rpc[c] = "updated" /\ c \notin open /\ open' = open \cup {c}
    /\ \A f \in Range(wire \o serialized_frames \o hand \o retry_frames \o publish_frames
                       \o frames) : chan[f.op] # c
    /\ UNCHANGED <<ops, promise, queues, expected_replies, poison, channels_poison, loop,
                   chans, born, unanswered, forgotten, faults, pauses>>

\* finalize_connection, when channel.open-ok arrives.
FinalizeConnection(c) ==
    /\ conn = "Connected" /\ rpc[c] = "updated" /\ c \in open
    /\ rpc' = [rpc EXCEPT ![c] = "idle"]
    /\ state' = [state EXCEPT ![c] = "Connected"]
    /\ promise' = CancelReplies(promise, Range(context[c]))
    /\ context' = [context EXCEPT ![c] = <<>>]
    /\ UNCHANGED <<ops, queues, expected_replies, poison, channels_poison, loop, flow, conn,
                   blocked, rpc0, born, open, unanswered, forgotten, faults, pauses>>

-----------------------------------------------------------------------------
(* An error that cannot be recovered from                                   *)

\* Every frame is rejected but a basic.cancel, every expected reply cancelled.
drop_pending ==
    LET Lost(q) == Rejected(SelectSeq(q, LAMBDA f : kind[f.op] # "cancel"))
        Queues == Lost(retry_frames) \cup Lost(publish_frames) \cup Lost(frames)
                      \cup Lost(low_prio_frames)
        Replies == UNION {Range(expected_replies[c]) : c \in Channels}
    IN  /\ promise' = CancelReplies(Set(promise, Queues, "err"), Replies)
        /\ retry_frames' = <<>> /\ publish_frames' = <<>> /\ frames' = <<>>
        /\ low_prio_frames' = <<>>
        /\ expected_replies' = [c \in Channels |-> <<>>]
        /\ poison' = TRUE

\* Channels::set_connection_error, between two commands of the internal RPC task.
SetConnectionError ==
    /\ conn # "Error" /\ faults < MaxFaults /\ faults' = faults + 1
    /\ \A c \in Channels : rpc[c] \notin {"marked", "dropped"}
    /\ conn = "Reconnecting" => rpc0 = "poisoned"
    /\ conn' = "Error" /\ drop_pending
    /\ state' = [c \in Channels |-> "Error"]
    /\ forgotten' = forgotten \cup UNION {Unset(context[c]) : c \in Channels}
    /\ UNCHANGED <<ops, channels_poison, loop, flow, context, blocked, rpc, rpc0,
                   born, open, unanswered, pauses>>

\* Mutant: the encoded frames are thrown away.
IoStop_Leaves ==
    /\ conn = "Error" /\ io # "stopped" /\ hand = <<>> /\ io' = "stopped"
    /\ UNCHANGED promise
    /\ serialized_frames' = <<>>
    /\ forgotten' = forgotten \cup (Rejected(retry_frames) \cap {o \in Ops : promise[o] = "unset"})
    /\ UNCHANGED <<ops, queues, expected_replies, poison, channels_poison, hand, sock, wire,
                   chans, born, open, unanswered, faults, pauses>>

\* The loop ends for good: clear_serialized_frames.
IoStop ==
    /\ conn = "Error" /\ io # "stopped" /\ hand = <<>> /\ io' = "stopped"
    /\ promise' = Set(promise, Rejected(serialized_frames), "err")
    /\ serialized_frames' = <<>>
    /\ forgotten' = forgotten \cup (Rejected(retry_frames) \cap {o \in Ops : promise[o] = "unset"})
    /\ UNCHANGED <<ops, queues, expected_replies, poison, channels_poison, hand, sock, wire,
                   chans, born, open, unanswered, faults, pauses>>

-----------------------------------------------------------------------------

IoLoop == Pop \/ Encode \/ Write
Recovery == \/ \E c \in Channels : set_reconnecting(c) \/ drop_frames_for_channel(c)
                                     \/ poison_channel(c) \/ UpdateRecovery(c) \/ ChannelOpen(c)
                                     \/ FinalizeConnection(c)
            \/ InitRecovery0 \/ StartRecovery

Next ==
    \/ \E c \in Channels, k \in Kinds, n \in PublishParts : Start(c, k, n)
    \/ \E o \in Ops : Push(o)
    \/ IoLoop
    \/ \E c \in Channels : Answer(c) \/ SetFlow(c)
    \/ SetBlocked \/ InitConnectionRecovery \/ SocketDies
    \/ Recovery \/ Reconnect \/ Refused
    \/ SetConnectionError \/ IoStop

Fairness ==
    /\ \A o \in Ops : WF_vars(Push(o))
    /\ WF_vars(Pop) /\ WF_vars(Encode) /\ SF_vars(Write)   \* serialize is followed by a write
    /\ WF_vars(Recovery) /\ WF_vars(Reconnect) /\ WF_vars(Refused)
    /\ WF_vars(IoStop)

Spec == Init /\ [][Next]_vars /\ Fairness

-----------------------------------------------------------------------------
(* Properties                                                               *)

FrameType == [op : Ops, part : Nat]

\* Every variable of Frames, of the IO loop and of the recovery keeps its type; the send
\* buffer never holds more than fits and serialize has at most one frame in hand.
TypeOK ==
    /\ nops \in 0..MaxOps /\ chan \in Seq(Channels) /\ kind \in Seq(Kinds)
    /\ parts \in Seq({1} \cup PublishParts) /\ Len(chan) = nops /\ Len(kind) = nops /\ Len(parts) = nops
    /\ stage \in [Ops -> {"new", "checked", "pushed"}]
    /\ promise \in [Ops -> {"unset", "ok", "err"}]
    /\ retry_frames \in Seq(FrameType) /\ publish_frames \in Seq(FrameType)
    /\ frames \in Seq(FrameType) /\ low_prio_frames \in Seq(FrameType)
    /\ expected_replies \in [Channels -> Seq(Ops)] /\ context \in [Channels -> Seq(Ops)]
    /\ poison \in BOOLEAN /\ channels_poison \subseteq Channels
    /\ hand \in Seq(FrameType) /\ Len(hand) <= 1
    /\ serialized_frames \in Seq(FrameType) /\ Len(serialized_frames) <= BufferFrames
    /\ Len(retry_frames) <= 1
    /\ io \in {"run", "connecting", "stopped"} /\ sock \in {"up", "dead"}
    /\ wire \in Seq(FrameType)
    /\ state \in [Channels -> {"Connected", "Reconnecting", "Error"}]
    /\ flow \in [Channels -> BOOLEAN] /\ conn \in {"Connected", "Reconnecting", "Error"}
    /\ blocked \in BOOLEAN
    /\ rpc \in [Channels -> {"idle", "marked", "dropped", "poisoned", "updated"}]
    /\ rpc0 \in {"idle", "poisoned"}
    /\ born \in [Ops -> {"none", "now", "old", "recovery"}]
    /\ open \subseteq Channels /\ unanswered \in [Channels -> Seq(Ops)]
    /\ pauses \in 0..MaxPauses /\ forgotten \subseteq Ops /\ faults \in 0..MaxFaults

\* The frames of an operation that was not pushed in the middle of a recovery: the others
\* may reach a connection that the broker refuses because of them.
Proper(o) == born[o] = "now"

\* Header and body frames follow their basic.publish directly on the wire, whatever other
\* tasks push meanwhile, however often the buffer is full and whenever a recovery drops
\* frames; and a basic.publish is never left incomplete by a frame of something else
\* before a recovery begins.  (Frames::pop and publish_frames.)
Contiguous ==
    \A i \in {j \in DOMAIN wire : Proper(wire[j].op)} :
        /\ wire[i].part > 1 => i > 1 /\ wire[i - 1] = Frame(wire[i].op, wire[i].part - 1)
        /\ ~LastPart(wire[i]) /\ i < Len(wire) /\ conn = "Connected"
               => wire[i + 1] = Frame(wire[i].op, wire[i].part + 1)

\* A frame pushed on one connection is never written on the next one: the loop only
\* reconnects once the queues and the buffer are empty.  (should_continue.)
NeverCrosses == \A i \in DOMAIN wire : born[wire[i].op] # "old"

Queued(o) ==
    \E f \in Range(retry_frames \o publish_frames \o frames \o low_prio_frames \o hand
                    \o serialized_frames) : f.op = o /\ LastPart(f)

\* As long as the future of an operation that was pushed is pending, its last frame waits
\* to be written or its reply is expected or kept for the end of the recovery; when the
\* loop has ended, nothing is pending.  Only the operations in `forgotten' are excepted:
\* those whose kept replies a second recovery or a connection error throws away, and
\* those whose last frame is requeued after drop_pending.
PendingIsHeld ==
    \A o \in Ops : stage[o] = "pushed" /\ promise[o] = "unset" /\ o \notin forgotten =>
        /\ io # "stopped"
        /\ \/ Queued(o)
           \/ \E c \in Channels : o \in Range(expected_replies[c]) \cup Range(context[c])

\* A publish or send pushed while connected only succeeds when all of its frames are on
\* one wire, the last of them just written.  (write_to_stream resolves the promise of the last frame.)
SentWhenOk ==
    [][\A o \in Ops : promise[o] = "unset" /\ promise'[o] = "ok" /\ kind[o] \notin Calls
                /\ Proper(o) =>
         /\ Len(wire') >= parts[o]
         /\ SubSeq(wire', Len(wire') - parts[o] + 1, Len(wire')) = FramesOf(o)]_vars

\* The broker's answer to one call never settles another, as long as the connection is not
\* being given up: the first expected reply of its kind is the one of that call.
AnswerSettlesOwn ==
    [][\A c \in Channels, o \in Ops :
         conn = "Connected" /\ Len(unanswered'[c]) < Len(unanswered[c])
         /\ promise'[o] # promise[o] => o = Head(unanswered[c])]_vars

\* Every publish or send that is pushed is settled, through a recovery too: written,
\* rejected when its channel is dropped, or refused.  Excepted are a broker that pauses the
\* flow or blocks, and a socket that dies under frames (see Reconnects) or an entry of
\* `forgotten'.
PublishSettles ==
    \A o \in Ops : stage[o] = "pushed" ~> \/ promise[o] # "unset" \/ o \in forgotten
                                           \/ ~Flow \/ blocked \/ sock = "dead"
                                           \/ (o <= nops /\ kind[o] \in Calls)

\* What connection_properties.rs promises: "the IO loop will transparently reconnect on
\* network errors".  It does not when the socket dies with frames encoded or queued.
Reconnects == conn = "Reconnecting" ~> conn # "Reconnecting"

\* What update_recovery says: "Cleanup any pending expecting reply".  The replies kept
\* for the end of a recovery are thrown away, and their calls left pending for ever, by a
\* second recovery or by a connection error before that end.
RepliesCleanedUp == \A o \in forgotten : kind[o] \notin Calls
=============================================================================
