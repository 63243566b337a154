------------------------------ MODULE Confirms ------------------------------
(***************************************************************************)
(* Publisher confirms of one channel: the delivery tags and pending        *)
(* confirms of Acknowledgements, the returned messages of ReturnedMessages,*)
(* the PublisherConfirm handles the application holds, basic_publish as    *)
(* the three steps another thread can interleave with, wait_for_confirms,  *)
(* and what recovery and close do to all of them.                          *)
(*                                                                         *)
(* A publish is named by its rank in the order before_basic_publish is     *)
(* called; a returned message is named by the publish it comes from.  The  *)
(* promises of register_pending are conf[p] (the PublisherConfirm) and     *)
(* errp[p] (the one wait_for_confirms awaits).  The broker is external.    *)
(***************************************************************************)
EXTENDS Naturals, Sequences

CONSTANTS
    Tasks,        \* application tasks sharing clones of the channel
    MaxPublish,   \* bound: basic_publish calls that get past the state check
    MaxFaults     \* bound: connection losses, channel closes and connection errors

ASSUME ConfirmsAssumption ==
    MaxPublish \in Nat /\ MaxFaults \in Nat

VARIABLES
    \* Acknowledgements
    delivery_tag, last, pending,
    \* ReturnedMessages
    current_message, non_confirm_messages, waiting_messages, messages,
    \* PublisherConfirm: state and returned message of its promise, who has it
    conf, carried, held, errp,
    \* Channel and its part of Frames
    status, confirm, receiving, poisoned, sendq, phase, closer, bad_ack,
    \* application tasks
    pc, job, npub, delivered,
    \* broker
    session, selected, btag, btag_of, live, verdict, returned,
    \* auxiliary: number of resets, tag and epoch each publish registered with,
    \* whether the broker gave every registered publish it read the same tag
    epoch, tag_of, epoch_of, in_step, faults

acks == <<delivery_tag, last, pending>>
rets == <<current_message, non_confirm_messages, waiting_messages, messages>>
proms == <<conf, carried, held, errp>>
chan == <<status, confirm, receiving, poisoned, sendq, phase, closer, bad_ack>>
app == <<pc, job, npub, delivered>>
broker == <<session, selected, btag, btag_of, live, verdict, returned>>
aux == <<epoch, tag_of, epoch_of, in_step, faults>>
vars == <<acks, rets, proms, chan, app, broker, aux>>

Pubs == 1..MaxPublish
Tags == 1..MaxPublish
None == 0

Verdicts == {"ack", "nack"}
Terminal == {"Closed", "Error"}

Init ==
    /\ delivery_tag = 0 /\ last = None /\ pending = [t \in Tags |-> None]
    /\ current_message = None /\ non_confirm_messages = {}
    /\ waiting_messages = <<>> /\ messages = {}
    /\ conf = [p \in Pubs |-> "none"] /\ carried = [p \in Pubs |-> None]
    /\ held = [p \in Pubs |-> "none"] /\ errp = [p \in Pubs |-> "unset"]
    /\ status = "Connected" /\ confirm \in BOOLEAN /\ receiving = FALSE
    /\ poisoned = FALSE /\ sendq = <<>> /\ phase = "open"
    /\ closer = "none" /\ bad_ack = FALSE
    /\ pc = [t \in Tasks |-> "idle"] /\ job = [t \in Tasks |-> None]
    /\ npub = 0 /\ delivered = {}
    /\ session = "up" /\ selected = confirm /\ btag = 0
    /\ btag_of = [p \in Pubs |-> 0] /\ live = {}
    /\ verdict = [p \in Pubs |-> "none"] /\ returned = {}
    /\ epoch = 0 /\ tag_of = [p \in Pubs |-> 0] /\ epoch_of = [p \in Pubs |-> 0]
    /\ in_step = TRUE /\ faults = 0

-----------------------------------------------------------------------------
(* IdSequence::new(false) without a maximum: the stored id is the one after *)
(* the last value handed out, 0 before the first.                           *)

\* Mutant: the first tag is 2.
NextTag_FromTwo(id) == IF id = 0 THEN 2 ELSE id

NextTag(id) == IF id = 0 THEN 1 ELSE id

\* Mutant: current() returns the tag of the next publish.
CurrentTag_Next(id) == IF id <= 1 THEN None ELSE id

CurrentTag(id) == IF id <= 1 THEN None ELSE id - 1

-----------------------------------------------------------------------------
(* Acknowledgements                                                        *)

PendingTags == {t \in Tags : pending[t] # None}

register_pending(p) ==
    LET tag == NextTag(delivery_tag) IN
    /\ delivery_tag' = tag + 1
    /\ last' = p
    /\ pending' = [pending EXCEPT ![tag] = p]
    /\ conf' = [conf EXCEPT ![p] = "pending"]
    /\ held' = [held EXCEPT ![p] = "task"]
    /\ tag_of' = [tag_of EXCEPT ![p] = tag]
    /\ epoch_of' = [epoch_of EXCEPT ![p] = epoch]

\* The ways to hand the n oldest waiting returned messages to the tags of S
\* taken in any order: 0 is no message, i the i-th waiting one.  Either every
\* tag gets one or the queue is used up.
HandOuts(S, n) ==
    {c \in [S -> 0..n] :
        /\ \A t, u \in S : c[t] = c[u] => t = u \/ c[t] = 0
        /\ \A i \in 1..n : \E u \in S : c[u] = i
        /\ (\A t \in S : c[t] # 0) \/ n = Len(waiting_messages)}

\* Mutant: any completion settles the promise of the last publish.
WakesWaiter_Last(p, Done, current) == Done # {} /\ p = last

\* The second promise of a publish is settled only for the current tag.
WakesWaiter(p, Done, current) == p \in Done /\ tag_of[p] = current

\* complete_pending for every tag of S, in the order of a HashMap.
complete_pending(S, v) ==
    \E n \in 0..Len(waiting_messages) : \E c \in HandOuts(S, n) :
    LET Done == {p \in Pubs : \E t \in S : pending[t] = p}
    IN  /\ pending' = [t \in Tags |-> IF t \in S THEN None ELSE pending[t]]
        /\ waiting_messages' = SubSeq(waiting_messages, n + 1, Len(waiting_messages))
        /\ conf' = [p \in Pubs |-> IF p \in Done THEN v ELSE conf[p]]
        /\ carried' = [p \in Pubs |->
                IF p \in Done /\ c[tag_of[p]] # 0
                THEN waiting_messages[c[tag_of[p]]] ELSE carried[p]]
        /\ errp' = [p \in Pubs |->
                IF WakesWaiter(p, Done, CurrentTag(delivery_tag)) THEN "ok" ELSE errp[p]]

\* Mutant: the pending confirms are discarded instead of rejected.
on_channel_error_Discard(current) ==
    /\ pending' = [t \in Tags |-> None]
    /\ held' = [p \in Pubs |-> IF held[p] = "dropped" THEN "done" ELSE held[p]]
    /\ UNCHANGED <<conf, errp>>

\* on_channel_error with the value current() has when it is called.
on_channel_error(current) ==
    LET Done == {p \in Pubs : \E t \in Tags : pending[t] = p}
    IN  /\ pending' = [t \in Tags |-> None]
        /\ conf' = [p \in Pubs |-> IF p \in Done THEN "err" ELSE conf[p]]
        /\ errp' = [p \in Pubs |->
                IF WakesWaiter(p, Done, current) THEN "err" ELSE errp[p]]
        /\ held' = [p \in Pubs |-> IF held[p] = "dropped" THEN "done" ELSE held[p]]

\* Mutant: only the sequence is reset.
reset_TagsOnly == delivery_tag' = 0 /\ UNCHANGED <<pending, conf, errp, held>>

\* reset: the sequence is replaced before on_channel_error reads current().
reset ==
    /\ delivery_tag' = 0
    /\ on_channel_error(CurrentTag(0))

-----------------------------------------------------------------------------
(* ReturnedMessages                                                        *)

NoMessage == {None}

\* Mutant: a ready confirm stays registered after its message is stored.
register_dropped_confirm_Twice(p) ==
    /\ held' = [held EXCEPT ![p] = "dropped"]
    /\ messages' = messages \cup ({carried[p]} \ NoMessage)

\* Drop of a PublisherConfirm: process_dropped_confirm with self.messages.
register_dropped_confirm(p) ==
    IF conf[p] = "pending"
    THEN /\ held' = [held EXCEPT ![p] = "dropped"]
         /\ UNCHANGED messages
    ELSE /\ held' = [held EXCEPT ![p] = "done"]
         /\ messages' = messages \cup ({carried[p]} \ NoMessage)

\* Mutant: the confirms that are not ready yet are forgotten.
drain_Forget ==
    LET Ready == {p \in Pubs : held[p] = "dropped" /\ conf[p] # "pending"}
    IN  /\ delivered' = delivered \cup messages \cup non_confirm_messages
                            \cup ({carried[p] : p \in Ready} \ NoMessage)
        /\ messages' = {} /\ non_confirm_messages' = {}
        /\ held' = [p \in Pubs |-> IF held[p] = "dropped" THEN "done" ELSE held[p]]

\* drain: the messages kept so far and those of the dropped confirms that
\* are ready; the ones that are not ready stay registered.
drain ==
    LET Ready == {p \in Pubs : held[p] = "dropped" /\ conf[p] # "pending"}
    IN  /\ delivered' = delivered \cup messages \cup non_confirm_messages
                            \cup ({carried[p] : p \in Ready} \ NoMessage)
        /\ messages' = {} /\ non_confirm_messages' = {}
        /\ held' = [p \in Pubs |-> IF p \in Ready THEN "done" ELSE held[p]]

-----------------------------------------------------------------------------
(* Application tasks: basic_publish, the handles it returns and             *)
(* wait_for_confirms.                                                       *)

\* basic_publish: the state check.
BasicPublish(t) ==
    /\ pc[t] = "idle" /\ status = "Connected" /\ npub < MaxPublish
    /\ pc' = [pc EXCEPT ![t] = "checked"]
    /\ UNCHANGED <<acks, rets, proms, chan, job, npub, delivered, broker, aux>>

\* before_basic_publish.
BeforeBasicPublish(t) ==
    LET p == npub + 1 IN
    /\ pc[t] = "checked" /\ npub < MaxPublish
    /\ npub' = p
    /\ pc' = [pc EXCEPT ![t] = "registered"] /\ job' = [job EXCEPT ![t] = p]
    /\ IF confirm
       THEN register_pending(p) /\ UNCHANGED <<epoch, in_step, faults>>
       ELSE /\ conf' = [conf EXCEPT ![p] = "notrequested"]
            /\ UNCHANGED <<acks, held, aux>>
    /\ UNCHANGED <<rets, carried, errp, chan, delivered, broker>>

\* send_method_frame_with_body: push_frames, then await the write.
PushFrames(t) ==
    /\ pc[t] = "registered"
    /\ IF poisoned
       THEN /\ pc' = [pc EXCEPT ![t] = "failed"]
            /\ UNCHANGED sendq
       ELSE /\ pc' = [pc EXCEPT ![t] = "queued"]
            /\ sendq' = Append(sendq, job[t])
    /\ UNCHANGED <<acks, rets, proms, status, confirm, receiving, poisoned, phase,
                   closer, bad_ack, job, npub, delivered, broker, aux>>

\* The write was refused: basic_publish returns the error and the confirm it
\* had registered goes out of scope.
PublishFailed(t) ==
    /\ pc[t] = "failed"
    /\ pc' = [pc EXCEPT ![t] = "idle"] /\ job' = [job EXCEPT ![t] = None]
    /\ IF held[job[t]] = "task"
       THEN register_dropped_confirm(job[t])
       ELSE UNCHANGED <<held, messages>>
    /\ UNCHANGED <<acks, current_message, non_confirm_messages, waiting_messages,
                   conf, carried, errp, chan, npub, delivered, broker, aux>>

\* The application awaits a PublisherConfirm it holds.
AwaitConfirm(p) ==
    /\ held[p] = "held" /\ conf[p] # "pending"
    /\ held' = [held EXCEPT ![p] = "done"]
    /\ delivered' = delivered \cup ({carried[p]} \ NoMessage)
    /\ UNCHANGED <<acks, rets, conf, carried, errp, chan, pc, job, npub, broker, aux>>

\* The application drops a PublisherConfirm it holds.
DropConfirm(p) ==
    /\ held[p] = "held"
    /\ register_dropped_confirm(p)
    /\ UNCHANGED <<acks, current_message, non_confirm_messages, waiting_messages,
                   conf, carried, errp, chan, app, broker, aux>>

\* wait_for_confirms: take the last promise, or return at once.
WaitForConfirms(t) ==
    /\ pc[t] = "idle"
    /\ IF last # None
       THEN /\ pc' = [pc EXCEPT ![t] = "waiting"] /\ job' = [job EXCEPT ![t] = last]
            /\ last' = None
            /\ UNCHANGED <<messages, non_confirm_messages, held, delivered>>
       ELSE drain /\ UNCHANGED <<last, pc, job>>
    /\ UNCHANGED <<delivery_tag, pending, current_message, waiting_messages, conf,
                   carried, errp, chan, npub, broker, aux>>

\* The promise is settled: return its error, or the returned messages.
WaitDone(t) ==
    /\ pc[t] = "waiting" /\ errp[job[t]] # "unset"
    /\ pc' = [pc EXCEPT ![t] = "idle"] /\ job' = [job EXCEPT ![t] = None]
    /\ IF errp[job[t]] = "ok"
       THEN drain
       ELSE UNCHANGED <<messages, non_confirm_messages, held, delivered>>
    /\ UNCHANGED <<acks, current_message, waiting_messages, conf, carried, errp,
                   chan, npub, broker, aux>>

\* The future of basic_publish or wait_for_confirms is dropped while it
\* awaits; the frames already queued stay queued.
CancelFuture(t) ==
    /\ pc[t] \in {"queued", "waiting"}
    /\ pc' = [pc EXCEPT ![t] = "idle"] /\ job' = [job EXCEPT ![t] = None]
    /\ IF pc[t] = "queued" /\ held[job[t]] = "task"
       THEN register_dropped_confirm(job[t])
       ELSE UNCHANGED <<held, messages>>
    /\ UNCHANGED <<acks, current_message, non_confirm_messages, waiting_messages,
                   conf, carried, errp, chan, npub, delivered, broker, aux>>

-----------------------------------------------------------------------------
(* IO loop: a publish is written, and the tasks awaiting it resume with     *)
(* their PublisherConfirm.  A broker in confirm mode numbers what it reads. *)

WriteFrames ==
    LET p == Head(sendq) IN
    /\ sendq # <<>> /\ session # "down"
    /\ sendq' = Tail(sendq)
    /\ pc' = [t \in Tasks |-> IF pc[t] = "queued" /\ job[t] = p THEN "idle" ELSE pc[t]]
    /\ job' = [t \in Tasks |-> IF pc[t] = "queued" /\ job[t] = p THEN None ELSE job[t]]
    /\ held' = IF \E t \in Tasks : pc[t] = "queued" /\ job[t] = p
               THEN [held EXCEPT ![p] = "held"] ELSE held
    /\ IF session = "up"
       THEN /\ live' = live \cup {p}
            /\ btag' = IF selected THEN btag + 1 ELSE btag
            /\ btag_of' = IF selected THEN [btag_of EXCEPT ![p] = btag + 1] ELSE btag_of
            /\ in_step' = (in_step /\ (confirm =>
                    selected /\ tag_of[p] = btag + 1 /\ epoch_of[p] = epoch))
       ELSE UNCHANGED <<live, btag, btag_of, in_step>>
    /\ UNCHANGED <<acks, rets, conf, carried, errp, status, confirm, receiving,
                   poisoned, phase, closer, bad_ack, npub, delivered,
                   session, selected, verdict, returned, epoch, tag_of, epoch_of, faults>>

-----------------------------------------------------------------------------
(* Frames from the broker.  It returns a message before it answers it, and  *)
(* sends nothing else on the channel before the content is complete.        *)

CanReceive ==
    /\ session = "up" /\ ~receiving
    /\ status \in {"Closing", "Connected", "Reconnecting"}

\* on_basic_return_received.
BasicReturn(p) ==
    /\ CanReceive /\ p \in live \ returned
    /\ returned' = returned \cup {p}
    /\ receiving' = TRUE
    /\ current_message' = p
    /\ UNCHANGED <<acks, non_confirm_messages, waiting_messages, messages, proms,
                   status, confirm, poisoned, sendq, phase, closer, bad_ack, app,
                   session, selected, btag, btag_of, live, verdict, aux>>

\* The last content frame: new_delivery_complete.
ReturnComplete ==
    /\ receiving /\ session = "up"
    /\ receiving' = FALSE
    /\ current_message' = None
    /\ IF confirm
       THEN /\ waiting_messages' = Append(waiting_messages, current_message)
            /\ UNCHANGED non_confirm_messages
       ELSE /\ non_confirm_messages' = non_confirm_messages \cup {current_message}
            /\ UNCHANGED waiting_messages
    /\ UNCHANGED <<acks, messages, proms, status, confirm, poisoned, sendq, phase,
                   closer, bad_ack, app, broker, aux>>

\* The broker settles the publishes of A.
Settle(A, v) ==
    /\ live' = live \ A
    /\ verdict' = [p \in Pubs |-> IF p \in A THEN v ELSE verdict[p]]
    /\ UNCHANGED <<session, selected, btag, btag_of, returned>>

\* on_basic_ack_received / on_basic_nack_received, multiple = false: a tag
\* that is not pending is an error of the connection.
BasicAck(p, v) ==
    LET tag == btag_of[p] IN
    /\ CanReceive /\ confirm /\ p \in live /\ tag # 0
    /\ Settle({p}, v)
    /\ IF tag \in PendingTags
       THEN complete_pending({tag}, v) /\ UNCHANGED bad_ack
       ELSE /\ bad_ack' = TRUE
            /\ UNCHANGED <<pending, waiting_messages, conf, carried, errp>>
    /\ UNCHANGED <<delivery_tag, last, current_message, non_confirm_messages, messages,
                   held, status, confirm, receiving, poisoned, sendq, phase, closer,
                   app, aux>>

\* Mutant: one tag too many.
Covered_OneMore(upto) == {t \in PendingTags : upto = 0 \/ t <= upto + 1}

\* The tags of complete_pending_before, or of drop_all for 0.
Covered(upto) == {t \in PendingTags : upto = 0 \/ t <= upto}

\* multiple = true: every tag up to the given one, or all of them for 0 (which
\* the broker is assumed to use only when it has read every registered publish).
BasicAckMultiple(upto, v) ==
    LET Acked == {p \in live : btag_of[p] # 0 /\ (upto = 0 \/ btag_of[p] <= upto)} IN
    /\ CanReceive /\ confirm /\ Acked # {}
    /\ IF upto = 0 THEN btag = CurrentTag(delivery_tag)
       ELSE \E p \in Acked : btag_of[p] = upto
    /\ Settle(Acked, v)
    /\ complete_pending(Covered(upto), v)
    /\ UNCHANGED <<delivery_tag, last, current_message, non_confirm_messages, messages,
                   held, chan, app, aux>>

-----------------------------------------------------------------------------
(* Connection loss and recovery                                            *)

Fault ==
    /\ faults < MaxFaults /\ faults' = faults + 1
    /\ UNCHANGED <<epoch, tag_of, epoch_of, in_step>>

\* Every queued publish is rejected; its task, if still there, sees the error.
drop_frames ==
    /\ sendq' = <<>>
    /\ pc' = [t \in Tasks |-> IF pc[t] = "queued" THEN "failed" ELSE pc[t]]
    /\ UNCHANGED <<job, npub, delivered>>

\* Channel::init_recovery; the socket is gone.
InitRecovery ==
    /\ Fault /\ status \notin Terminal /\ phase # "lost"
    /\ status' = "Reconnecting" /\ receiving' = FALSE /\ bad_ack' = FALSE
    /\ drop_frames
    /\ poisoned' = TRUE /\ phase' = "lost"
    /\ session' = "down" /\ selected' = FALSE /\ btag' = 0 /\ live' = {}
    /\ UNCHANGED <<acks, rets, proms, confirm, closer, btag_of, verdict, returned>>

\* Mutant: recovery leaves the acknowledgements of the old connection alone.
ResetAcknowledgements_Skip ==
    /\ status = "Reconnecting" /\ phase = "lost"
    /\ phase' = "reset"
    /\ epoch' = epoch + 1
    /\ UNCHANGED <<acks, rets, proms, status, confirm, receiving, poisoned, sendq,
                   closer, bad_ack, app, broker, tag_of, epoch_of, in_step, faults>>

\* update_recovery, first half: acknowledgements.reset.
ResetAcknowledgements ==
    /\ status = "Reconnecting" /\ phase = "lost"
    /\ phase' = "reset"
    /\ reset
    /\ epoch' = epoch + 1
    /\ UNCHANGED <<last, rets, carried, status, confirm, receiving, poisoned, sendq,
                   closer, bad_ack, app, broker, tag_of, epoch_of, in_step, faults>>

\* update_recovery, second half: drop_channel_poison; channel.open is sent.
ReopenChannel ==
    /\ status = "Reconnecting" /\ phase = "reset"
    /\ phase' = "reopening" /\ poisoned' = FALSE /\ session' = "up"
    /\ UNCHANGED <<acks, rets, proms, status, confirm, receiving, sendq, closer,
                   bad_ack, app, selected, btag, btag_of, live, verdict, returned, aux>>

\* The broker reads confirm.select, sent again if confirms were enabled.
ConfirmSelect ==
    /\ status = "Reconnecting" /\ phase = "reopening" /\ confirm
    /\ phase' = "selecting" /\ selected' = TRUE
    /\ UNCHANGED <<acks, rets, proms, status, confirm, receiving, poisoned, sendq,
                   closer, bad_ack, app, session, btag, btag_of, live, verdict,
                   returned, aux>>

\* open-ok, or select-ok in confirm mode: finalize_connection.
FinalizeConnection ==
    /\ status = "Reconnecting"
    /\ phase = IF confirm THEN "selecting" ELSE "reopening"
    /\ phase' = "open" /\ status' = "Connected"
    /\ UNCHANGED <<acks, rets, proms, confirm, receiving, poisoned, sendq, closer,
                   bad_ack, app, broker, aux>>

-----------------------------------------------------------------------------
(* Close and failure                                                       *)

ErrorConfirms ==
    /\ on_channel_error(CurrentTag(delivery_tag))
    /\ UNCHANGED <<delivery_tag, last, rets, carried>>

\* do_channel_close: set_closing(None), channel.close is sent.
ChannelClose ==
    /\ Fault /\ status = "Connected"
    /\ status' = "Closing" /\ closer' = "client"
    /\ UNCHANGED <<acks, rets, proms, confirm, receiving, poisoned, sendq, phase,
                   bad_ack, app, broker>>

\* channel.close-ok received: set_closed.
ChannelCloseOk ==
    /\ status = "Closing" /\ closer = "client"
    /\ status' = "Closed" /\ session' = "closed"
    /\ ErrorConfirms
    /\ UNCHANGED <<confirm, receiving, poisoned, sendq, phase, closer, bad_ack, app,
                   selected, btag, btag_of, live, verdict, returned, aux>>

\* channel.close received: set_closing, with the error if the code is one.
ChannelCloseReceived(error) ==
    /\ Fault /\ CanReceive /\ closer # "server"
    /\ status' = "Closing" /\ closer' = "server" /\ session' = "closed"
    /\ IF error THEN ErrorConfirms ELSE UNCHANGED <<acks, rets, proms>>
    /\ UNCHANGED <<confirm, receiving, poisoned, sendq, phase, bad_ack, app,
                   selected, btag, btag_of, live, verdict, returned>>

\* channel_close_ok: on_channel_close_ok_sent poisons the channel, set_closed.
ChannelCloseOkSent ==
    /\ closer = "server" /\ status \in {"Closing", "Reconnecting"}
    /\ status' = "Closed" /\ poisoned' = TRUE
    /\ ErrorConfirms
    /\ UNCHANGED <<confirm, receiving, sendq, phase, closer, bad_ack, app, broker, aux>>

\* Channels::set_connection_error, when the error cannot be recovered from.
SetConnectionError ==
    /\ Fault \/ (bad_ack /\ UNCHANGED aux)
    /\ status \notin Terminal
    /\ status' = "Error" /\ poisoned' = TRUE /\ session' = "down"
    /\ drop_frames
    /\ ErrorConfirms
    /\ UNCHANGED <<confirm, receiving, phase, closer, bad_ack, selected, btag,
                   btag_of, live, verdict, returned>>

-----------------------------------------------------------------------------
TaskStep(t) ==
    BeforeBasicPublish(t) \/ PushFrames(t) \/ PublishFailed(t) \/ WaitDone(t)

BrokerAnswer ==
    \/ \E p \in Pubs, v \in Verdicts : BasicAck(p, v)
    \/ \E upto \in 0..MaxPublish, v \in Verdicts : BasicAckMultiple(upto, v)

Recovery ==
    ResetAcknowledgements \/ ReopenChannel \/ ConfirmSelect \/ FinalizeConnection

CloseAnswered == ChannelCloseOk \/ ChannelCloseOkSent

Closing ==
    \/ ChannelClose \/ CloseAnswered \/ SetConnectionError
    \/ \E error \in BOOLEAN : ChannelCloseReceived(error)

Next ==
    \/ \E t \in Tasks : \/ BasicPublish(t) \/ TaskStep(t)
                         \/ WaitForConfirms(t) \/ CancelFuture(t)
    \/ \E p \in Pubs : AwaitConfirm(p) \/ DropConfirm(p) \/ BasicReturn(p)
    \/ WriteFrames \/ ReturnComplete \/ BrokerAnswer
    \/ InitRecovery \/ Recovery
    \/ Closing

\* Tasks, the IO loop and a recovery under way keep running; the broker
\* completes what it started and answers what it has read.
Fairness ==
    /\ \A t \in Tasks : WF_vars(TaskStep(t))
    /\ WF_vars(WriteFrames) /\ WF_vars(ReturnComplete) /\ WF_vars(BrokerAnswer)
    /\ WF_vars(Recovery) /\ WF_vars(CloseAnswered)

Spec == Init /\ [][Next]_vars /\ Fairness

-----------------------------------------------------------------------------
(* Properties                                                              *)

AcksType ==
    /\ delivery_tag \in 0..(MaxPublish + 1) /\ last \in 0..MaxPublish
    /\ pending \in [Tags -> 0..MaxPublish]
RetsType ==
    /\ current_message \in 0..MaxPublish /\ waiting_messages \in Seq(Pubs)
    /\ non_confirm_messages \subseteq Pubs /\ messages \subseteq Pubs
PromsType ==
    /\ conf \in [Pubs -> Verdicts \cup {"none", "pending", "err", "notrequested"}]
    /\ carried \in [Pubs -> 0..MaxPublish]
    /\ held \in [Pubs -> {"none", "task", "held", "dropped", "done"}]
    /\ errp \in [Pubs -> {"unset", "ok", "err"}]
ChanType ==
    /\ status \in {"Connected", "Reconnecting", "Closing"} \cup Terminal
    /\ confirm \in BOOLEAN /\ receiving \in BOOLEAN /\ poisoned \in BOOLEAN
    /\ sendq \in Seq(Pubs)
    /\ phase \in {"open", "lost", "reset", "reopening", "selecting"}
    /\ closer \in {"none", "client", "server"}
    /\ bad_ack \in BOOLEAN
AppType ==
    /\ pc \in [Tasks -> {"idle", "checked", "registered", "queued", "failed", "waiting"}]
    /\ job \in [Tasks -> 0..MaxPublish] /\ npub \in 0..MaxPublish
    /\ delivered \subseteq Pubs
BrokerType ==
    /\ session \in {"up", "down", "closed"} /\ selected \in BOOLEAN
    /\ btag \in Nat /\ btag_of \in [Pubs -> Nat] /\ live \subseteq Pubs
    /\ verdict \in [Pubs -> Verdicts \cup {"none"}] /\ returned \subseteq Pubs
AuxType ==
    /\ epoch \in Nat /\ tag_of \in [Pubs -> 0..MaxPublish] /\ epoch_of \in [Pubs -> Nat]
    /\ in_step \in BOOLEAN /\ faults \in Nat

\* The variables have their types; in particular a tag handed out never leaves
\* the range of the publishes made.
TypeOK ==
    /\ AcksType /\ RetsType /\ PromsType /\ ChanType
    /\ AppType /\ BrokerType /\ AuxType

\* No confirm is forgotten: the promise of a publish is unresolved exactly
\* while one entry of the pending map, and only one, can still resolve it
\* (register_pending never overwrites an entry, whatever resets the tags).
ConfirmNotLost ==
    \A p \in Pubs :
        /\ conf[p] = "pending" <=> \E t \in Tags : pending[t] = p
        /\ \A t, u \in Tags : pending[t] = p /\ pending[u] = p => t = u

\* The promise wait_for_confirms awaits is settled only after, and in the
\* same way as, the confirm it was registered with.
WokenByOwnConfirm ==
    \A p \in Pubs :
        /\ errp[p] = "ok" => conf[p] \in Verdicts
        /\ errp[p] = "err" => conf[p] = "err"

\* As long as client and broker number the publishes alike, a confirmation
\* says what the broker answered for that very message, and no answer of the
\* broker is taken for an invalid one.
ConfirmedAsAnswered ==
    in_step =>
        /\ \A p \in Pubs : conf[p] \in Verdicts => verdict[p] = conf[p]
        /\ ~bad_ack

\* A returned message is in one place at a time: waiting for its confirm,
\* carried by a confirm, kept for wait_for_confirms, or with the application.
ReturnedOnce ==
    \A m \in Pubs :
        LET Carriers == {p \in Pubs : carried[p] = m /\ held[p] # "done"}
            Waiting  == {i \in 1..Len(waiting_messages) : waiting_messages[i] = m}
        IN  /\ \A p, q \in Carriers : p = q
            /\ \A i, j \in Waiting : i = j
            /\ Carriers # {} => Waiting = {}
            /\ m \in messages \cup non_confirm_messages \cup delivered
                 => Carriers = {} /\ Waiting = {}
            /\ m \in delivered => m \notin messages \cup non_confirm_messages

Placed(m) ==
    \/ m \in messages \cup non_confirm_messages \cup delivered
    \/ \E i \in 1..Len(waiting_messages) : waiting_messages[i] = m
    \/ \E p \in Pubs : carried[p] = m /\ held[p] # "done"

\* Only a channel error may lose a returned message (clear_dropped_confirms
\* forgets the confirms that carry one); publishing, confirming, awaiting,
\* dropping and waiting keep it until the application has it.
ReturnedKept ==
    [][status' = status /\ phase' = phase /\ closer' = closer
         => \A m \in Pubs : Placed(m) => Placed(m)']_vars

\* An answer of the broker resolves only confirms registered on the same
\* connection: a publish of before a recovery is never confirmed after it.
ConfirmedInSameSession ==
    [][\A p \in Pubs : conf[p] = "pending" /\ conf'[p] \in Verdicts
                           => epoch_of[p] = epoch]_vars

\* Every confirm the application holds is resolved, unless the tags have
\* diverged or the channel is gone.
ConfirmsResolve ==
    \A p \in Pubs :
        held[p] = "held" /\ conf[p] = "pending"
            ~> conf[p] # "pending" \/ ~in_step \/ status \in Terminal

\* wait_for_confirms returns if nothing is published after it is called, the
\* connection stays up and the channel stays open.
WaitReturnsUndisturbed ==
    \A t \in Tasks :
        pc[t] = "waiting"
            ~> \/ pc[t] # "waiting" \/ npub > job[t] \/ ~in_step
               \/ phase # "open" \/ epoch > 0 \/ status # "Connected"

-----------------------------------------------------------------------------
(* The inductive invariant behind ConfirmNotLost, WokenByOwnConfirm and     *)
(* ConfirmedInSameSession.                                                  *)

\* The tags handed out since the last reset are below the next one, so that
\* register_pending finds its slot free; an entry and its promise name each
\* other, and the entry is of this epoch; nothing waits for an unborn publish.
Ledger ==
    /\ NextTag(delivery_tag) <= npub + 1
    /\ \A t \in Tags : pending[t] # None =>
            /\ t < NextTag(delivery_tag)
            /\ conf[pending[t]] = "pending"
            /\ tag_of[pending[t]] = t /\ epoch_of[pending[t]] = epoch
    /\ \A p \in Pubs : conf[p] = "pending" =>
            tag_of[p] \in Tags /\ pending[tag_of[p]] = p
    /\ \A p \in Pubs : p > npub => conf[p] = "none"
    /\ \A p \in Pubs : conf[p] \in {"none", "pending"} => errp[p] = "unset"
    /\ WokenByOwnConfirm

\* A task past its registration knows its publish, a content its message.
Jobs ==
    /\ \A t \in Tasks : pc[t] \notin {"idle", "checked"} => job[t] \in Pubs
    /\ receiving => current_message \in Pubs

IInv == TypeOK /\ Ledger /\ Jobs

-----------------------------------------------------------------------------
(* What the documentation says and the code does not do                    *)

\* publisher_confirm.rs: a PublisherConfirm "resolves to the broker's
\* acknowledgement of a published message", the one it was returned for.
ConfirmedByOwnAck ==
    \A p \in Pubs : conf[p] \in Verdicts => verdict[p] = conf[p]

\* Channel::wait_for_confirms "Blocks until every PublisherConfirm produced by
\* prior basic_publish calls on this channel has been resolved".
WaitCoversPrior ==
    [][\A t \in Tasks :
         pc[t] = "waiting" /\ pc'[t] = "idle" /\ errp[job[t]] = "ok"
             => \A p \in 1..job[t] : conf[p] # "pending"]_vars

\* The same sentence as a promise that the wait ends: once every confirm is
\* resolved, wait_for_confirms does not block any longer.
WaitEnds ==
    \A t \in Tasks :
        pc[t] = "waiting" /\ (\A p \in Pubs : conf[p] # "pending")
            ~> pc[t] # "waiting" \/ \E p \in Pubs : conf[p] = "pending"
=============================================================================
