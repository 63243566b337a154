--------------------------- MODULE ConfirmsProofs ---------------------------
(***************************************************************************)
(* For any number of tasks, publishes and faults: the types of Confirms,   *)
(* and the three facts about the pending map that follow from the          *)
(* inductive invariant IInv.                                               *)
(***************************************************************************)
EXTENDS Confirms, SequenceTheorems, TLAPS

\* What next() and current() of the delivery-tag sequence return.
LEMMA TagFacts ==
    ASSUME NEW id \in Nat
    PROVE  /\ NextTag(id) \in Nat \ {0}
           /\ id # 0 => NextTag(id) = id
           /\ NextTag(NextTag(id) + 1) = NextTag(id) + 1
           /\ NextTag(0) = 1
BY DEF NextTag

\* complete_pending keeps the types of what it changes and the ledger: the
\* completed confirms leave the map, and only their waiters are woken.
LEMMA CompletePendingStep ==
    ASSUME IInv, NEW S \in SUBSET PendingTags, NEW v \in Verdicts,
           complete_pending(S, v),
           UNCHANGED <<delivery_tag, npub, epoch, tag_of, epoch_of>>
    PROVE  /\ pending' \in [Tags -> 0..MaxPublish]
           /\ waiting_messages' \in Seq(Pubs)
           /\ conf' \in [Pubs -> Verdicts \cup {"none", "pending", "err", "notrequested"}]
           /\ carried' \in [Pubs -> 0..MaxPublish]
           /\ errp' \in [Pubs -> {"unset", "ok", "err"}]
           /\ Ledger'
<1> DEFINE Done == {p \in Pubs : \E t \in S : pending[t] = p}
<1> DEFINE Completed(n, c) ==
            /\ pending' = [t \in Tags |-> IF t \in S THEN None ELSE pending[t]]
            /\ waiting_messages' = SubSeq(waiting_messages, n + 1, Len(waiting_messages))
            /\ conf' = [p \in Pubs |-> IF p \in Done THEN v ELSE conf[p]]
            /\ carried' = [p \in Pubs |->
                    IF p \in Done /\ c[tag_of[p]] # 0
                    THEN waiting_messages[c[tag_of[p]]] ELSE carried[p]]
            /\ errp' = [p \in Pubs |->
                    IF WakesWaiter(p, Done, CurrentTag(delivery_tag)) THEN "ok" ELSE errp[p]]
<1>0. PICK n \in 0..Len(waiting_messages) : \E c \in HandOuts(S, n) : Completed(n, c)
  BY DEF complete_pending
<1>1. PICK c \in HandOuts(S, n) : Completed(n, c)
  BY <1>0
<1> HIDE DEF Done
<1>2. /\ pending \in [Tags -> 0..MaxPublish] /\ waiting_messages \in Seq(Pubs)
      /\ conf \in [Pubs -> Verdicts \cup {"none", "pending", "err", "notrequested"}]
      /\ carried \in [Pubs -> 0..MaxPublish] /\ errp \in [Pubs -> {"unset", "ok", "err"}]
      /\ tag_of \in [Pubs -> 0..MaxPublish] /\ epoch_of \in [Pubs -> Nat]
      /\ delivery_tag \in 0..(MaxPublish + 1) /\ npub \in 0..MaxPublish
  BY DEF IInv, TypeOK, AcksType, RetsType, PromsType, AppType, AuxType
<1>3. S \subseteq Tags /\ \A t \in S : pending[t] # None
  BY DEF PendingTags
<1>4. Done \subseteq Pubs /\ \A p \in Pubs : p \in Done <=> \E t \in S : pending[t] = p
  BY DEF Done
<1>5. \A p \in Done : tag_of[p] \in S /\ pending[tag_of[p]] = p /\ conf[p] = "pending"
  BY <1>3, <1>4 DEF IInv, Ledger
<1>6. pending' \in [Tags -> 0..MaxPublish]
  BY <1>1, <1>2, ConfirmsAssumption DEF None
<1>7. conf' \in [Pubs -> Verdicts \cup {"none", "pending", "err", "notrequested"}]
  BY <1>1, <1>2
<1>8. errp' \in [Pubs -> {"unset", "ok", "err"}]
  BY <1>1, <1>2
<1>9. Len(waiting_messages) \in Nat
        /\ \A i \in 1..Len(waiting_messages) : waiting_messages[i] \in Pubs
  BY <1>2, ElementOfSeq, LenProperties
<1>10. carried' \in [Pubs -> 0..MaxPublish]
  <2>1. \A p \in Done : c[tag_of[p]] \in 0..n
    BY <1>1, <1>5 DEF HandOuts
  <2>2. \A p \in Done : c[tag_of[p]] # 0 => c[tag_of[p]] \in 1..Len(waiting_messages)
    BY <2>1, <1>9
  <2>3. \A p \in Done : c[tag_of[p]] # 0 => waiting_messages[c[tag_of[p]]] \in Pubs
    BY <2>2, <1>9
  <2>4. Pubs \subseteq 0..MaxPublish
    BY ConfirmsAssumption DEF Pubs
  <2> QED BY <1>1, <1>2, <2>3, <2>4
<1>11. waiting_messages' \in Seq(Pubs)
  <2>1. \A i \in (n + 1)..Len(waiting_messages) : waiting_messages[i] \in Pubs
    BY <1>9
  <2>2. n + 1 \in Int /\ Len(waiting_messages) \in Int
    BY <1>9
  <2> QED BY <1>1, <2>1, <2>2, SubSeqProperties
<1>12. Ledger'
  <2>1. \A t \in Tags : pending'[t] # None => pending'[t] = pending[t] /\ t \notin S
    BY <1>1
  <2>2. \A p \in Pubs : p \notin Done => conf'[p] = conf[p] /\ errp'[p] = errp[p]
    BY <1>1 DEF WakesWaiter
  <2>3. \A p \in Done : conf'[p] = v /\ errp'[p] \in {"ok", errp[p]} /\ errp[p] = "unset"
    BY <1>1, <1>4, <1>5 DEF IInv, Ledger
  <2>4. (NextTag(delivery_tag) <= npub + 1)'
    BY DEF IInv, Ledger
  <2>5. (\A t \in Tags : pending[t] # None =>
            /\ t < NextTag(delivery_tag) /\ conf[pending[t]] = "pending"
            /\ tag_of[pending[t]] = t /\ epoch_of[pending[t]] = epoch)'
    <3> SUFFICES ASSUME NEW t \in Tags, pending'[t] # None
                 PROVE  /\ t < NextTag(delivery_tag) /\ conf'[pending[t]] = "pending"
                        /\ tag_of[pending[t]] = t /\ epoch_of[pending[t]] = epoch
                        /\ pending'[t] = pending[t]
      OBVIOUS
    <3>1. pending'[t] = pending[t] /\ t \notin S /\ pending[t] # None
      BY <2>1
    <3>2. pending[t] \in Pubs /\ pending[t] \notin Done
      BY <1>2, <1>3, <1>5, <3>1 DEF IInv, Ledger, Pubs, None
    <3> QED BY <2>2, <3>1, <3>2 DEF IInv, Ledger
  <2>6. (\A p \in Pubs : conf[p] = "pending" =>
            tag_of[p] \in Tags /\ pending[tag_of[p]] = p)'
    <3>1. v # "pending"
      BY DEF Verdicts
    <3>2. \A p \in Pubs : conf'[p] = "pending" => p \notin Done /\ tag_of[p] \notin S
      BY <2>2, <2>3, <3>1, <1>4 DEF IInv, Ledger
    <3> QED BY <1>1, <2>2, <3>2 DEF IInv, Ledger
  <2>7. (\A p \in Pubs : p > npub => conf[p] = "none")'
    BY <1>5, <2>2 DEF IInv, Ledger
  <2>8. (\A p \in Pubs : conf[p] \in {"none", "pending"} => errp[p] = "unset")'
    BY <2>2, <2>3 DEF IInv, Ledger, Verdicts
  <2>9. WokenByOwnConfirm'
    BY <2>2, <2>3 DEF IInv, Ledger, WokenByOwnConfirm
  <2> QED BY <2>4, <2>5, <2>6, <2>7, <2>8, <2>9 DEF Ledger
<1> QED BY <1>6, <1>7, <1>8, <1>10, <1>11, <1>12

\* on_channel_error empties the map and rejects what was in it, whether the
\* sequence is kept or, as in reset, already replaced.
LEMMA OnChannelErrorStep ==
    ASSUME IInv, NEW current, on_channel_error(current),
           delivery_tag' \in {0, delivery_tag}, UNCHANGED <<npub, tag_of, epoch_of>>
    PROVE  /\ pending' \in [Tags -> 0..MaxPublish]
           /\ conf' \in [Pubs -> Verdicts \cup {"none", "pending", "err", "notrequested"}]
           /\ errp' \in [Pubs -> {"unset", "ok", "err"}]
           /\ held' \in [Pubs -> {"none", "task", "held", "dropped", "done"}]
           /\ Ledger'
<1> DEFINE Done == {p \in Pubs : \E t \in Tags : pending[t] = p}
<1>1. /\ pending' = [t \in Tags |-> None]
      /\ conf' = [p \in Pubs |-> IF p \in Done THEN "err" ELSE conf[p]]
      /\ errp' = [p \in Pubs |-> IF WakesWaiter(p, Done, current) THEN "err" ELSE errp[p]]
      /\ held' = [p \in Pubs |-> IF held[p] = "dropped" THEN "done" ELSE held[p]]
  BY DEF on_channel_error
<1>2. \A p \in Pubs : p \in Done <=> conf[p] = "pending"
  BY DEF IInv, Ledger, Pubs, None
<1> HIDE DEF Done
<1>3. pending' \in [Tags -> 0..MaxPublish]
  BY <1>1, ConfirmsAssumption DEF None
<1>4. /\ conf' \in [Pubs -> Verdicts \cup {"none", "pending", "err", "notrequested"}]
      /\ errp' \in [Pubs -> {"unset", "ok", "err"}]
      /\ held' \in [Pubs -> {"none", "task", "held", "dropped", "done"}]
  BY <1>1 DEF IInv, TypeOK, AcksType, RetsType, PromsType, AppType, AuxType
<1>5. Ledger'
  <2>1. (NextTag(delivery_tag) <= npub + 1)'
    BY DEF IInv, TypeOK, AcksType, AppType, Ledger, NextTag
  <2>2. \A t \in Tags : pending'[t] = None
    BY <1>1
  <2>3. \A p \in Pubs : p \notin Done => conf'[p] = conf[p] /\ errp'[p] = errp[p]
    BY <1>1 DEF WakesWaiter
  <2>4. \A p \in Pubs : p \in Done => conf'[p] = "err" /\ errp'[p] \in {"err", "unset"}
    BY <1>1, <1>2 DEF IInv, Ledger
  <2>5. \A p \in Pubs : conf'[p] # "pending"
    BY <1>2, <2>3, <2>4
  <2>6. (\A p \in Pubs : p > npub => conf[p] = "none")'
    BY <1>2, <2>3 DEF IInv, Ledger
  <2>7. (\A p \in Pubs : conf[p] \in {"none", "pending"} => errp[p] = "unset")'
    BY <2>3, <2>4, <2>5 DEF IInv, Ledger
  <2>8. WokenByOwnConfirm'
    BY <2>3, <2>4 DEF IInv, Ledger, WokenByOwnConfirm, Verdicts
  <2> QED BY <2>1, <2>2, <2>5, <2>6, <2>7, <2>8 DEF Ledger
<1> QED BY <1>3, <1>4, <1>5

\* The slot of the next tag is free and within the bound, and registering a
\* new publish there keeps the ledger.
LEMMA RegisterPendingStep ==
    ASSUME IInv, npub < MaxPublish, npub' = npub + 1, register_pending(npub + 1),
           UNCHANGED <<errp, epoch>>
    PROVE  /\ delivery_tag' \in 0..(MaxPublish + 1) /\ last' \in 0..MaxPublish
           /\ pending' \in [Tags -> 0..MaxPublish]
           /\ conf' \in [Pubs -> Verdicts \cup {"none", "pending", "err", "notrequested"}]
           /\ held' \in [Pubs -> {"none", "task", "held", "dropped", "done"}]
           /\ tag_of' \in [Pubs -> 0..MaxPublish] /\ epoch_of' \in [Pubs -> Nat]
           /\ Ledger'
<1> DEFINE p == npub + 1
           tag == NextTag(delivery_tag)
<1>1. /\ delivery_tag' = tag + 1 /\ last' = p
      /\ pending' = [pending EXCEPT ![tag] = p]
      /\ conf' = [conf EXCEPT ![p] = "pending"]
      /\ held' = [held EXCEPT ![p] = "task"]
      /\ tag_of' = [tag_of EXCEPT ![p] = tag]
      /\ epoch_of' = [epoch_of EXCEPT ![p] = epoch]
  BY DEF register_pending
<1>2. /\ delivery_tag \in Nat /\ npub \in Nat /\ epoch \in Nat
      /\ pending \in [Tags -> 0..MaxPublish]
      /\ conf \in [Pubs -> Verdicts \cup {"none", "pending", "err", "notrequested"}]
      /\ held \in [Pubs -> {"none", "task", "held", "dropped", "done"}]
      /\ tag_of \in [Pubs -> 0..MaxPublish] /\ epoch_of \in [Pubs -> Nat]
  BY ConfirmsAssumption DEF IInv, TypeOK, AcksType, RetsType, PromsType, AppType, AuxType
<1>3. tag \in Nat \ {0} /\ NextTag(delivery_tag') = tag + 1 /\ tag <= p
  BY <1>1, <1>2, TagFacts DEF IInv, Ledger
<1> HIDE DEF tag
<1>4. p \in Pubs /\ tag \in Tags /\ p \in 0..MaxPublish /\ tag \in 0..MaxPublish
  BY <1>2, <1>3, ConfirmsAssumption DEF Pubs, Tags
<1>5. conf[p] = "none" /\ errp[p] = "unset" /\ p # None
  BY <1>2, <1>4 DEF IInv, Ledger, None
<1>6. pending[tag] = None
  BY <1>3, <1>4 DEF IInv, Ledger, tag
<1> HIDE DEF p
<1>7. \A t \in Tags : pending[t] # None => pending[t] \in Pubs /\ pending[t] # p /\ t # tag
  BY <1>2, <1>5, <1>6 DEF IInv, Ledger, Pubs, None
<1>8. \A t \in Tags : pending'[t] = IF t = tag THEN p ELSE pending[t]
  BY <1>1, <1>2, <1>4
<1>9. \A q \in Pubs : /\ conf'[q] = IF q = p THEN "pending" ELSE conf[q]
                      /\ tag_of'[q] = IF q = p THEN tag ELSE tag_of[q]
                      /\ epoch_of'[q] = IF q = p THEN epoch ELSE epoch_of[q]
  BY <1>1, <1>2, <1>4
<1>10. Ledger'
  <2>1. (NextTag(delivery_tag) <= npub + 1)'
    BY <1>2, <1>3 DEF p
  <2>2. (\A t \in Tags : pending[t] # None =>
            /\ t < NextTag(delivery_tag) /\ conf[pending[t]] = "pending"
            /\ tag_of[pending[t]] = t /\ epoch_of[pending[t]] = epoch)'
    <3> SUFFICES ASSUME NEW t \in Tags, pending'[t] # None
                 PROVE  /\ t < tag + 1 /\ conf'[pending'[t]] = "pending"
                        /\ tag_of'[pending'[t]] = t /\ epoch_of'[pending'[t]] = epoch
      BY <1>3
    <3>1. CASE t = tag
      BY <3>1, <1>3, <1>4, <1>8, <1>9
    <3>2. CASE t # tag
      <4>1. pending'[t] = pending[t] /\ pending[t] \in Pubs /\ pending[t] # p
        BY <3>2, <1>7, <1>8
      <4>2. /\ t < tag /\ conf[pending[t]] = "pending"
            /\ tag_of[pending[t]] = t /\ epoch_of[pending[t]] = epoch
        BY <4>1 DEF IInv, Ledger, tag
      <4> QED BY <4>1, <4>2, <1>3, <1>9 DEF Tags
    <3> QED BY <3>1, <3>2
  <2>3. (\A q \in Pubs : conf[q] = "pending" =>
            tag_of[q] \in Tags /\ pending[tag_of[q]] = q)'
    <3> SUFFICES ASSUME NEW q \in Pubs, conf'[q] = "pending"
                 PROVE  tag_of'[q] \in Tags /\ pending'[tag_of'[q]] = q
      OBVIOUS
    <3>1. CASE q = p
      BY <3>1, <1>4, <1>8, <1>9
    <3>2. CASE q # p
      <4>1. tag_of'[q] = tag_of[q] /\ tag_of[q] \in Tags /\ pending[tag_of[q]] = q
        BY <3>2, <1>9 DEF IInv, Ledger
      <4>2. q # None
        BY DEF Pubs, None
      <4> QED BY <4>1, <4>2, <1>6, <1>8
    <3> QED BY <3>1, <3>2
  <2>4. (\A q \in Pubs : q > npub => conf[q] = "none")'
    BY <1>2, <1>9 DEF IInv, Ledger, Pubs, p
  <2>5. (\A q \in Pubs : conf[q] \in {"none", "pending"} => errp[q] = "unset")'
    BY <1>5, <1>9 DEF IInv, Ledger
  <2>6. WokenByOwnConfirm'
    BY <1>5, <1>9 DEF IInv, Ledger, WokenByOwnConfirm
  <2> QED BY <2>1, <2>2, <2>3, <2>4, <2>5, <2>6 DEF Ledger
<1>11. delivery_tag' \in 0..(MaxPublish + 1) /\ last' \in 0..MaxPublish
  BY <1>1, <1>4, ConfirmsAssumption
<1>12. /\ pending' \in [Tags -> 0..MaxPublish]
       /\ conf' \in [Pubs -> Verdicts \cup {"none", "pending", "err", "notrequested"}]
       /\ held' \in [Pubs -> {"none", "task", "held", "dropped", "done"}]
       /\ tag_of' \in [Pubs -> 0..MaxPublish] /\ epoch_of' \in [Pubs -> Nat]
  BY <1>1, <1>2, <1>4
<1> QED BY <1>10, <1>11, <1>12

\* Dropping a confirm keeps messages a set of messages.
LEMMA DroppedConfirmStep ==
    ASSUME IInv, NEW p \in Pubs, register_dropped_confirm(p)
    PROVE  /\ held' \in [Pubs -> {"none", "task", "held", "dropped", "done"}]
           /\ messages' \subseteq Pubs
<1>0. PromsType /\ RetsType
  BY DEF IInv, TypeOK
<1>1. {carried[p]} \ NoMessage \subseteq Pubs
  BY <1>0 DEF PromsType, NoMessage, None, Pubs
<1>2. messages' \subseteq Pubs
  BY <1>0, <1>1 DEF register_dropped_confirm, RetsType
<1>3. held' \in [Pubs -> {"none", "task", "held", "dropped", "done"}]
  BY <1>0 DEF register_dropped_confirm, PromsType
<1> QED BY <1>2, <1>3

\* drain keeps the types of what it changes.
LEMMA DrainStep ==
    ASSUME IInv, drain
    PROVE  /\ held' \in [Pubs -> {"none", "task", "held", "dropped", "done"}]
           /\ messages' \subseteq Pubs /\ non_confirm_messages' \subseteq Pubs
           /\ delivered' \subseteq Pubs
<1>0. PromsType /\ RetsType /\ AppType
  BY DEF IInv, TypeOK
<1>1. \A p \in Pubs : carried[p] # None => carried[p] \in Pubs
  BY <1>0 DEF PromsType, None, Pubs
<1>2. delivered' \subseteq Pubs
  BY <1>0, <1>1 DEF drain, NoMessage, RetsType, AppType
<1>3. held' \in [Pubs -> {"none", "task", "held", "dropped", "done"}]
  BY <1>0 DEF drain, PromsType
<1>4. messages' \subseteq Pubs /\ non_confirm_messages' \subseteq Pubs
  BY DEF drain
<1> QED BY <1>2, <1>3, <1>4

\* The ledger reads nothing else.
LEMMA LedgerUnchanged ==
    ASSUME IInv, UNCHANGED <<delivery_tag, pending, conf, errp, npub, epoch, tag_of, epoch_of>>
    PROVE  Ledger'
BY DEF IInv, Ledger, WokenByOwnConfirm

\* The types of a group of variables read nothing else.
LEMMA TypesUnchanged ==
    ASSUME IInv
    PROVE  /\ UNCHANGED acks => AcksType'
           /\ UNCHANGED rets => RetsType'
           /\ UNCHANGED proms => PromsType'
           /\ UNCHANGED chan => ChanType'
           /\ UNCHANGED app => AppType'
           /\ UNCHANGED broker => BrokerType'
           /\ UNCHANGED aux => AuxType'
<1>0. AcksType /\ RetsType /\ PromsType /\ ChanType /\ AppType /\ BrokerType /\ AuxType
  BY DEF IInv, TypeOK
<1>1. UNCHANGED acks => AcksType'
  BY <1>0 DEF acks, AcksType
<1>2. UNCHANGED rets => RetsType'
  BY <1>0 DEF rets, RetsType
<1>3. UNCHANGED proms => PromsType'
  BY <1>0 DEF proms, PromsType
<1>4. UNCHANGED chan => ChanType'
  BY <1>0 DEF chan, ChanType
<1>5. UNCHANGED app => AppType'
  BY <1>0 DEF app, AppType
<1>6. UNCHANGED broker => BrokerType'
  BY <1>0 DEF broker, BrokerType
<1>7. UNCHANGED aux => AuxType'
  BY <1>0 DEF aux, AuxType
<1> QED BY <1>1, <1>2, <1>3, <1>4, <1>5, <1>6, <1>7

\* A new channel satisfies the inductive invariant.
LEMMA InitIInv == Init => IInv
<1> SUFFICES ASSUME Init PROVE IInv
  OBVIOUS
<1>1. AcksType /\ PromsType /\ BrokerType /\ AuxType /\ AppType
  BY ConfirmsAssumption DEF Init, AcksType, PromsType, BrokerType, AuxType, AppType, None
<1>2. RetsType /\ ChanType
  <2>1. << >> \in Seq(Pubs)
    BY EmptySeq
  <2>2. waiting_messages = << >> /\ sendq = << >>
    BY DEF Init
  <2>3. RetsType
    BY <2>1, <2>2, ConfirmsAssumption DEF Init, RetsType, None
  <2>4. ChanType
    BY <2>1, <2>2 DEF Init, ChanType
  <2> QED BY <2>3, <2>4
<1>3. Ledger
  BY ConfirmsAssumption
     DEF Init, Ledger, NextTag, None, Tags, Pubs, WokenByOwnConfirm, Verdicts
<1>4. Jobs
  BY DEF Init, Jobs
<1> QED BY <1>1, <1>2, <1>3, <1>4 DEF IInv, TypeOK

\* The conjuncts of the inductive invariant, and the bounds of a publish's number.
LEMMA IInvFacts ==
    ASSUME IInv
    PROVE  /\ AcksType /\ RetsType /\ PromsType /\ ChanType /\ AppType /\ BrokerType
           /\ AuxType /\ Ledger /\ Jobs
           /\ 0 \in 0..MaxPublish /\ Pubs \subseteq 0..MaxPublish
BY ConfirmsAssumption DEF IInv, TypeOK, Pubs

\* A publish that only checked the channel's state.
LEMMA BasicPublishIInv ==
    ASSUME IInv, NEW t \in Tasks, BasicPublish(t)
    PROVE  IInv'
<1>1. UNCHANGED <<acks, rets, proms, chan, job, npub, delivered, broker, aux>>
  BY DEF BasicPublish
<1>2. AppType'
  BY IInvFacts, <1>1 DEF BasicPublish, AppType
<1>3. Jobs'
  BY IInvFacts, <1>1 DEF BasicPublish, AppType, Jobs, chan, rets
<1> QED BY <1>1, <1>2, <1>3, TypesUnchanged, LedgerUnchanged
           DEF IInv, TypeOK, acks, proms, aux

\* Registering a publish: before_basic_publish.
LEMMA BeforeBasicPublishIInv ==
    ASSUME IInv, NEW t \in Tasks, BeforeBasicPublish(t)
    PROVE  IInv'
<1>1. npub + 1 \in Pubs /\ npub \in Nat /\ npub < MaxPublish /\ npub' = npub + 1
  BY IInvFacts, ConfirmsAssumption DEF BeforeBasicPublish, AppType, Pubs
<1>2. UNCHANGED <<rets, carried, errp, chan, delivered, broker, epoch, in_step, faults>>
  BY DEF BeforeBasicPublish, aux
<1>3. AppType'
  BY IInvFacts, <1>1, <1>2 DEF BeforeBasicPublish, AppType
<1>4. Jobs'
  BY IInvFacts, <1>1, <1>2 DEF BeforeBasicPublish, AppType, Jobs, chan, rets
<1>5. CASE confirm
  <2>1. register_pending(npub + 1)
    BY <1>5 DEF BeforeBasicPublish
  <2>2. /\ delivery_tag' \in 0..(MaxPublish + 1) /\ last' \in 0..MaxPublish
        /\ pending' \in [Tags -> 0..MaxPublish]
        /\ conf' \in [Pubs -> Verdicts \cup {"none", "pending", "err", "notrequested"}]
        /\ held' \in [Pubs -> {"none", "task", "held", "dropped", "done"}]
        /\ tag_of' \in [Pubs -> 0..MaxPublish] /\ epoch_of' \in [Pubs -> Nat]
        /\ Ledger'
    BY <1>1, <1>2, <2>1, RegisterPendingStep
  <2>3. AcksType' /\ PromsType' /\ AuxType'
    BY IInvFacts, <1>2, <2>2 DEF AcksType, PromsType, AuxType
  <2> QED BY <1>2, <1>3, <1>4, <2>2, <2>3, TypesUnchanged, LedgerUnchanged DEF IInv, TypeOK
<1>6. CASE ~confirm
  <2>1. /\ UNCHANGED <<acks, held, aux>>
        /\ conf' = [conf EXCEPT ![npub + 1] = "notrequested"]
    BY <1>6 DEF BeforeBasicPublish
  <2>2. PromsType'
    BY IInvFacts, <1>1, <1>2, <2>1 DEF PromsType
  <2>3. Ledger'
    <3>1. \A q \in Pubs : conf'[q] = IF q = npub + 1 THEN "notrequested" ELSE conf[q]
      BY IInvFacts, <1>1, <2>1 DEF PromsType
    <3>2. conf[npub + 1] = "none" /\ errp[npub + 1] = "unset"
      BY IInvFacts, <1>1 DEF Ledger
    <3>3. UNCHANGED <<delivery_tag, pending, errp, epoch, tag_of, epoch_of>>
      BY <1>2, <2>1 DEF acks, aux
    <3>4. NextTag(delivery_tag) \in Nat
      BY IInvFacts, TagFacts, ConfirmsAssumption DEF AcksType
    <3>5. \A u \in Tags : pending[u] # None => pending[u] \in Pubs /\ pending[u] # npub + 1
      BY IInvFacts, <3>2 DEF AcksType, Pubs, None, Ledger
    <3>6. (\A p \in Pubs : p > npub => conf[p] = "none")'
      BY IInvFacts, <1>1, <3>1 DEF Ledger, Pubs
    <3>7. WokenByOwnConfirm'
      BY IInvFacts, <3>1, <3>2, <3>3 DEF Ledger, WokenByOwnConfirm
    <3>8. (NextTag(delivery_tag) <= npub + 1)'
      BY IInvFacts, <1>1, <3>3, <3>4 DEF Ledger
    <3>9. (\A p \in Pubs : conf[p] \in {"none", "pending"} => errp[p] = "unset")'
      BY IInvFacts, <3>1, <3>3 DEF Ledger
    <3>10. (\A p \in Pubs : conf[p] = "pending" =>
              tag_of[p] \in Tags /\ pending[tag_of[p]] = p)'
      BY IInvFacts, <3>1, <3>3 DEF Ledger
    <3>11. (\A u \in Tags : pending[u] # None =>
              /\ u < NextTag(delivery_tag) /\ conf[pending[u]] = "pending"
              /\ tag_of[pending[u]] = u /\ epoch_of[pending[u]] = epoch)'
      <4> SUFFICES ASSUME NEW u \in Tags, pending[u] # None
                   PROVE  /\ u < NextTag(delivery_tag) /\ conf'[pending[u]] = "pending"
                          /\ tag_of[pending[u]] = u /\ epoch_of[pending[u]] = epoch
        BY <3>3
      <4>1. conf'[pending[u]] = conf[pending[u]]
        BY <3>1, <3>5
      <4>2. /\ u < NextTag(delivery_tag) /\ conf[pending[u]] = "pending"
            /\ tag_of[pending[u]] = u /\ epoch_of[pending[u]] = epoch
        BY IInvFacts DEF Ledger
      <4> QED BY <4>1, <4>2
    <3> QED BY <3>6, <3>7, <3>8, <3>9, <3>10, <3>11 DEF Ledger
  <2> QED BY <1>2, <1>3, <1>4, <2>1, <2>2, <2>3, TypesUnchanged, LedgerUnchanged
             DEF IInv, TypeOK
<1> QED BY IInvFacts, <1>5, <1>6 DEF ChanType

\* Queueing a publish: push_frames or the poison.
LEMMA PushFramesIInv ==
    ASSUME IInv, NEW t \in Tasks, PushFrames(t)
    PROVE  IInv'
<1>1. UNCHANGED <<acks, rets, proms, status, confirm, receiving, poisoned, phase,
                  closer, bad_ack, job, npub, delivered, broker, aux>>
  BY DEF PushFrames
<1>2. job[t] \in Pubs
  BY IInvFacts DEF PushFrames, Jobs
<1>3. sendq' \in Seq(Pubs)
  BY IInvFacts, <1>2, AppendProperties DEF PushFrames, ChanType
<1>4. AppType'
  BY IInvFacts, <1>1 DEF PushFrames, AppType
<1>5. ChanType'
  BY IInvFacts, <1>1, <1>3 DEF ChanType
<1>6. Jobs'
  BY IInvFacts, <1>1, <1>2 DEF PushFrames, AppType, Jobs, rets
<1> QED BY <1>1, <1>4, <1>5, <1>6, TypesUnchanged, LedgerUnchanged
           DEF IInv, TypeOK, acks, proms, aux

\* A publish that fails after its registration.
LEMMA PublishFailedIInv ==
    ASSUME IInv, NEW t \in Tasks, PublishFailed(t)
    PROVE  IInv'
<1>1. UNCHANGED <<acks, current_message, non_confirm_messages, waiting_messages,
                  conf, carried, errp, chan, npub, delivered, broker, aux>>
  BY DEF PublishFailed
<1>2. job[t] \in Pubs
  BY IInvFacts DEF PublishFailed, Jobs
<1>3. /\ held' \in [Pubs -> {"none", "task", "held", "dropped", "done"}]
      /\ messages' \subseteq Pubs
  BY IInvFacts, <1>2, DroppedConfirmStep DEF PublishFailed, PromsType, RetsType
<1>4. AppType'
  BY IInvFacts, <1>1 DEF PublishFailed, AppType, None
<1>5. RetsType' /\ PromsType'
  BY IInvFacts, <1>1, <1>3 DEF RetsType, PromsType
<1>6. Jobs'
  BY IInvFacts, <1>1 DEF PublishFailed, AppType, Jobs, chan
<1> QED BY <1>1, <1>4, <1>5, <1>6, TypesUnchanged, LedgerUnchanged
           DEF IInv, TypeOK, acks, aux

\* wait_for_confirms that ends.
LEMMA WaitDoneIInv ==
    ASSUME IInv, NEW t \in Tasks, WaitDone(t)
    PROVE  IInv'
<1>1. UNCHANGED <<acks, current_message, waiting_messages, conf, carried, errp,
                  chan, npub, broker, aux>>
  BY DEF WaitDone
<1>2. /\ held' \in [Pubs -> {"none", "task", "held", "dropped", "done"}]
      /\ messages' \subseteq Pubs /\ non_confirm_messages' \subseteq Pubs
      /\ delivered' \subseteq Pubs
  BY IInvFacts, DrainStep DEF WaitDone, PromsType, RetsType, AppType
<1>3. AppType'
  BY IInvFacts, <1>1, <1>2 DEF WaitDone, AppType, None
<1>4. RetsType' /\ PromsType'
  BY IInvFacts, <1>1, <1>2 DEF RetsType, PromsType
<1>5. Jobs'
  BY IInvFacts, <1>1 DEF WaitDone, AppType, Jobs, chan
<1> QED BY <1>1, <1>3, <1>4, <1>5, TypesUnchanged, LedgerUnchanged
           DEF IInv, TypeOK, acks, aux

\* wait_for_confirms that starts.
LEMMA WaitForConfirmsIInv ==
    ASSUME IInv, NEW t \in Tasks, WaitForConfirms(t)
    PROVE  IInv'
<1>1. UNCHANGED <<delivery_tag, pending, current_message, waiting_messages, conf,
                  carried, errp, chan, npub, broker, aux>>
  BY DEF WaitForConfirms
<1>2. /\ held' \in [Pubs -> {"none", "task", "held", "dropped", "done"}]
      /\ messages' \subseteq Pubs /\ non_confirm_messages' \subseteq Pubs
      /\ delivered' \subseteq Pubs
  BY IInvFacts, DrainStep DEF WaitForConfirms, PromsType, RetsType, AppType
<1>3. last # None => last \in Pubs
  BY IInvFacts DEF AcksType, Pubs, None
<1>4. AppType'
  BY IInvFacts, <1>1, <1>2, <1>3 DEF WaitForConfirms, AppType
<1>5. AcksType'
  BY IInvFacts, <1>1 DEF WaitForConfirms, AcksType, None
<1>6. RetsType' /\ PromsType'
  BY IInvFacts, <1>1, <1>2 DEF RetsType, PromsType
<1>7. Jobs'
  BY IInvFacts, <1>1, <1>3 DEF WaitForConfirms, AppType, Jobs, chan
<1> QED BY <1>1, <1>4, <1>5, <1>6, <1>7, TypesUnchanged, LedgerUnchanged
           DEF IInv, TypeOK, aux

\* A future of the application that is dropped.
LEMMA CancelFutureIInv ==
    ASSUME IInv, NEW t \in Tasks, CancelFuture(t)
    PROVE  IInv'
<1>1. UNCHANGED <<acks, current_message, non_confirm_messages, waiting_messages,
                  conf, carried, errp, chan, npub, delivered, broker, aux>>
  BY DEF CancelFuture
<1>2. job[t] \in Pubs
  BY IInvFacts DEF CancelFuture, Jobs
<1>3. /\ held' \in [Pubs -> {"none", "task", "held", "dropped", "done"}]
      /\ messages' \subseteq Pubs
  BY IInvFacts, <1>2, DroppedConfirmStep DEF CancelFuture, PromsType, RetsType
<1>4. AppType'
  BY IInvFacts, <1>1 DEF CancelFuture, AppType, None
<1>5. RetsType' /\ PromsType'
  BY IInvFacts, <1>1, <1>3 DEF RetsType, PromsType
<1>6. Jobs'
  BY IInvFacts, <1>1 DEF CancelFuture, AppType, Jobs, chan
<1> QED BY <1>1, <1>4, <1>5, <1>6, TypesUnchanged, LedgerUnchanged
           DEF IInv, TypeOK, acks, aux

\* A confirm that is awaited.
LEMMA AwaitConfirmIInv ==
    ASSUME IInv, NEW p \in Pubs, AwaitConfirm(p)
    PROVE  IInv'
<1>1. UNCHANGED <<acks, rets, conf, carried, errp, chan, pc, job, npub, broker, aux>>
  BY DEF AwaitConfirm
<1>2. PromsType'
  BY IInvFacts, <1>1 DEF AwaitConfirm, PromsType
<1>3. carried[p] # None => carried[p] \in Pubs
  BY IInvFacts DEF PromsType, None, Pubs
<1>4. AppType'
  BY IInvFacts, <1>1, <1>3 DEF AwaitConfirm, AppType, NoMessage
<1>5. Jobs'
  BY IInvFacts, <1>1 DEF Jobs, chan, rets
<1> QED BY <1>1, <1>2, <1>4, <1>5, TypesUnchanged, LedgerUnchanged
           DEF IInv, TypeOK, acks, aux

\* A confirm that is dropped.
LEMMA DropConfirmIInv ==
    ASSUME IInv, NEW p \in Pubs, DropConfirm(p)
    PROVE  IInv'
<1>1. UNCHANGED <<acks, current_message, non_confirm_messages, waiting_messages,
                  conf, carried, errp, chan, app, broker, aux>>
  BY DEF DropConfirm
<1>2. RetsType' /\ PromsType'
  BY IInvFacts, <1>1, DroppedConfirmStep DEF DropConfirm, RetsType, PromsType
<1>3. Jobs'
  BY IInvFacts, <1>1 DEF Jobs, chan, app
<1> QED BY <1>1, <1>2, <1>3, TypesUnchanged, LedgerUnchanged
           DEF IInv, TypeOK, acks, app, aux

\* basic.return.
LEMMA BasicReturnIInv ==
    ASSUME IInv, NEW p \in Pubs, BasicReturn(p)
    PROVE  IInv'
<1>1. UNCHANGED <<acks, non_confirm_messages, waiting_messages, messages, proms,
                  status, confirm, poisoned, sendq, phase, closer, bad_ack, app,
                  session, selected, btag, btag_of, live, verdict, aux>>
  BY DEF BasicReturn
<1>2. RetsType'
  BY IInvFacts, <1>1 DEF BasicReturn, RetsType
<1>3. ChanType'
  BY IInvFacts, <1>1 DEF BasicReturn, ChanType
<1>4. BrokerType'
  BY IInvFacts, <1>1 DEF BasicReturn, BrokerType
<1>5. Jobs'
  BY IInvFacts, <1>1 DEF BasicReturn, Jobs, app
<1> QED BY <1>1, <1>2, <1>3, <1>4, <1>5, TypesUnchanged, LedgerUnchanged
           DEF IInv, TypeOK, acks, proms, app, aux

\* The IO loop's write, and the broker's read.
LEMMA WriteFramesIInv ==
    ASSUME IInv, WriteFrames
    PROVE  IInv'
<1>1. UNCHANGED <<acks, rets, conf, carried, errp, status, confirm, receiving,
                  poisoned, phase, closer, bad_ack, npub, delivered,
                  session, selected, verdict, returned, epoch, tag_of, epoch_of, faults>>
  BY DEF WriteFrames
<1>2. Head(sendq) \in Pubs /\ sendq' \in Seq(Pubs)
  BY IInvFacts, HeadTailProperties DEF WriteFrames, ChanType
<1>3. PromsType'
  BY IInvFacts, <1>1, <1>2 DEF WriteFrames, PromsType
<1>4. ChanType'
  BY IInvFacts, <1>1, <1>2 DEF ChanType
<1>5. AppType'
  BY IInvFacts, <1>1 DEF WriteFrames, AppType, None
<1>6. BrokerType'
  <2>1. /\ live' \in {live, live \cup {Head(sendq)}}
        /\ btag' \in {btag, btag + 1}
        /\ btag_of' \in {btag_of, [btag_of EXCEPT ![Head(sendq)] = btag + 1]}
    BY DEF WriteFrames
  <2> QED BY IInvFacts, <1>1, <1>2, <2>1 DEF BrokerType
<1>7. AuxType'
  <2>1. in_step' \in BOOLEAN
    BY IInvFacts DEF WriteFrames, AuxType
  <2> QED BY IInvFacts, <1>1, <2>1 DEF AuxType
<1>8. Jobs'
  BY IInvFacts, <1>1 DEF WriteFrames, AppType, Jobs, rets
<1> QED BY <1>1, <1>3, <1>4, <1>5, <1>6, <1>7, <1>8, TypesUnchanged, LedgerUnchanged
           DEF IInv, TypeOK, acks

\* The content of a returned message.
LEMMA ReturnCompleteIInv ==
    ASSUME IInv, ReturnComplete
    PROVE  IInv'
<1>1. UNCHANGED <<acks, messages, proms, status, confirm, poisoned, sendq, phase,
                  closer, bad_ack, app, broker, aux>> /\ receiving' = FALSE
  BY DEF ReturnComplete
<1>2. current_message \in Pubs
  BY IInvFacts DEF ReturnComplete, Jobs
<1>3. waiting_messages' \in Seq(Pubs)
  <2>1. \/ waiting_messages' = waiting_messages
        \/ waiting_messages' = Append(waiting_messages, current_message)
    BY DEF ReturnComplete
  <2>2. waiting_messages \in Seq(Pubs)
    BY IInvFacts DEF RetsType
  <2>3. Append(waiting_messages, current_message) \in Seq(Pubs)
    BY <1>2, <2>2, AppendProperties
  <2> QED BY <2>1, <2>2, <2>3
<1>4. RetsType'
  BY IInvFacts, <1>1, <1>2, <1>3 DEF ReturnComplete, RetsType, None
<1>5. ChanType'
  BY IInvFacts, <1>1 DEF ChanType
<1>6. Jobs'
  BY IInvFacts, <1>1 DEF Jobs, app
<1> QED BY <1>1, <1>4, <1>5, <1>6, TypesUnchanged, LedgerUnchanged
           DEF IInv, TypeOK, acks, proms, app, aux

\* basic.ack and basic.nack of one tag.
LEMMA BasicAckIInv ==
    ASSUME IInv, NEW p \in Pubs, NEW v \in Verdicts, BasicAck(p, v)
    PROVE  IInv'
<1>1. UNCHANGED <<delivery_tag, last, current_message, non_confirm_messages, messages,
                  held, status, confirm, receiving, poisoned, sendq, phase, closer,
                  app, aux, session, selected, btag, btag_of, returned>>
  BY DEF BasicAck, Settle
<1>2. BrokerType'
  BY IInvFacts, <1>1 DEF BasicAck, Settle, BrokerType
<1>3. ChanType'
  BY IInvFacts, <1>1 DEF BasicAck, ChanType
<1>4. Jobs'
  BY IInvFacts, <1>1 DEF Jobs, app
<1>5. CASE btag_of[p] \in PendingTags
  <2>1. complete_pending({btag_of[p]}, v) /\ {btag_of[p]} \in SUBSET PendingTags
    BY <1>5 DEF BasicAck
  <2>2. UNCHANGED <<delivery_tag, npub, epoch, tag_of, epoch_of>>
    BY <1>1 DEF app, aux
  <2>3. /\ pending' \in [Tags -> 0..MaxPublish]
        /\ waiting_messages' \in Seq(Pubs)
        /\ conf' \in [Pubs -> Verdicts \cup {"none", "pending", "err", "notrequested"}]
        /\ carried' \in [Pubs -> 0..MaxPublish]
        /\ errp' \in [Pubs -> {"unset", "ok", "err"}]
        /\ Ledger'
    BY <2>1, <2>2, CompletePendingStep
  <2>4. AcksType' /\ RetsType' /\ PromsType'
    BY IInvFacts, <1>1, <2>3 DEF AcksType, RetsType, PromsType
  <2> QED BY <1>1, <1>2, <1>3, <1>4, <2>3, <2>4, TypesUnchanged, LedgerUnchanged
             DEF IInv, TypeOK
<1>6. CASE btag_of[p] \notin PendingTags
  <2>1. UNCHANGED <<pending, waiting_messages, conf, carried, errp>>
    BY <1>6 DEF BasicAck
  <2> QED BY <1>1, <1>2, <1>3, <1>4, <2>1, TypesUnchanged, LedgerUnchanged
             DEF IInv, TypeOK, acks, rets, proms, app, aux
<1> QED BY <1>5, <1>6

\* basic.ack and basic.nack with multiple.
LEMMA BasicAckMultipleIInv ==
    ASSUME IInv, NEW upto \in 0..MaxPublish, NEW v \in Verdicts, BasicAckMultiple(upto, v)
    PROVE  IInv'
<1>1. UNCHANGED <<delivery_tag, last, current_message, non_confirm_messages, messages,
                  held, chan, app, aux, session, selected, btag, btag_of, returned>>
  BY DEF BasicAckMultiple, Settle
<1>2. BrokerType'
  BY IInvFacts, <1>1 DEF BasicAckMultiple, Settle, BrokerType
<1>3. Jobs'
  BY IInvFacts, <1>1 DEF Jobs, app, chan
<1>4. complete_pending(Covered(upto), v) /\ Covered(upto) \in SUBSET PendingTags
  BY DEF BasicAckMultiple, Covered
<1>5. UNCHANGED <<delivery_tag, npub, epoch, tag_of, epoch_of>>
  BY <1>1 DEF app, aux
<1>6. /\ pending' \in [Tags -> 0..MaxPublish]
      /\ waiting_messages' \in Seq(Pubs)
      /\ conf' \in [Pubs -> Verdicts \cup {"none", "pending", "err", "notrequested"}]
      /\ carried' \in [Pubs -> 0..MaxPublish]
      /\ errp' \in [Pubs -> {"unset", "ok", "err"}]
      /\ Ledger'
  BY <1>4, <1>5, CompletePendingStep
<1>7. AcksType' /\ RetsType' /\ PromsType'
  BY IInvFacts, <1>1, <1>6 DEF AcksType, RetsType, PromsType
<1> QED BY <1>1, <1>2, <1>3, <1>6, <1>7, TypesUnchanged, LedgerUnchanged DEF IInv, TypeOK

\* init_recovery.
LEMMA InitRecoveryIInv ==
    ASSUME IInv, InitRecovery
    PROVE  IInv'
<1>1. /\ UNCHANGED <<acks, rets, proms, confirm, closer, btag_of, verdict, returned,
                     job, npub, delivered, epoch, tag_of, epoch_of, in_step>>
      /\ faults' = faults + 1 /\ sendq' = << >> /\ receiving' = FALSE
  BY DEF InitRecovery, Fault, drop_frames
<1>2. sendq' \in Seq(Pubs)
  BY <1>1, EmptySeq
<1>3. ChanType'
  BY IInvFacts, <1>1, <1>2 DEF InitRecovery, ChanType
<1>4. AppType'
  BY IInvFacts, <1>1 DEF InitRecovery, drop_frames, AppType
<1>5. BrokerType'
  BY IInvFacts, <1>1 DEF InitRecovery, BrokerType
<1>6. AuxType'
  BY IInvFacts, <1>1 DEF AuxType
<1>7. Jobs'
  BY IInvFacts, <1>1 DEF InitRecovery, drop_frames, AppType, Jobs
<1> QED BY <1>1, <1>3, <1>4, <1>5, <1>6, <1>7, TypesUnchanged, LedgerUnchanged
           DEF IInv, TypeOK, acks, proms

\* The reset of the acknowledgements by a recovery.
LEMMA ResetAcknowledgementsIInv ==
    ASSUME IInv, ResetAcknowledgements
    PROVE  IInv'
<1>1. /\ UNCHANGED <<last, rets, carried, status, confirm, receiving, poisoned, sendq,
                     closer, bad_ack, app, broker, tag_of, epoch_of, in_step, faults>>
      /\ phase' = "reset" /\ epoch' = epoch + 1 /\ delivery_tag' = 0
      /\ on_channel_error(CurrentTag(0))
  BY DEF ResetAcknowledgements, reset
<1>2. /\ pending' \in [Tags -> 0..MaxPublish]
      /\ conf' \in [Pubs -> Verdicts \cup {"none", "pending", "err", "notrequested"}]
      /\ errp' \in [Pubs -> {"unset", "ok", "err"}]
      /\ held' \in [Pubs -> {"none", "task", "held", "dropped", "done"}]
      /\ Ledger'
  BY <1>1, OnChannelErrorStep DEF app
<1>3. AcksType'
  BY IInvFacts, <1>1, <1>2, ConfirmsAssumption DEF AcksType
<1>4. PromsType' /\ AuxType'
  BY IInvFacts, <1>1, <1>2 DEF PromsType, AuxType
<1>5. ChanType'
  BY IInvFacts, <1>1 DEF ChanType
<1>6. Jobs'
  BY IInvFacts, <1>1 DEF Jobs, app, rets
<1> QED BY <1>1, <1>2, <1>3, <1>4, <1>5, <1>6, TypesUnchanged, LedgerUnchanged
           DEF IInv, TypeOK

\* The later steps of a recovery.
LEMMA RecoveryStepsIInv ==
    ASSUME IInv, ReopenChannel \/ ConfirmSelect \/ FinalizeConnection
    PROVE  IInv'
<1>1. UNCHANGED <<acks, rets, proms, confirm, receiving, sendq, closer, bad_ack, app,
                  btag, btag_of, live, verdict, returned, aux>>
  BY DEF ReopenChannel, ConfirmSelect, FinalizeConnection, broker
<1>2. ChanType'
  BY IInvFacts, <1>1 DEF ReopenChannel, ConfirmSelect, FinalizeConnection, ChanType
<1>3. BrokerType'
  BY IInvFacts, <1>1
     DEF ReopenChannel, ConfirmSelect, FinalizeConnection, BrokerType, broker
<1>4. Jobs'
  BY IInvFacts, <1>1 DEF Jobs, app, rets
<1> QED BY <1>1, <1>2, <1>3, <1>4, TypesUnchanged, LedgerUnchanged
           DEF IInv, TypeOK, acks, proms, app, aux

\* What every end of a channel does to its confirms.
LEMMA ErrorConfirmsStep ==
    ASSUME IInv, ErrorConfirms, UNCHANGED <<npub, tag_of, epoch_of>>
    PROVE  AcksType' /\ RetsType' /\ PromsType' /\ Ledger' /\ UNCHANGED current_message
<1>1. UNCHANGED <<delivery_tag, last, rets, carried>>
  BY DEF ErrorConfirms
<1>2. /\ pending' \in [Tags -> 0..MaxPublish]
      /\ conf' \in [Pubs -> Verdicts \cup {"none", "pending", "err", "notrequested"}]
      /\ errp' \in [Pubs -> {"unset", "ok", "err"}]
      /\ held' \in [Pubs -> {"none", "task", "held", "dropped", "done"}]
      /\ Ledger'
  BY <1>1, OnChannelErrorStep DEF ErrorConfirms
<1>3. AcksType' /\ PromsType'
  BY IInvFacts, <1>1, <1>2 DEF AcksType, PromsType
<1> QED BY <1>1, <1>2, <1>3, TypesUnchanged DEF rets

\* The application's channel.close.
LEMMA ChannelCloseIInv ==
    ASSUME IInv, ChannelClose
    PROVE  IInv'
<1>1. /\ UNCHANGED <<acks, rets, proms, confirm, receiving, poisoned, sendq, phase,
                     bad_ack, app, broker, epoch, tag_of, epoch_of, in_step>>
      /\ faults' = faults + 1
  BY DEF ChannelClose, Fault
<1>2. ChanType' /\ AuxType'
  BY IInvFacts, <1>1 DEF ChannelClose, ChanType, AuxType
<1>3. Jobs'
  BY IInvFacts, <1>1 DEF Jobs, app, rets
<1> QED BY <1>1, <1>2, <1>3, TypesUnchanged, LedgerUnchanged
           DEF IInv, TypeOK, acks, proms, app

\* channel.close-ok.
LEMMA ChannelCloseOkIInv ==
    ASSUME IInv, ChannelCloseOk
    PROVE  IInv'
<1>1. /\ UNCHANGED <<confirm, receiving, poisoned, sendq, phase, closer, bad_ack, app,
                     selected, btag, btag_of, live, verdict, returned, aux>>
      /\ ErrorConfirms
  BY DEF ChannelCloseOk
<1>2. AcksType' /\ RetsType' /\ PromsType' /\ Ledger' /\ UNCHANGED current_message
  BY <1>1, ErrorConfirmsStep DEF app, aux
<1>3. ChanType' /\ BrokerType'
  BY IInvFacts, <1>1 DEF ChannelCloseOk, ChanType, BrokerType, Terminal
<1>4. Jobs'
  BY IInvFacts, <1>1, <1>2 DEF Jobs, app
<1> QED BY <1>1, <1>2, <1>3, <1>4, TypesUnchanged, LedgerUnchanged DEF IInv, TypeOK

\* channel.close from the broker.
LEMMA ChannelCloseReceivedIInv ==
    ASSUME IInv, NEW error \in BOOLEAN, ChannelCloseReceived(error)
    PROVE  IInv'
<1>1. /\ UNCHANGED <<confirm, receiving, poisoned, sendq, phase, bad_ack, app,
                     selected, btag, btag_of, live, verdict, returned,
                     epoch, tag_of, epoch_of, in_step>>
      /\ faults' = faults + 1
  BY DEF ChannelCloseReceived, Fault
<1>3. ChanType' /\ BrokerType' /\ AuxType'
  BY IInvFacts, <1>1 DEF ChannelCloseReceived, ChanType, BrokerType, AuxType
<1>4. AcksType' /\ RetsType' /\ PromsType' /\ Ledger' /\ UNCHANGED current_message
  <2>1. CASE error
    BY <1>1, <2>1, ErrorConfirmsStep DEF ChannelCloseReceived, app
  <2>2. CASE ~error
    BY <1>1, <2>2, TypesUnchanged, LedgerUnchanged
       DEF ChannelCloseReceived, acks, rets, proms, app
  <2> QED BY <2>1, <2>2
<1>5. Jobs'
  BY IInvFacts, <1>1, <1>4 DEF Jobs, app
<1> QED BY <1>1, <1>3, <1>4, <1>5, TypesUnchanged, LedgerUnchanged DEF IInv, TypeOK

\* The close-ok the client sends.
LEMMA ChannelCloseOkSentIInv ==
    ASSUME IInv, ChannelCloseOkSent
    PROVE  IInv'
<1>1. /\ UNCHANGED <<confirm, receiving, sendq, phase, closer, bad_ack, app, broker, aux>>
      /\ ErrorConfirms
  BY DEF ChannelCloseOkSent
<1>2. AcksType' /\ RetsType' /\ PromsType' /\ Ledger' /\ UNCHANGED current_message
  BY <1>1, ErrorConfirmsStep DEF app, aux
<1>3. ChanType'
  BY IInvFacts, <1>1 DEF ChannelCloseOkSent, ChanType, Terminal
<1>4. Jobs'
  BY IInvFacts, <1>1, <1>2 DEF Jobs, app
<1> QED BY <1>1, <1>2, <1>3, <1>4, TypesUnchanged, LedgerUnchanged DEF IInv, TypeOK

\* A connection error.
LEMMA SetConnectionErrorIInv ==
    ASSUME IInv, SetConnectionError
    PROVE  IInv'
<1>1. /\ UNCHANGED <<confirm, receiving, phase, closer, bad_ack, selected, btag, btag_of,
                     live, verdict, returned, job, npub, delivered,
                     epoch, tag_of, epoch_of, in_step>>
      /\ faults' \in {faults, faults + 1} /\ sendq' = << >> /\ ErrorConfirms
  BY DEF SetConnectionError, Fault, drop_frames, aux
<1>2. AcksType' /\ RetsType' /\ PromsType' /\ Ledger' /\ UNCHANGED current_message
  BY <1>1, ErrorConfirmsStep
<1>3. sendq' \in Seq(Pubs)
  BY <1>1, EmptySeq
<1>4. ChanType' /\ BrokerType'
  BY IInvFacts, <1>1, <1>3 DEF SetConnectionError, ChanType, BrokerType, Terminal
<1>5. AppType'
  BY IInvFacts, <1>1 DEF SetConnectionError, drop_frames, AppType
<1>6. AuxType'
  BY IInvFacts, <1>1 DEF AuxType
<1>7. Jobs'
  BY IInvFacts, <1>1, <1>2 DEF SetConnectionError, drop_frames, AppType, Jobs
<1> QED BY <1>2, <1>4, <1>5, <1>6, <1>7, TypesUnchanged, LedgerUnchanged DEF IInv, TypeOK

\* Stuttering.
LEMMA StutterIInv ==
    ASSUME IInv, UNCHANGED vars
    PROVE  IInv'
<1>1. UNCHANGED <<acks, rets, proms, chan, app, broker, aux>>
  BY DEF vars
<1>2. Jobs'
  BY IInvFacts, <1>1 DEF Jobs, app, rets, chan
<1> QED BY <1>1, <1>2, TypesUnchanged, LedgerUnchanged
           DEF IInv, TypeOK, acks, proms, app, aux

\* Every step of the model keeps the inductive invariant: one step per action,
\* and under it one per group of variables or conjunct the action disturbs.
LEMMA NextIInv == IInv /\ [Next]_vars => IInv'
<1> SUFFICES ASSUME IInv, [Next]_vars PROVE IInv'
  OBVIOUS
<1> QED
  BY BasicPublishIInv, BeforeBasicPublishIInv, PushFramesIInv, PublishFailedIInv,
     WaitDoneIInv, WaitForConfirmsIInv, CancelFutureIInv, AwaitConfirmIInv,
     DropConfirmIInv, BasicReturnIInv, WriteFramesIInv, ReturnCompleteIInv,
     BasicAckIInv, BasicAckMultipleIInv, InitRecoveryIInv, ResetAcknowledgementsIInv,
     RecoveryStepsIInv, ChannelCloseIInv, ChannelCloseOkIInv, ChannelCloseReceivedIInv,
     ChannelCloseOkSentIInv, SetConnectionErrorIInv, StutterIInv
  DEF Next, TaskStep, BrokerAnswer, Recovery, Closing, CloseAnswered

\* The inductive invariant holds in every behaviour of the code modelled.
THEOREM Invariance == Spec => []IInv
BY InitIInv, NextIInv, PTL DEF Spec

\* Type correctness: in particular next() of the delivery-tag sequence never
\* leaves the tags of the publishes made, whatever recovery resets.
THEOREM TypeCorrect == Spec => []TypeOK
<1>1. IInv => TypeOK
  BY DEF IInv
<1> QED BY <1>1, Invariance, PTL

\* An unresolved PublisherConfirm always has exactly one entry in the pending
\* map of Acknowledgements, for any number of tasks, publishes and failures.
THEOREM NoConfirmLost == Spec => []ConfirmNotLost
<1>1. IInv => ConfirmNotLost
  BY DEF IInv, Ledger, ConfirmNotLost, Pubs, None
<1> QED BY <1>1, Invariance, PTL

\* The promise of wait_for_confirms agrees with the confirm it belongs to.
THEOREM WaiterAgrees == Spec => []WokenByOwnConfirm
<1>1. IInv => WokenByOwnConfirm
  BY DEF IInv, Ledger
<1> QED BY <1>1, Invariance, PTL

\* No acknowledgement received after a recovery confirms a publish registered
\* before it: reset leaves nothing pending from an older connection.
THEOREM NoConfirmAcrossRecovery == Spec => ConfirmedInSameSession
<1>1. IInv => \A p \in Pubs : conf[p] = "pending" => epoch_of[p] = epoch
  BY DEF IInv, Ledger, Pubs, None
<1>2. IInv => [\A p \in Pubs : conf[p] = "pending" /\ conf'[p] \in Verdicts
                                  => epoch_of[p] = epoch]_vars
  BY <1>1
<1> QED BY <1>2, Invariance, PTL DEF ConfirmedInSameSession
=============================================================================
