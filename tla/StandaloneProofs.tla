-------------------------- MODULE StandaloneProofs --------------------------
(***************************************************************************)
(* Proofs about standalone training, for every input, batch size, depth of *)
(* the prefetch, budget and number of faults.                              *)
(***************************************************************************)
EXTENDS StandaloneProperties, SequenceTheorems, FiniteSetTheorems, TLAPS

-----------------------------------------------------------------------------
(* Messages and queues *)

(* A message is a kind, a number and keys.                                 *)
LEMMA MsgTypes ==
  ASSUME NEW kind \in Kinds, NEW id \in Nat, NEW keys \in SUBSET Samples
  PROVE  /\ Msg(kind, id, keys) \in Message
         /\ Msg(kind, id, keys).kind = kind
         /\ Msg(kind, id, keys).id = id
         /\ Msg(kind, id, keys).keys = keys
BY SMT DEF Msg, Message

(* A message sent, once or twice, is at the end of its queue.              *)
LEMMA Sent ==
  ASSUME NEW queue \in Seq(Message), NEW m \in Message, NEW after,
         Send(queue, m, after)
  PROVE  /\ after \in Seq(Message)
         /\ Len(after) >= Len(queue) + 1
         /\ \A i \in 1..Len(queue) : after[i] = queue[i]
         /\ \A i \in (Len(queue) + 1)..Len(after) : after[i] = m
<1>1. CASE after = Append(queue, m)
  BY <1>1, AppendProperties, SMT
<1>2. CASE after = queue \o <<m, m>>
  <2>1. <<m, m>> \in Seq(Message) /\ Len(<<m, m>>) = 2
        /\ <<m, m>>[1] = m /\ <<m, m>>[2] = m
    BY SMT
  <2>2. /\ after \in Seq(Message)
        /\ Len(after) = Len(queue) + 2
        /\ \A i \in 1..Len(after) : after[i] = IF i <= Len(queue) THEN queue[i]
                                               ELSE <<m, m>>[i - Len(queue)]
    BY <1>2, <2>1, ConcatProperties, SMT
  <2>3. \A i \in (Len(queue) + 1)..Len(after) : i - Len(queue) = 1 \/ i - Len(queue) = 2
    BY <2>2, LenProperties, SMT
  <2>. QED BY <2>1, <2>2, <2>3, LenProperties, SMT
<1>. QED BY <1>1, <1>2, Zenon DEF Send

(* A send counts at most one fault.                                        *)
LEMMA SentFaults ==
  ASSUME NEW queue, NEW m, NEW after, Send(queue, m, after), faults \in Nat
  PROVE  faults' \in Nat
BY SMT DEF Send, Fault

(* What is left of a queue when its first message is taken.                *)
LEMMA Taken ==
  ASSUME NEW queue \in Seq(Message), queue # <<>>
  PROVE  /\ Tail(queue) \in Seq(Message)
         /\ Head(queue) = queue[1] /\ Head(queue) \in Message
         /\ Len(queue) \in Nat \ {0}
         /\ Len(Tail(queue)) = Len(queue) - 1
         /\ \A i \in 1..(Len(queue) - 1) : Tail(queue)[i] = queue[i + 1]
BY HeadTailProperties, LenProperties, EmptySeq, SMT

-----------------------------------------------------------------------------
(* Types *)

(* Every variable has its type at the first launch.                        *)
LEMMA TypeInit == Init => TypeOK
<1>. SUFFICES ASSUME Init PROVE TypeOK
  OBVIOUS
<1>1. ChannelsTypeOK
  <2>1. paused \in BOOLEAN /\ transport \in Transports /\ faults \in Nat /\ tq \subseteq Samples
    <3>1. faults \in Nat
      BY SMT DEF Init
    <3>. QED BY <3>1, Zenon DEF Init, ChannelsInit
  <2>2. events \in Seq(Message) /\ commands \in Seq(Message)
    BY EmptySeq, Zenon DEF Init, ChannelsInit
  <2>. QED BY <2>1, <2>2, Zenon DEF Init, ChannelsInit, ChannelsTypeOK
<1>2. ProducerTypeOK
  BY SMT DEF Init, ProducerInit, ProducerTypeOK
<1>3. SchedulerTypeOK
  <2>1. /\ consumerReady \in BOOLEAN /\ refreshed \in BOOLEAN /\ producerGone \in BOOLEAN
        /\ consumerGone \in BOOLEAN /\ producerDone \in BOOLEAN
    BY Zenon DEF Init, SchedulerInit
  <2>2. plans \in Seq(SUBSET Samples)
    BY EmptySeq, Zenon DEF Init, SchedulerInit
  <2>3. /\ drv = "plan" /\ {ready, seen, dropped} \subseteq SUBSET Samples
        /\ hint \in Int /\ {completed, lastTotal, lastBatch, initialStep} \subseteq Nat
    BY SMT DEF Init, SchedulerInit
  <2>. QED BY <2>1, <2>2, <2>3, Zenon DEF SchedulerTypeOK
<1>4. ConsumerTypeOK
  <2>1. cur \in Message
    BY MsgTypes, SMT DEF Init, ConsumerInit, None, Kinds
  <2>2. ckpt \in Checkpoint
    BY SMT DEF Init, ConsumerInit, Checkpoint
  <2>3. fetched \in Seq(Message) /\ finals \in Seq(Message)
    BY EmptySeq, Zenon DEF Init, ConsumerInit
  <2>4. sourceDone \in BOOLEAN /\ cleared \in BOOLEAN /\ due \in BOOLEAN
    BY Zenon DEF Init, ConsumerInit
  <2>5. /\ lastPlan \in Nat /\ optStep \in Nat /\ consumed \subseteq Samples
        /\ saving = NoSave /\ model \in [Samples -> Nat]
    BY SMT DEF Init, ConsumerInit
  <2>. QED BY <2>1, <2>2, <2>3, <2>4, <2>5, Zenon DEF ConsumerTypeOK
<1>. QED BY <1>1, <1>2, <1>3, <1>4 DEF TypeOK

(* A step of the producer keeps the types.                                 *)
LEMMA ProduceTypes ==
  ASSUME TypeOK, Produce
  PROVE  TypeOK'
<1>1. SchedulerTypeOK' /\ ConsumerTypeOK'
  BY SMT DEF TypeOK, Produce, SchedulerTypeOK, ConsumerTypeOK, schedulerVars, consumerVars
<1>. USE DEF TypeOK, ChannelsTypeOK, ProducerTypeOK
<1>2. CASE Request
  BY <1>1, <1>2, SMT DEF Request, channelVars
<1>3. ASSUME NEW s \in Samples, Drop(s) \/ PublishOne(s) PROVE TypeOK'
  BY <1>1, <1>3, SMT DEF Drop, PublishOne, Put, Fault
<1>4. ASSUME NEW s \in Samples, PublishAmbiguous(s) \/ PublishFails(s) PROVE TypeOK'
  BY <1>1, <1>4, SMT DEF PublishAmbiguous, PublishFails, Put, Fault
<1>5. CASE Notify
  <2>1. Msg("published", published, {}) \in Message
    BY MsgTypes DEF Kinds
  <2>2. events' \in Seq(Message) /\ commands' = commands /\ faults' \in Nat
    BY <1>5, <2>1, Sent, SentFaults DEF Notify, PutEvent
  <2>. QED BY <1>1, <1>5, <2>2, SMT DEF Notify
<1>6. CASE SubmitReferences
  <2>1. PICK keys \in SUBSET asked :
          /\ PutEvent(Msg("samples", batchId + 1, keys))
          /\ asked' = asked \ keys
          /\ handed' = handed \union keys
    BY <1>6 DEF SubmitReferences
  <2>2. Msg("samples", batchId + 1, keys) \in Message
    <3>1. batchId + 1 \in Nat /\ keys \in SUBSET Samples
      BY SMT
    <3>. QED BY <3>1, MsgTypes, Zenon DEF Kinds
  <2>3. events' \in Seq(Message) /\ commands' = commands /\ faults' \in Nat
    BY <2>1, <2>2, Sent, SentFaults DEF PutEvent
  <2>. QED BY <1>1, <1>6, <2>1, <2>3, SMT DEF SubmitReferences
<1>7. CASE Drained \/ DrainTimeout
  BY <1>1, <1>7, SMT DEF Drained, DrainTimeout, Return, producerVars
<1>8. CASE ReturnReferences
  <2>1. Msg("producer_done", 0, {}) \in Message
    BY MsgTypes DEF Kinds
  <2>2. events' \in Seq(Message) /\ commands' = commands /\ faults' \in Nat
    BY <1>8, <2>1, Sent, SentFaults DEF ReturnReferences, PutEvent
  <2>. QED BY <1>1, <1>8, <2>2, SMT DEF ReturnReferences, producerVars
<1>. QED BY <1>2, <1>3, <1>4, <1>5, <1>6, <1>7, <1>8 DEF Produce, ProducerStep

(* What is ready after a listing are samples.                              *)
LEMMA ConfirmedTypes ==
  ASSUME TypeOK
  PROVE  Confirmed \subseteq Samples
BY SMT DEF TypeOK, ChannelsTypeOK, SchedulerTypeOK, Confirmed

(* The gate is open or shut.                                               *)
LEMMA GateTypes ==
  ASSUME NEW level \in Int, paused \in BOOLEAN, NEW done \in BOOLEAN
  PROVE  Gate(level, done) \in BOOLEAN
<1>1. CASE done
  BY <1>1, Zenon DEF Gate
<1>2. CASE ~done /\ level >= High
  BY <1>2, Zenon DEF Gate
<1>3. CASE ~done /\ ~(level >= High) /\ level <= Low
  BY <1>3, Zenon DEF Gate
<1>4. CASE ~done /\ ~(level >= High) /\ ~(level <= Low)
  BY <1>4, Zenon DEF Gate
<1>. QED BY <1>1, <1>2, <1>3, <1>4

(* A reconciliation keeps the types.                                       *)
LEMMA ReconcileTypes ==
  ASSUME NEW level \in Int, paused \in BOOLEAN, NEW done \in BOOLEAN,
         Reconcile(level, done)
  PROVE  /\ hint' \in Int /\ drv' = "plan"
         /\ producerDone' \in BOOLEAN /\ paused' \in BOOLEAN /\ refreshed' \in BOOLEAN
<1>1. paused' \in BOOLEAN
  BY GateTypes, SMT DEF Reconcile
<1>. QED BY <1>1, Zenon DEF Reconcile

(* A step of the driver that takes no event keeps the types.               *)
LEMMA DriveTypes ==
  ASSUME TypeOK, UNCHANGED <<producerVars, consumerVars>>,
         \/ Dispatch \/ StopAtBudget \/ StopAtTail \/ KeepWaiting
         \/ ProducerReturned \/ ProducerRaised \/ ConsumerRaised
         \/ Finish \/ ConsumerReturned(optStep)
  PROVE  TypeOK'
<1>1. ProducerTypeOK' /\ ConsumerTypeOK'
  BY SMT DEF TypeOK, ProducerTypeOK, ConsumerTypeOK, producerVars, consumerVars
<1>2. Confirmed \subseteq Samples
  BY ConfirmedTypes
<1>. USE DEF TypeOK, ChannelsTypeOK, SchedulerTypeOK
<1>3. CASE Dispatch
  <2>1. PICK keys \in SUBSET Confirmed :
          /\ plans' = Append(plans, keys)
          /\ ready' = Confirmed \ keys
          /\ PutCommand(Msg("batch", Len(plans) + 1, keys))
    BY <1>3 DEF Dispatch
  <2>2. plans' \in Seq(SUBSET Samples) /\ Len(plans) \in Nat
    BY <1>2, <2>1, AppendProperties, LenProperties
  <2>3. Msg("batch", Len(plans) + 1, keys) \in Message
    BY <1>2, <2>2, MsgTypes, SMT DEF Kinds
  <2>4. commands' \in Seq(Message) /\ events' = events /\ faults' \in Nat
    BY <2>1, <2>3, Sent, SentFaults DEF PutCommand
  <2>5. refreshed' \in BOOLEAN
    BY <1>3, Zenon DEF Dispatch
  <2>. QED BY <1>1, <1>2, <1>3, <2>1, <2>2, <2>4, <2>5, SMT DEF Dispatch, newsVars
<1>4. CASE StopAtBudget \/ StopAtTail
  <2>1. Msg("stop", 0, {}) \in Message
    BY MsgTypes DEF Kinds
  <2>2. commands' \in Seq(Message) /\ events' = events /\ faults' \in Nat
    BY <1>4, <2>1, Sent, SentFaults DEF StopAtBudget, StopAtTail, PutCommand
  <2>. QED BY <1>1, <1>2, <1>4, <2>2, SMT DEF StopAtBudget, StopAtTail, newsVars
<1>5. CASE KeepWaiting
  <2>1. drv' = "wait" /\ ready' = Confirmed /\ refreshed' \in BOOLEAN
    BY <1>5, Zenon DEF KeepWaiting
  <2>. QED BY <1>1, <1>2, <1>5, <2>1, SMT DEF KeepWaiting, channelVars, newsVars
<1>6. CASE ProducerReturned
  <2>1. CASE transport = "tq"
    <3>1. Reconcile(hint, TRUE)
      BY <1>6, <2>1, Zenon DEF ProducerReturned
    <3>2. /\ hint' \in Int /\ drv' = "plan"
          /\ producerDone' \in BOOLEAN /\ paused' \in BOOLEAN /\ refreshed' \in BOOLEAN
      BY <3>1, ReconcileTypes
    <3>. QED BY <1>1, <1>6, <3>2, SMT DEF ProducerReturned
  <2>2. CASE transport # "tq"
    BY <1>1, <1>6, <2>2, SMT DEF ProducerReturned
  <2>. QED BY <2>1, <2>2
<1>7. CASE ProducerRaised \/ ConsumerRaised
  BY <1>1, <1>7, SMT DEF ProducerRaised, ConsumerRaised, schedulerVars
<1>8. CASE ConsumerReturned(optStep)
  <2>1. run' \in {run, "confused"} /\ consumerGone' \in BOOLEAN
    BY <1>8, Zenon DEF ConsumerReturned
  <2>. QED BY <1>1, <1>8, <2>1, SMT DEF ConsumerReturned
<1>9. CASE Finish
  BY <1>1, <1>9, SMT DEF Finish, newsVars
<1>. QED BY <1>3, <1>4, <1>5, <1>6, <1>7, <1>8, <1>9

(* The driver keeps the types when it takes an event.                      *)
LEMMA TakeTypes ==
  ASSUME TypeOK, UNCHANGED <<producerVars, consumerVars>>,
         \/ OnReady \/ OnPublished \/ OnSamples \/ OnProducerDone
         \/ OnCompletedAgain \/ OnCompleted
  PROVE  TypeOK'
<1>1. ProducerTypeOK' /\ ConsumerTypeOK'
  BY SMT DEF TypeOK, ProducerTypeOK, ConsumerTypeOK, producerVars, consumerVars
<1>2. /\ Head(events) \in Message /\ events' \in Seq(Message)
      /\ UNCHANGED <<transport, producer, consumer, tq, commands, faults>>
  BY Taken DEF OnReady, OnPublished, OnSamples, OnProducerDone, OnCompletedAgain,
     OnCompleted, Take, TypeOK, ChannelsTypeOK
<1>3. Head(events).id \in Nat /\ Head(events).keys \subseteq Samples
  BY <1>2, SMT DEF Message
<1>. USE DEF TypeOK, ChannelsTypeOK, SchedulerTypeOK
<1>4. CASE OnReady
  <2>1. /\ hint' \in Int /\ drv' = "plan"
        /\ producerDone' \in BOOLEAN /\ paused' \in BOOLEAN /\ refreshed' \in BOOLEAN
    BY <1>4, ReconcileTypes, SMT DEF OnReady
  <2>. QED BY <1>1, <1>2, <1>3, <1>4, <2>1, SMT DEF OnReady
<1>5. CASE OnPublished
  <2>1. CASE Head(events).id <= lastTotal
    BY <1>1, <1>2, <1>5, <2>1, SMT DEF OnPublished
  <2>2. CASE ~(Head(events).id <= lastTotal)
    <3>1. hint + (Head(events).id - lastTotal) \in Int
      BY <1>3, SMT
    <3>2. /\ lastTotal' = Head(events).id
          /\ Reconcile(hint + (Head(events).id - lastTotal), producerDone)
      BY <1>5, <2>2, Zenon DEF OnPublished
    <3>3. /\ hint' \in Int /\ drv' = "plan"
          /\ producerDone' \in BOOLEAN /\ paused' \in BOOLEAN /\ refreshed' \in BOOLEAN
      BY <3>1, <3>2, ReconcileTypes, SMT
    <3>. QED BY <1>1, <1>2, <1>3, <1>5, <3>2, <3>3, SMTT(30) DEF OnPublished
  <2>. QED BY <2>1, <2>2
<1>6. CASE OnSamples
  <2>. DEFINE incoming == Head(events).keys \ seen
  <2>1. CASE Head(events).id <= lastBatch
    BY <1>1, <1>2, <1>6, <2>1, SMT DEF OnSamples
  <2>2. CASE ~(Head(events).id <= lastBatch)
    <3>1. /\ run' = IF Head(events).id = lastBatch + 1 THEN run ELSE "confused"
          /\ lastBatch' = Head(events).id
          /\ seen' = seen \union incoming
          /\ ready' = (ready \union incoming) \ Reserved
          /\ Reconcile(hint + Cardinality(incoming), producerDone)
      BY <1>6, <2>2, Zenon DEF OnSamples
    <3>2. hint + Cardinality(incoming) \in Int
      <4>1. IsFiniteSet(Samples)
        <5>1. 0 \in Int /\ NumSamples - 1 \in Int
          BY SizesAssumption, SMT
        <5>. QED BY <5>1, FS_Interval, Zenon DEF Samples
      <4>2. Cardinality(incoming) \in Nat
        BY <1>3, <4>1, FS_Subset, FS_CardinalityType
      <4>. QED BY <4>2, SMT
    <3>3. /\ hint' \in Int /\ drv' = "plan"
          /\ producerDone' \in BOOLEAN /\ paused' \in BOOLEAN /\ refreshed' \in BOOLEAN
      BY <3>1, <3>2, ReconcileTypes, SMT
    <3>. QED BY <1>1, <1>2, <1>3, <1>6, <3>1, <3>3, SMTT(30) DEF OnSamples
  <2>. QED BY <2>1, <2>2
<1>7. CASE OnProducerDone
  <2>1. /\ hint' \in Int /\ drv' = "plan"
        /\ producerDone' \in BOOLEAN /\ paused' \in BOOLEAN /\ refreshed' \in BOOLEAN
    <3>1. Reconcile(hint, TRUE)
      BY <1>7, Zenon DEF OnProducerDone
    <3>. QED BY <3>1, ReconcileTypes
  <2>. QED BY <1>1, <1>2, <1>7, <2>1, SMT DEF OnProducerDone, newsVars
<1>8. CASE OnCompletedAgain
  BY <1>1, <1>2, <1>8, SMT DEF OnCompletedAgain, schedulerVars
<1>9. CASE OnCompleted
  <2>1. HintAfterCompletion \in Int
    BY SizesAssumption, SMT DEF HintAfterCompletion
  <2>2. /\ hint' \in Int /\ drv' = "plan"
        /\ producerDone' \in BOOLEAN /\ paused' \in BOOLEAN /\ refreshed' \in BOOLEAN
    <3>1. Reconcile(HintAfterCompletion, producerDone)
      BY <1>9, Zenon DEF OnCompleted
    <3>. QED BY <2>1, <3>1, ReconcileTypes
  <2>3. run' \in {"up", "down", "confused"} /\ completed' = completed + 1
    BY <1>9, Zenon DEF OnCompleted
  <2>. QED BY <1>1, <1>2, <1>9, <2>2, <2>3, SMT DEF OnCompleted, newsVars
<1>. QED BY <1>4, <1>5, <1>6, <1>7, <1>8, <1>9

(* A step of the consumer keeps the types.                                 *)
LEMMA ConsumeTypes ==
  ASSUME TypeOK, Consume
  PROVE  TypeOK'
<1>1. ProducerTypeOK' /\ SchedulerTypeOK'
  BY SMT DEF TypeOK, Consume, ProducerTypeOK, SchedulerTypeOK, producerVars, schedulerVars
<1>. USE DEF TypeOK, ChannelsTypeOK, ConsumerTypeOK
<1>2. CASE Start
  <2>1. Msg("ready", optStep, {}) \in Message
    BY MsgTypes DEF Kinds
  <2>2. events' \in Seq(Message) /\ commands' = commands /\ faults' \in Nat
    BY <1>2, <2>1, Sent, SentFaults DEF Start, PutEvent
  <2>. QED BY <1>1, <1>2, <2>2, SMT DEF Start, consumerVars
<1>3. CASE SkipCommand \/ Fetch \/ TakeStop
  <2>1. /\ Head(commands) \in Message /\ commands' \in Seq(Message)
        /\ UNCHANGED <<transport, run, producer, paused, tq, events, faults, cur,
                       finals, cleared, optStep, consumed, due, saving, model, ckpt>>
    BY <1>3, Taken DEF SkipCommand, Fetch, TakeStop, TakeCommand
  <2>2. CASE SkipCommand
    BY <1>1, <2>1, <2>2, SMT DEF SkipCommand
  <2>3. CASE Fetch
    <3>1. lastPlan' \in Nat
      BY <2>1, <2>3, SMTT(30) DEF Fetch, Message
    <3>2. fetched' \in Seq(Message)
      BY <2>1, <2>3, AppendProperties DEF Fetch
    <3>3. consumer' \in {"lost", consumer} /\ sourceDone' = sourceDone
      BY <2>3, Zenon DEF Fetch
    <3>. QED BY <1>1, <2>1, <3>1, <3>2, <3>3, SMT
  <2>4. CASE TakeStop
    <3>1. sourceDone' \in BOOLEAN
      BY <2>4, Zenon DEF TakeStop
    <3>. QED BY <1>1, <2>1, <2>4, <3>1, SMT DEF TakeStop
  <2>. QED BY <1>3, <2>2, <2>3, <2>4
<1>4. CASE Train
  <2>1. Head(fetched) \in Message /\ fetched' \in Seq(Message)
    BY <1>4, Taken DEF Train
  <2>2. cur' \in Message /\ finals' \in Seq(Message)
    BY <1>4, <2>1, AppendProperties DEF Train
  <2>3. model' \in [Samples -> Nat]
    BY <1>4, <2>1, SMT DEF Train, Message
  <2>. QED BY <1>1, <1>4, <2>1, <2>2, <2>3, SMT DEF Train, channelVars
<1>5. CASE Fail
  BY <1>1, <1>5, SMT DEF Fail, Fault, consumerVars
<1>6. CASE Account
  <2>1. None \in Message
    BY MsgTypes DEF None, Kinds
  <2>2. due' \in BOOLEAN
    BY <1>6, Zenon DEF Account
  <2>. QED BY <1>1, <1>6, <2>1, <2>2, SMT DEF Account, channelVars, Message
<1>7. CASE Clear
  <2>1. cleared' \in BOOLEAN
    BY <1>7, Zenon DEF Clear
  <2>. QED BY <1>1, <1>7, <2>1, SMT DEF Clear
<1>8. CASE Announce
  <2>1. Head(finals) \in Message /\ finals' \in Seq(Message)
    BY <1>8, Taken DEF Announce
  <2>2. Msg("completed", Head(finals).id, Head(finals).keys) \in Message
    <3>1. Head(finals).id \in Nat /\ Head(finals).keys \in SUBSET Samples
      BY <2>1, SMT DEF Message
    <3>. QED BY <3>1, MsgTypes, Zenon DEF Kinds
  <2>3. events' \in Seq(Message) /\ commands' = commands /\ faults' \in Nat
    BY <1>8, <2>2, Sent, SentFaults DEF Announce, PutEvent
  <2>4. cleared' \in BOOLEAN
    BY <1>8, Zenon DEF Announce
  <2>. QED BY <1>1, <1>8, <2>1, <2>3, <2>4, SMT DEF Announce
<1>9. Snapshot \in Checkpoint
  BY SMT DEF Snapshot, Checkpoint
<1>10. CASE Save
  <2>1. due' \in BOOLEAN
    BY <1>10, Zenon DEF Save
  <2>2. saving' \in Checkpoint
    BY <1>9, <1>10, Zenon DEF Save
  <2>. QED BY <1>1, <1>10, <2>1, <2>2, SMT DEF Save, channelVars
<1>11. CASE FinalizeSave
  <2>1. ckpt' \in Checkpoint /\ saving' = NoSave
    BY <1>11, Zenon DEF FinalizeSave, Written
  <2>. QED BY <1>1, <1>11, <2>1, SMT DEF FinalizeSave, channelVars
<1>12. CASE End
  <2>1. ckpt' \in Checkpoint
    BY <1>9, <1>12, Zenon DEF End
  <2>. QED BY <1>1, <1>12, <2>1, SMT DEF End
<1>. QED BY <1>2, <1>3, <1>4, <1>5, <1>6, <1>7, <1>8, <1>10, <1>11, <1>12
         DEF Consume, ConsumerStep

(* The next launch has its types.                                          *)
LEMMA RelaunchTypes ==
  ASSUME TypeOK, Relaunch
  PROVE  TypeOK'
<1>1. /\ ChannelsRelaunch /\ ProducerRelaunch(ckpt.consumed) /\ SchedulerRelaunch
      /\ ConsumerRelaunch
  BY DEF Relaunch
<1>2. ChannelsTypeOK'
  <2>1. faults' \in Nat
    BY SMT DEF Relaunch, Fault, TypeOK, ChannelsTypeOK
  <2>2. events' \in Seq(Message) /\ commands' \in Seq(Message)
    BY <1>1, EmptySeq, Zenon DEF ChannelsRelaunch
  <2>3. /\ transport' = transport /\ run' = "up" /\ producer' = "running"
        /\ consumer' = "starting" /\ paused' \in BOOLEAN /\ tq' = {}
    BY <1>1, Zenon DEF ChannelsRelaunch
  <2>. QED BY <2>1, <2>2, <2>3, SMT DEF TypeOK, ChannelsTypeOK
<1>3. ProducerTypeOK'
  BY <1>1, SMT DEF ProducerRelaunch, TypeOK, ProducerTypeOK
<1>4. SchedulerTypeOK'
  <2>1. /\ consumerReady' \in BOOLEAN /\ refreshed' \in BOOLEAN /\ producerGone' \in BOOLEAN
        /\ consumerGone' \in BOOLEAN /\ producerDone' \in BOOLEAN
    BY <1>1, Zenon DEF SchedulerRelaunch
  <2>2. plans' \in Seq(SUBSET Samples)
    BY <1>1, EmptySeq, Zenon DEF SchedulerRelaunch
  <2>3. /\ drv' = "plan" /\ {ready', seen', dropped'} \subseteq SUBSET Samples
        /\ hint' \in Int /\ {completed', lastTotal', lastBatch', initialStep'} \subseteq Nat
    BY <1>1, SMT DEF SchedulerRelaunch
  <2>. QED BY <2>1, <2>2, <2>3, Zenon DEF SchedulerTypeOK
<1>5. ConsumerTypeOK'
  <2>1. cur' \in Message
    BY <1>1, MsgTypes DEF ConsumerRelaunch, None, Kinds
  <2>2. fetched' \in Seq(Message) /\ finals' \in Seq(Message)
    BY <1>1, EmptySeq, Zenon DEF ConsumerRelaunch
  <2>3. sourceDone' \in BOOLEAN /\ cleared' \in BOOLEAN /\ due' \in BOOLEAN
    BY <1>1, Zenon DEF ConsumerRelaunch
  <2>4. /\ lastPlan' \in Nat /\ optStep' \in Nat /\ consumed' \subseteq Samples
        /\ saving' = NoSave /\ model' \in [Samples -> Nat] /\ ckpt' \in Checkpoint
    BY <1>1, SMT DEF ConsumerRelaunch, TypeOK, ConsumerTypeOK, Checkpoint
  <2>. QED BY <2>1, <2>2, <2>3, <2>4, Zenon DEF ConsumerTypeOK
<1>. QED BY <1>2, <1>3, <1>4, <1>5 DEF TypeOK

(* Every step keeps the types.                                             *)
LEMMA TypeStep == TypeOK /\ [Next]_vars => TypeOK'
<1>. SUFFICES ASSUME TypeOK, [Next]_vars PROVE TypeOK'
  OBVIOUS
<1>1. CASE Produce
  BY <1>1, ProduceTypes
<1>2. CASE Schedule
  BY <1>2, DriveTypes, TakeTypes, Zenon DEF Schedule, SchedulerStep
<1>3. CASE Consume
  BY <1>3, ConsumeTypes
<1>4. CASE Relaunch
  BY <1>4, RelaunchTypes
<1>5. CASE UNCHANGED vars
  BY <1>5, SMT DEF vars, channelVars, producerVars, schedulerVars, consumerVars, TypeOK,
     ChannelsTypeOK, ProducerTypeOK, SchedulerTypeOK, ConsumerTypeOK
<1>. QED BY <1>1, <1>2, <1>3, <1>4, <1>5 DEF Next

(* Every state of standalone training has its type.                        *)
THEOREM StandaloneTypes == Spec => []TypeOK
<1>. QED BY TypeInit, TypeStep, PTL DEF Spec

-----------------------------------------------------------------------------
(* Queues that carry numbers in order                                      *)

(* Another message changes nothing for a kind.                             *)
LEMMA CarriesOther ==
  ASSUME NEW queue \in Seq(Message), NEW m \in Message, NEW after, Send(queue, m, after),
         NEW kind, m.kind # kind, NEW from \in Nat, NEW to \in Nat,
         Carries(queue, kind, from, to)
  PROVE  Carries(after, kind, from, to)
<1>1. /\ Len(after) \in Nat /\ Len(queue) \in Nat /\ Len(after) >= Len(queue) + 1
      /\ \A i \in 1..Len(queue) : after[i] = queue[i]
      /\ \A i \in (Len(queue) + 1)..Len(after) : after[i] = m
  BY Sent, LenProperties
<1>2. \A i \in 1..Len(after) : after[i].kind = kind => i \in 1..Len(queue)
  BY <1>1, SMT
<1>3. ASSUME NEW i \in 1..Len(after), after[i].kind = kind
      PROVE  /\ after[i].id \in 1..to
             /\ after[i].id > from + 1 =>
                  \E j \in 1..(i - 1) : after[j].kind = kind /\ after[j].id = after[i].id - 1
  <2>1. i \in 1..Len(queue) /\ after[i] = queue[i]
    BY <1>1, <1>2, <1>3
  <2>2. /\ queue[i].id \in 1..to
        /\ queue[i].id > from + 1 =>
             \E j \in 1..(i - 1) : queue[j].kind = kind /\ queue[j].id = queue[i].id - 1
    BY <1>3, <2>1, Zenon DEF Carries
  <2>3. \A j \in 1..(i - 1) : after[j] = queue[j]
    BY <1>1, <2>1, SMT
  <2>. QED BY <2>1, <2>2, <2>3
<1>4. ASSUME NEW n \in (from + 1)..to
      PROVE  \E i \in 1..Len(after) : after[i].kind = kind /\ after[i].id = n
  <2>1. PICK i \in 1..Len(queue) : queue[i].kind = kind /\ queue[i].id = n
    BY DEF Carries
  <2>. QED BY <1>1, <2>1, SMT
<1>. QED BY <1>3, <1>4 DEF Carries

(* The next number prolongs what the queue carries.                        *)
LEMMA CarriesNext ==
  ASSUME NEW queue \in Seq(Message), NEW m \in Message, NEW after, Send(queue, m, after),
         NEW kind, m.kind = kind, NEW from \in Nat, NEW to \in Nat, from <= to,
         m.id = to + 1, Carries(queue, kind, from, to)
  PROVE  Carries(after, kind, from, to + 1)
<1>1. /\ Len(after) \in Nat /\ Len(queue) \in Nat /\ Len(after) >= Len(queue) + 1
      /\ \A i \in 1..Len(queue) : after[i] = queue[i]
      /\ \A i \in (Len(queue) + 1)..Len(after) : after[i] = m
  BY Sent, LenProperties
<1>2. ASSUME NEW i \in 1..Len(after), after[i].kind = kind
      PROVE  /\ after[i].id \in 1..(to + 1)
             /\ after[i].id > from + 1 =>
                  \E j \in 1..(i - 1) : after[j].kind = kind /\ after[j].id = after[i].id - 1
  <2>1. CASE i \in 1..Len(queue)
    <3>1. after[i] = queue[i]
      BY <1>1, <2>1
    <3>2. /\ queue[i].id \in 1..to
          /\ queue[i].id > from + 1 =>
               \E j \in 1..(i - 1) : queue[j].kind = kind /\ queue[j].id = queue[i].id - 1
      BY <1>2, <2>1, <3>1, Zenon DEF Carries
    <3>3. \A j \in 1..(i - 1) : after[j] = queue[j]
      BY <1>1, <2>1, SMT
    <3>4. queue[i].id \in 1..(to + 1)
      BY <3>2, SMT
    <3>. QED BY <3>1, <3>2, <3>3, <3>4
  <2>2. CASE i \in (Len(queue) + 1)..Len(after)
    <3>1. after[i].id = to + 1
      BY <1>1, <2>2
    <3>2. ASSUME to + 1 > from + 1
          PROVE  \E j \in 1..(i - 1) : after[j].kind = kind /\ after[j].id = to
      <4>1. PICK j \in 1..Len(queue) : queue[j].kind = kind /\ queue[j].id = to
        BY <3>2, SMT DEF Carries
      <4>2. j \in 1..(i - 1) /\ after[j].kind = kind /\ after[j].id = to
        BY <1>1, <2>2, <4>1, SMT
      <4>. QED BY <4>2
    <3>. QED BY <3>1, <3>2, SMT
  <2>. QED BY <1>1, <2>1, <2>2, SMT
<1>3. ASSUME NEW n \in (from + 1)..(to + 1)
      PROVE  \E i \in 1..Len(after) : after[i].kind = kind /\ after[i].id = n
  <2>1. CASE n = to + 1
    <3>1. Len(queue) + 1 \in 1..Len(after) /\ after[Len(queue) + 1] = m
      BY <1>1, SMT
    <3>. QED BY <2>1, <3>1
  <2>2. CASE n # to + 1
    <3>1. n \in (from + 1)..to
      BY <2>2, SMT
    <3>2. PICK i \in 1..Len(queue) : queue[i].kind = kind /\ queue[i].id = n
      BY <3>1 DEF Carries
    <3>3. i \in 1..Len(after) /\ after[i] = queue[i]
      BY <1>1, <3>2, SMT
    <3>. QED BY <3>2, <3>3
  <2>. QED BY <2>1, <2>2
<1>. QED BY <1>2, <1>3 DEF Carries

(* Taking another message, or an old number, changes nothing.              *)
LEMMA CarriesOn ==
  ASSUME NEW queue \in Seq(Message), queue # <<>>, NEW kind,
         NEW from \in Nat, NEW to \in Nat, Carries(queue, kind, from, to),
         Head(queue).kind = kind => Head(queue).id <= from
  PROVE  Carries(Tail(queue), kind, from, to)
<1>. DEFINE rest == Tail(queue)
<1>1. /\ Head(queue) = queue[1] /\ Len(queue) \in Nat \ {0} /\ Len(rest) = Len(queue) - 1
      /\ \A i \in 1..(Len(queue) - 1) : rest[i] = queue[i + 1]
      /\ \A i \in 1..Len(queue) : queue[i].id \in Nat
  <2>1. \A i \in 1..Len(queue) : queue[i] \in Message
    BY ElementOfSeq
  <2>. QED BY <2>1, Taken, SMT DEF Message
<1>2. ASSUME NEW i \in 1..Len(rest), rest[i].kind = kind
      PROVE  /\ rest[i].id \in 1..to
             /\ rest[i].id > from + 1 =>
                  \E j \in 1..(i - 1) : rest[j].kind = kind /\ rest[j].id = rest[i].id - 1
  <2>1. i + 1 \in 1..Len(queue) /\ queue[i + 1] = rest[i]
    BY <1>1, SMT
  <2>2. /\ rest[i].id \in 1..to
        /\ rest[i].id > from + 1 =>
             \E j \in 1..i : queue[j].kind = kind /\ queue[j].id = rest[i].id - 1
    <3>1. (i + 1) - 1 = i
      BY <1>1, SMT
    <3>. QED BY <1>2, <2>1, <3>1 DEF Carries
  <2>3. ASSUME rest[i].id > from + 1
        PROVE  \E j \in 1..(i - 1) : rest[j].kind = kind /\ rest[j].id = rest[i].id - 1
    <3>1. PICK j \in 1..i : queue[j].kind = kind /\ queue[j].id = rest[i].id - 1
      BY <2>2, <2>3
    <3>2. j # 1
      BY <1>1, <2>2, <2>3, <3>1, SMT
    <3>3. j - 1 \in 1..(i - 1) /\ rest[j - 1] = queue[j]
      BY <1>1, <2>1, <3>1, <3>2, SMT
    <3>. QED BY <3>1, <3>3
  <2>. QED BY <2>2, <2>3
<1>3. ASSUME NEW n \in (from + 1)..to
      PROVE  \E i \in 1..Len(rest) : rest[i].kind = kind /\ rest[i].id = n
  <2>1. PICK i \in 1..Len(queue) : queue[i].kind = kind /\ queue[i].id = n
    BY DEF Carries
  <2>2. i # 1
    BY <1>1, <2>1, SMT
  <2>3. i - 1 \in 1..Len(rest) /\ rest[i - 1] = queue[i]
    BY <1>1, <2>1, <2>2, SMT
  <2>. QED BY <2>1, <2>3
<1>. QED BY <1>2, <1>3 DEF Carries

(* The first new number in a queue is the next.                            *)
LEMMA CarriesTaken ==
  ASSUME NEW queue \in Seq(Message), queue # <<>>, NEW kind,
         NEW from \in Nat, NEW to \in Nat, Carries(queue, kind, from, to),
         Head(queue).kind = kind, Head(queue).id > from
  PROVE  /\ Head(queue).id = from + 1 /\ from + 1 <= to
         /\ Carries(Tail(queue), kind, from + 1, to)
<1>1. Head(queue) = queue[1] /\ Len(queue) \in Nat \ {0} /\ Head(queue).id \in Nat
  <2>1. Head(queue) = queue[1] /\ Len(queue) \in Nat \ {0} /\ Head(queue) \in Message
    BY Taken
  <2>. QED BY <2>1, SMT DEF Message
<1>2. 1 \in 1..Len(queue)
  BY <1>1, SMT
<1>3. /\ Head(queue).id \in 1..to
      /\ Head(queue).id > from + 1 =>
           \E j \in 1..(1 - 1) : queue[j].kind = kind /\ queue[j].id = Head(queue).id - 1
  <2>1. queue[1].kind = kind
    BY <1>1
  <2>2. /\ queue[1].id \in 1..to
        /\ queue[1].id > from + 1 =>
             \E j \in 1..(1 - 1) : queue[j].kind = kind /\ queue[j].id = queue[1].id - 1
    BY <1>2, <2>1 DEF Carries
  <2>. QED BY <1>1, <2>2
<1>4. Head(queue).id = from + 1 /\ from + 1 <= to
  BY <1>1, <1>3, SMT
<1>5. Carries(queue, kind, from + 1, to)
  <2>1. ASSUME NEW i \in 1..Len(queue), queue[i].kind = kind
        PROVE  /\ queue[i].id \in 1..to
               /\ queue[i].id > (from + 1) + 1 =>
                    \E j \in 1..(i - 1) : queue[j].kind = kind /\ queue[j].id = queue[i].id - 1
    BY <2>1, SMTT(30) DEF Carries
  <2>2. ASSUME NEW n \in ((from + 1) + 1)..to
        PROVE  \E i \in 1..Len(queue) : queue[i].kind = kind /\ queue[i].id = n
    <3>1. n \in (from + 1)..to
      BY SMT
    <3>. QED BY <3>1 DEF Carries
  <2>. QED BY <2>1, <2>2 DEF Carries
<1>. QED BY <1>4, <1>5, CarriesOn, SMT

-----------------------------------------------------------------------------
(* Plans pass through the consumer in their order                          *)

orderVars == <<lastPlan, fetched, finals, cur, cleared, plans, completed, commands,
               events, batchId, lastBatch>>

(* The steps by what they move.                                            *)
LEMMA StepsByMove ==
  ASSUME [Next]_vars
  PROVE  \/ UNCHANGED orderVars
         \/ Produce /\ (Notify \/ ReturnReferences \/ SubmitReferences)
         \/ /\ UNCHANGED <<producerVars, consumerVars>>
            /\ \/ Dispatch \/ StopAtBudget \/ StopAtTail
               \/ OnReady \/ OnPublished \/ OnSamples \/ OnProducerDone
               \/ OnCompletedAgain \/ OnCompleted
         \/ /\ UNCHANGED <<producerVars, schedulerVars>>
            /\ \/ Start \/ SkipCommand \/ Fetch \/ TakeStop
               \/ Train \/ Account \/ Clear \/ Announce
         \/ Relaunch
<1>1. CASE Produce
  BY <1>1, Zenon DEF Produce, ProducerStep, Request, Drop, PublishOne, PublishAmbiguous,
     PublishFails, Drained, DrainTimeout, Return, orderVars, channelVars, producerVars,
     schedulerVars, consumerVars
<1>2. CASE Schedule
  BY <1>2, Zenon DEF Schedule, SchedulerStep, KeepWaiting, ProducerReturned,
     ProducerRaised, ConsumerRaised, ConsumerReturned, Finish, orderVars, channelVars,
     producerVars, schedulerVars, consumerVars, newsVars
<1>3. CASE Consume
  BY <1>3, Zenon DEF Consume, ConsumerStep, Fail, Save, FinalizeSave, End, orderVars,
     channelVars, producerVars, schedulerVars, consumerVars
<1>4. CASE UNCHANGED vars
  BY <1>4, Zenon DEF vars, orderVars, channelVars, producerVars, schedulerVars, consumerVars
<1>. QED BY <1>1, <1>2, <1>3, <1>4 DEF Next

(* How far the consumer is, in numbers of plans.                           *)
LEMMA Progress ==
  ASSUME TypeOK, InOrder
  PROVE  /\ lastPlan \in Nat /\ completed \in Nat
         /\ Len(plans) \in Nat /\ Len(fetched) \in Nat /\ Len(finals) \in Nat
         /\ Announced \in Nat /\ Trained \in Nat
         /\ completed <= Announced /\ Announced <= Trained /\ Trained <= lastPlan
         /\ lastPlan <= Len(plans)
         /\ Trained = lastPlan - Len(fetched) /\ Announced = Trained - Len(finals)
<1>1. /\ lastPlan \in Nat /\ completed \in Nat
      /\ Len(plans) \in Nat /\ Len(fetched) \in Nat /\ Len(finals) \in Nat
  BY LenProperties DEF TypeOK, SchedulerTypeOK, ConsumerTypeOK
<1>2. completed <= Announced /\ lastPlan <= Len(plans)
  BY DEF InOrder
<1>. QED BY <1>1, <1>2, SMT DEF Trained, Announced

(* A message of the number and the keys of a plan is that of the plan.     *)
LEMMA IsPlanMsg ==
  ASSUME NEW m \in Message, NEW n, m.kind = "batch", m.id = n, m.keys = plans[n]
  PROVE  m = PlanMsg(n)
BY SMT DEF Message, PlanMsg, Msg

(* The plan of a message and what is in it.                                *)
LEMMA PlanMsgIs ==
  ASSUME NEW n
  PROVE  PlanMsg(n).kind = "batch" /\ PlanMsg(n).id = n /\ PlanMsg(n).keys = plans[n]
BY SMT DEF PlanMsg, Msg

(* Every command for a plan to come is for the next.                       *)
LEMMA NextCommand ==
  ASSUME TypeOK, InOrder, QueuesInOrder, commands # <<>>,
         Head(commands).kind = "batch", Head(commands).id > lastPlan
  PROVE  /\ Head(commands) = PlanMsg(lastPlan + 1)
         /\ Head(commands).id = lastPlan + 1 /\ Head(commands).keys = plans[lastPlan + 1]
         /\ lastPlan + 1 <= Len(plans)
         /\ Carries(Tail(commands), "batch", lastPlan + 1, Len(plans))
<1>1. commands \in Seq(Message) /\ lastPlan \in Nat /\ Len(plans) \in Nat
  BY Progress DEF TypeOK, ChannelsTypeOK
<1>2. /\ Carries(commands, "batch", lastPlan, Len(plans))
      /\ OfPlans(commands, "batch")
  BY DEF QueuesInOrder
<1>3. /\ Head(commands).id = lastPlan + 1 /\ lastPlan + 1 <= Len(plans)
      /\ Carries(Tail(commands), "batch", lastPlan + 1, Len(plans))
  BY <1>1, <1>2, CarriesTaken
<1>4. /\ Head(commands) = commands[1] /\ Head(commands) \in Message
      /\ Len(commands) \in Nat \ {0}
  BY <1>1, Taken
<1>5. 1 \in 1..Len(commands)
  BY <1>4, SMT
<1>6. Head(commands).keys = plans[lastPlan + 1]
  BY <1>2, <1>3, <1>4, <1>5 DEF OfPlans
<1>. QED BY <1>3, <1>4, <1>6, IsPlanMsg

(* The consumer goes through the plans in their order.                     *)
LEMMA InOrderStep ==
  ASSUME TypeOK, TypeOK', InOrder, QueuesInOrder, [Next]_vars
  PROVE  InOrder'
<1>. DEFINE parts == <<lastPlan, fetched, finals, cur, cleared, plans, completed>>
<1>1. CASE UNCHANGED parts
  BY <1>1, SMT DEF InOrder, Trained, Announced, PlanMsg
<1>2. CASE Fetch /\ UNCHANGED schedulerVars
  <2>1. /\ commands # <<>> /\ Head(commands).kind = "batch" /\ Head(commands).id > lastPlan
        /\ lastPlan' = Head(commands).id /\ fetched' = Append(fetched, Head(commands))
        /\ UNCHANGED <<finals, cur, cleared, plans, completed>>
    BY <1>2, Zenon DEF Fetch, TakeCommand, schedulerVars
  <2>2. /\ Head(commands) = PlanMsg(lastPlan + 1)
        /\ lastPlan' = lastPlan + 1 /\ lastPlan + 1 <= Len(plans)
    BY <2>1, NextCommand
  <2>3. fetched \in Seq(Message) /\ PlanMsg(lastPlan + 1) \in Message
    BY <2>1, <2>2, Taken DEF TypeOK, ChannelsTypeOK, ConsumerTypeOK
  <2>4. /\ Len(fetched') = Len(fetched) + 1
        /\ \A i \in 1..Len(fetched) : fetched'[i] = fetched[i]
        /\ fetched'[Len(fetched) + 1] = PlanMsg(lastPlan + 1)
    BY <2>1, <2>2, <2>3, AppendProperties
  <2>5. Trained' = Trained /\ Announced' = Announced
    <3>1. Trained' = lastPlan' - Len(fetched')
      BY DEF Trained
    <3>2. Trained' = Trained
      BY <2>2, <2>4, <3>1, Progress, SMT
    <3>. QED BY <2>1, <3>2 DEF Announced
  <2>6. \A n : PlanMsg(n)' = PlanMsg(n)
    BY <2>1 DEF PlanMsg
  <2>7. Trained + (Len(fetched) + 1) = lastPlan + 1
    BY Progress, SMT
  <2>8. \A i \in 1..Len(fetched') : fetched'[i] = PlanMsg(Trained + i)
    <3>. SUFFICES ASSUME NEW i \in 1..Len(fetched')
                  PROVE  fetched'[i] = PlanMsg(Trained + i)
      OBVIOUS
    <3>1. CASE i \in 1..Len(fetched)
      BY <2>4, <3>1 DEF InOrder
    <3>2. CASE i = Len(fetched) + 1
      BY <2>4, <2>7, <3>2
    <3>. QED BY <2>4, <3>1, <3>2, Progress, SMTT(30)
  <2>9. /\ \A i \in 1..Len(finals) : finals[i] = PlanMsg(Announced + i)
        /\ cur # None => Trained > 0 /\ cur = PlanMsg(Trained)
        /\ completed <= Announced
        /\ cleared => finals # <<>>
    BY DEF InOrder
  <2>. QED BY <2>1, <2>2, <2>5, <2>6, <2>8, <2>9, Zenon DEF InOrder
<1>3. CASE Train /\ UNCHANGED schedulerVars
  <2>1. /\ fetched # <<>> /\ cur' = Head(fetched) /\ fetched' = Tail(fetched)
        /\ finals' = Append(finals, Head(fetched))
        /\ UNCHANGED <<lastPlan, cleared, plans, completed>>
    BY <1>3, Zenon DEF Train, schedulerVars
  <2>2. /\ fetched \in Seq(Message) /\ finals \in Seq(Message)
        /\ Head(fetched) \in Message /\ Head(fetched) = fetched[1]
        /\ Len(fetched) \in Nat \ {0} /\ Len(fetched') = Len(fetched) - 1
        /\ \A i \in 1..(Len(fetched) - 1) : fetched'[i] = fetched[i + 1]
    BY <2>1, Taken DEF TypeOK, ConsumerTypeOK
  <2>3. /\ Len(finals') = Len(finals) + 1
        /\ \A i \in 1..Len(finals) : finals'[i] = finals[i]
        /\ finals'[Len(finals) + 1] = Head(fetched)
    BY <2>1, <2>2, AppendProperties
  <2>4. Trained' = Trained + 1 /\ Announced' = Announced
    BY <2>1, <2>2, <2>3, Progress, SMT DEF Trained, Announced
  <2>5. \A n : PlanMsg(n)' = PlanMsg(n)
    BY <2>1 DEF PlanMsg
  <2>6. Head(fetched) = PlanMsg(Trained + 1)
    <3>1. 1 \in 1..Len(fetched)
      BY <2>2, SMT
    <3>. QED BY <2>2, <3>1 DEF InOrder
  <2>7. \A i \in 1..Len(fetched') : fetched'[i] = PlanMsg(Trained' + i)
    <3>. SUFFICES ASSUME NEW i \in 1..Len(fetched')
                  PROVE  fetched'[i] = PlanMsg(Trained' + i)
      OBVIOUS
    <3>1. i \in 1..(Len(fetched) - 1) /\ i + 1 \in 1..Len(fetched) /\ Trained + (i + 1) = Trained' + i
      BY <2>2, <2>4, Progress, SMTT(30)
    <3>. QED BY <2>2, <3>1 DEF InOrder
  <2>8. \A i \in 1..Len(finals') : finals'[i] = PlanMsg(Announced + i)
    <3>. SUFFICES ASSUME NEW i \in 1..Len(finals')
                  PROVE  finals'[i] = PlanMsg(Announced + i)
      OBVIOUS
    <3>1. CASE i \in 1..Len(finals)
      BY <2>3, <3>1 DEF InOrder
    <3>2. CASE i = Len(finals) + 1
      <4>1. Announced + (Len(finals) + 1) = Trained + 1
        BY Progress, SMTT(30)
      <4>. QED BY <2>3, <2>6, <3>2, <4>1
    <3>. QED BY <2>3, <3>1, <3>2, Progress, SMT
  <2>9. Trained' > 0 /\ cur' = PlanMsg(Trained')
    BY <2>1, <2>4, <2>6, Progress, SMT
  <2>10. finals' # <<>> /\ lastPlan <= Len(plans) /\ completed <= Announced
    BY <2>3, Progress, EmptySeq, SMT
  <2>. QED BY <2>1, <2>4, <2>5, <2>7, <2>8, <2>9, <2>10, Zenon DEF InOrder
<1>4. CASE Announce /\ UNCHANGED schedulerVars
  <2>1. /\ finals # <<>> /\ finals' = Tail(finals) /\ cleared' = FALSE
        /\ UNCHANGED <<lastPlan, fetched, cur, plans, completed>>
    BY <1>4, Zenon DEF Announce, schedulerVars
  <2>2. /\ finals \in Seq(Message)
        /\ Len(finals) \in Nat \ {0} /\ Len(finals') = Len(finals) - 1
        /\ \A i \in 1..(Len(finals) - 1) : finals'[i] = finals[i + 1]
    BY <2>1, Taken DEF TypeOK, ConsumerTypeOK
  <2>3. Trained' = Trained /\ Announced' = Announced + 1
    BY <2>1, <2>2, Progress, SMT DEF Trained, Announced
  <2>4. \A n : PlanMsg(n)' = PlanMsg(n)
    BY <2>1 DEF PlanMsg
  <2>5. \A i \in 1..Len(finals') : finals'[i] = PlanMsg(Announced' + i)
    <3>. SUFFICES ASSUME NEW i \in 1..Len(finals')
                  PROVE  finals'[i] = PlanMsg(Announced' + i)
      OBVIOUS
    <3>1. i \in 1..(Len(finals) - 1) /\ i + 1 \in 1..Len(finals) /\ Announced + (i + 1) = Announced' + i
      BY <2>2, <2>3, Progress, SMT
    <3>. QED BY <2>2, <3>1 DEF InOrder
  <2>6. /\ \A i \in 1..Len(fetched) : fetched[i] = PlanMsg(Trained + i)
        /\ cur # None => Trained > 0 /\ cur = PlanMsg(Trained)
        /\ lastPlan <= Len(plans)
    BY DEF InOrder
  <2>7. completed <= Announced'
    BY <2>3, Progress, SMT
  <2>. QED BY <2>1, <2>3, <2>4, <2>5, <2>6, <2>7, Zenon DEF InOrder
<1>5. CASE (Account \/ Clear) /\ UNCHANGED schedulerVars
  <2>1. /\ UNCHANGED <<lastPlan, fetched, finals, plans, completed>>
        /\ cur' = cur \/ cur' = None
        /\ cleared' = cleared \/ finals # <<>>
    BY <1>5, Zenon DEF Account, Clear, schedulerVars
  <2>2. Trained' = Trained /\ Announced' = Announced
    BY <2>1 DEF Trained, Announced
  <2>3. \A n : PlanMsg(n)' = PlanMsg(n)
    BY <2>1 DEF PlanMsg
  <2>4. /\ cleared' => finals' # <<>>
        /\ completed' <= Announced' /\ lastPlan' <= Len(plans')
    BY <2>1, <2>2 DEF InOrder
  <2>5. cur' # None => Trained > 0 /\ cur' = PlanMsg(Trained)
    BY <2>1 DEF InOrder
  <2>6. /\ \A i \in 1..Len(fetched) : fetched[i] = PlanMsg(Trained + i)
        /\ \A i \in 1..Len(finals) : finals[i] = PlanMsg(Announced + i)
    BY DEF InOrder
  <2>. QED BY <2>1, <2>2, <2>3, <2>4, <2>5, <2>6, Zenon DEF InOrder
<1>6. CASE Dispatch /\ UNCHANGED consumerVars
  <2>1. /\ UNCHANGED <<lastPlan, fetched, finals, cur, cleared, completed>>
        /\ \E keys \in SUBSET Samples : plans' = Append(plans, keys)
    BY <1>6, ConfirmedTypes DEF Dispatch, consumerVars
  <2>2. /\ Len(plans') = Len(plans) + 1
        /\ \A i \in 1..Len(plans) : plans'[i] = plans[i]
    BY <2>1, AppendProperties DEF TypeOK, SchedulerTypeOK
  <2>3. Trained' = Trained /\ Announced' = Announced
    BY <2>1 DEF Trained, Announced
  <2>4. \A n \in 1..Len(plans) : PlanMsg(n)' = PlanMsg(n)
    BY <2>2 DEF PlanMsg
  <2>5. /\ \A i \in 1..Len(fetched) : Trained + i \in 1..Len(plans)
        /\ \A i \in 1..Len(finals) : Announced + i \in 1..Len(plans)
        /\ Trained > 0 => Trained \in 1..Len(plans)
        /\ lastPlan <= Len(plans')
    BY <2>2, Progress, SMTT(30)
  <2>6. /\ \A i \in 1..Len(fetched) : fetched[i] = PlanMsg(Trained + i)'
        /\ \A i \in 1..Len(finals) : finals[i] = PlanMsg(Announced + i)'
        /\ cur # None => Trained > 0 /\ cur = PlanMsg(Trained)'
        /\ completed <= Announced
        /\ cleared => finals # <<>>
    <3>1. \A n \in 1..Len(plans) : Msg("batch", n, plans'[n]) = Msg("batch", n, plans[n])
      BY <2>2
    <3>. QED BY <2>1, <2>3, <2>5, <3>1 DEF InOrder, PlanMsg
  <2>. QED BY <2>1, <2>3, <2>5, <2>6, Zenon DEF InOrder
<1>7. CASE OnCompleted /\ UNCHANGED consumerVars
  <2>1. /\ events # <<>> /\ Head(events).kind = "completed" /\ Head(events).id > completed
        /\ completed' = completed + 1
        /\ UNCHANGED <<lastPlan, fetched, finals, cur, cleared, plans>>
    BY <1>7, Zenon DEF OnCompleted, Take, consumerVars
  <2>2. completed + 1 <= Announced
    BY <2>1, Progress, CarriesTaken DEF QueuesInOrder, TypeOK, ChannelsTypeOK
  <2>3. Trained' = Trained /\ Announced' = Announced
    BY <2>1 DEF Trained, Announced
  <2>4. \A n : PlanMsg(n)' = PlanMsg(n)
    BY <2>1 DEF PlanMsg
  <2>. QED BY <2>1, <2>2, <2>3, <2>4, Zenon DEF InOrder
<1>8. CASE Relaunch
  <2>1. /\ lastPlan' = 0 /\ fetched' = <<>> /\ finals' = <<>> /\ cur' = None
        /\ cleared' = FALSE /\ plans' = <<>> /\ completed' = 0
    BY <1>8, Zenon DEF Relaunch, ConsumerRelaunch, SchedulerRelaunch
  <2>2. Trained' = 0 /\ Announced' = 0
    <3>1. lastPlan' = 0 /\ Len(fetched') = 0 /\ Len(finals') = 0
      BY <2>1, EmptySeq
    <3>. QED BY <3>1, SMT DEF Trained, Announced
  <2>. QED BY <2>1, <2>2, EmptySeq, SMT DEF InOrder
<1>. QED
  BY StepsByMove, <1>1, <1>2, <1>3, <1>4, <1>5, <1>6, <1>7, <1>8, Zenon
  DEF orderVars, producerVars, schedulerVars, consumerVars, newsVars, Produce,
      StopAtBudget, StopAtTail, OnReady, OnPublished, OnSamples, OnProducerDone,
      OnCompletedAgain, Start, SkipCommand, TakeStop, TakeCommand

(* What a sent message does to the commands or the events.                 *)
LEMMA OfPlansSent ==
  ASSUME NEW queue \in Seq(Message), NEW m \in Message, NEW after, Send(queue, m, after),
         NEW kind, OfPlans(queue, kind), m.kind = kind => m.keys = plans[m.id]
  PROVE  \A i \in 1..Len(after) : after[i].kind = kind => after[i].keys = plans[after[i].id]
<1>1. /\ Len(after) \in Nat /\ Len(queue) \in Nat /\ Len(after) >= Len(queue) + 1
      /\ \A i \in 1..Len(queue) : after[i] = queue[i]
      /\ \A i \in (Len(queue) + 1)..Len(after) : after[i] = m
  BY Sent, LenProperties
<1>2. \A i \in 1..Len(after) : i \in 1..Len(queue) \/ i \in (Len(queue) + 1)..Len(after)
  BY <1>1, SMT
<1>. QED BY <1>1, <1>2 DEF OfPlans

(* What is left of a queue has the keys of the plans.                      *)
LEMMA OfPlansOn ==
  ASSUME NEW queue \in Seq(Message), queue # <<>>, NEW kind, OfPlans(queue, kind)
  PROVE  OfPlans(Tail(queue), kind)
<1>1. /\ Len(queue) \in Nat \ {0} /\ Len(Tail(queue)) = Len(queue) - 1
      /\ \A i \in 1..(Len(queue) - 1) : Tail(queue)[i] = queue[i + 1]
  BY Taken
<1>2. \A i \in 1..(Len(queue) - 1) : i + 1 \in 1..Len(queue)
  BY <1>1, SMT
<1>. QED BY <1>1, <1>2 DEF OfPlans

(* The queues in terms of the numbers they carry.                          *)
LEMMA CommandsStep ==
  ASSUME TypeOK, TypeOK', InOrder, InOrder', QueuesInOrder, [Next]_vars
  PROVE  /\ Carries(commands, "batch", lastPlan, Len(plans))'
         /\ OfPlans(commands, "batch")'
<1>1. /\ commands \in Seq(Message) /\ lastPlan \in Nat /\ Len(plans) \in Nat
      /\ lastPlan <= Len(plans)
      /\ Carries(commands, "batch", lastPlan, Len(plans))
      /\ OfPlans(commands, "batch")
  BY Progress DEF QueuesInOrder, TypeOK, ChannelsTypeOK
<1>2. CASE UNCHANGED <<commands, lastPlan, plans>>
  BY <1>1, <1>2 DEF Carries, OfPlans
<1>3. CASE Fetch /\ UNCHANGED schedulerVars
  <2>1. /\ commands # <<>> /\ Head(commands).kind = "batch" /\ Head(commands).id > lastPlan
        /\ lastPlan' = Head(commands).id /\ commands' = Tail(commands) /\ plans' = plans
    BY <1>3, Zenon DEF Fetch, TakeCommand, schedulerVars
  <2>2. lastPlan' = lastPlan + 1 /\ Carries(Tail(commands), "batch", lastPlan + 1, Len(plans))
    BY <2>1, NextCommand
  <2>3. OfPlans(Tail(commands), "batch")
    BY <1>1, <2>1, OfPlansOn
  <2>. QED BY <2>1, <2>2, <2>3 DEF Carries, OfPlans
<1>4. CASE (SkipCommand \/ TakeStop) /\ UNCHANGED schedulerVars
  <2>1. /\ commands # <<>> /\ commands' = Tail(commands) /\ UNCHANGED <<lastPlan, plans>>
        /\ Head(commands).kind = "batch" => Head(commands).id <= lastPlan
    BY <1>4 DEF SkipCommand, TakeStop, TakeCommand, schedulerVars
  <2>2. Carries(Tail(commands), "batch", lastPlan, Len(plans))
    BY <1>1, <2>1, CarriesOn
  <2>3. OfPlans(Tail(commands), "batch")
    BY <1>1, <2>1, OfPlansOn
  <2>. QED BY <2>1, <2>2, <2>3 DEF Carries, OfPlans
<1>5. CASE (StopAtBudget \/ StopAtTail) /\ UNCHANGED consumerVars
  <2>. DEFINE m == Msg("stop", 0, {})
  <2>1. Send(commands, m, commands') /\ UNCHANGED <<lastPlan, plans>>
    BY <1>5, Zenon DEF StopAtBudget, StopAtTail, PutCommand, consumerVars
  <2>2. m \in Message /\ m.kind # "batch"
    BY MsgTypes DEF Kinds
  <2>. HIDE DEF m
  <2>3. Carries(commands', "batch", lastPlan, Len(plans))
    BY <1>1, <2>1, <2>2, CarriesOther
  <2>4. \A i \in 1..Len(commands') :
           commands'[i].kind = "batch" => commands'[i].keys = plans[commands'[i].id]
    BY <1>1, <2>1, <2>2, OfPlansSent
  <2>. QED BY <2>1, <2>3, <2>4 DEF Carries, OfPlans
<1>6. CASE Dispatch /\ UNCHANGED consumerVars
  <2>1. PICK keys \in SUBSET Confirmed :
          /\ plans' = Append(plans, keys)
          /\ Send(commands, Msg("batch", Len(plans) + 1, keys), commands')
    BY <1>6 DEF Dispatch, PutCommand
  <2>2. lastPlan' = lastPlan
    BY <1>6 DEF consumerVars
  <2>. DEFINE m == Msg("batch", Len(plans) + 1, keys)
  <2>3. m \in Message /\ m.kind = "batch" /\ m.id = Len(plans) + 1 /\ m.keys = keys
    <3>1. keys \in SUBSET Samples /\ Len(plans) + 1 \in Nat
      BY <1>1, ConfirmedTypes, SMT
    <3>. QED BY <3>1, MsgTypes DEF Kinds
  <2>4. Send(commands, m, commands')
    BY <2>1
  <2>. HIDE DEF m
  <2>5. /\ Len(plans') = Len(plans) + 1
        /\ \A i \in 1..Len(plans) : plans'[i] = plans[i]
        /\ plans'[Len(plans) + 1] = keys
    <3>1. keys \in SUBSET Samples /\ plans \in Seq(SUBSET Samples)
      BY ConfirmedTypes DEF TypeOK, SchedulerTypeOK
    <3>. QED BY <2>1, <3>1, AppendProperties
  <2>6. Carries(commands', "batch", lastPlan, Len(plans) + 1)
    BY <1>1, <2>3, <2>4, CarriesNext
  <2>7. \A i \in 1..Len(commands') :
           commands'[i].kind = "batch" => commands'[i].keys = plans'[commands'[i].id]
    <3>1. /\ Len(commands') \in Nat /\ Len(commands) \in Nat
          /\ \A i \in 1..Len(commands) : commands'[i] = commands[i]
          /\ \A i \in (Len(commands) + 1)..Len(commands') : commands'[i] = m
      BY <1>1, <2>3, <2>4, Sent, LenProperties
    <3>2. \A i \in 1..Len(commands) : commands[i].kind = "batch" =>
             commands[i].id \in 1..Len(plans) /\ commands[i].keys = plans[commands[i].id]
      BY <1>1 DEF Carries, OfPlans
    <3>3. \A i \in 1..Len(commands') :
             i \in 1..Len(commands) \/ i \in (Len(commands) + 1)..Len(commands')
      BY <3>1, SMT
    <3>. QED BY <2>3, <2>5, <3>1, <3>2, <3>3
  <2>. QED BY <2>2, <2>5, <2>6, <2>7 DEF Carries, OfPlans
<1>7. CASE Relaunch
  <2>1. commands' = <<>> /\ lastPlan' = 0 /\ plans' = <<>>
    BY <1>7, Zenon DEF Relaunch, ChannelsRelaunch, SchedulerRelaunch, ConsumerRelaunch
  <2>2. Len(commands') = 0 /\ Len(plans') = 0
    BY <2>1, EmptySeq
  <2>. QED BY <2>1, <2>2, SMT DEF Carries, OfPlans
<1>. QED
  BY StepsByMove, <1>2, <1>3, <1>4, <1>5, <1>6, <1>7, Zenon
  DEF orderVars, producerVars, schedulerVars, consumerVars, newsVars, Produce, Notify,
      ReturnReferences, SubmitReferences, PutEvent, Take, OnReady, OnPublished, OnSamples,
      OnProducerDone, OnCompletedAgain, OnCompleted, Start, Train, Account, Clear, Announce,
      channelVars

(* What an event that is taken leaves.                                     *)
LEMMA EventTaken ==
  ASSUME TypeOK, QueuesInOrder, UNCHANGED <<producerVars, consumerVars>>,
         \/ OnReady \/ OnPublished \/ OnSamples \/ OnProducerDone
         \/ OnCompletedAgain \/ OnCompleted
  PROVE  /\ events # <<>> /\ events' = Tail(events)
         /\ UNCHANGED <<commands, plans, batchId>>
         /\ OnCompleted <=> Head(events).kind = "completed" /\ Head(events).id > completed
         /\ OnCompleted => completed' = completed + 1
         /\ ~OnCompleted => completed' = completed
         /\ Head(events).kind = "samples" /\ Head(events).id > lastBatch =>
              lastBatch' = Head(events).id
         /\ ~(Head(events).kind = "samples" /\ Head(events).id > lastBatch) =>
              lastBatch' = lastBatch
<1>1. Head(events).id \in Nat /\ completed \in Nat /\ lastBatch \in Nat
  <2>1. events # <<>>
    BY DEF Take, OnReady, OnPublished, OnSamples, OnProducerDone, OnCompletedAgain, OnCompleted
  <2>2. Head(events) \in Message
    BY <2>1, Taken DEF TypeOK, ChannelsTypeOK
  <2>. QED BY <2>2, SMT DEF TypeOK, SchedulerTypeOK, Message
<1>2. ~(Head(events).id <= completed) <=> Head(events).id > completed
  BY <1>1, SMT
<1>3. ~(Head(events).id <= lastBatch) <=> Head(events).id > lastBatch
  BY <1>1, SMT
<1>4. batchId' = batchId
  BY DEF producerVars
<1>5. CASE OnReady \/ OnPublished \/ OnProducerDone
  BY <1>4, <1>5, Zenon DEF Take, OnReady, OnPublished, OnProducerDone, OnCompleted, newsVars
<1>6. CASE OnSamples
  <2>1. /\ Head(events).kind = "samples" /\ events # <<>> /\ events' = Tail(events)
        /\ UNCHANGED <<commands, plans, completed>>
    BY <1>6, Zenon DEF Take, OnSamples
  <2>2. ~OnCompleted
    BY <2>1 DEF OnCompleted, Take
  <2>3. CASE Head(events).id <= lastBatch
    BY <1>3, <1>4, <1>6, <2>1, <2>2, <2>3, Zenon DEF OnSamples
  <2>4. CASE ~(Head(events).id <= lastBatch)
    BY <1>3, <1>4, <1>6, <2>1, <2>2, <2>4, Zenon DEF OnSamples
  <2>. QED BY <2>3, <2>4
<1>7. CASE OnCompletedAgain
  BY <1>2, <1>4, <1>7, Zenon DEF Take, OnCompletedAgain, OnCompleted, schedulerVars
<1>8. CASE OnCompleted
  BY <1>4, <1>8, Zenon DEF Take, OnCompleted, newsVars
<1>. QED BY <1>5, <1>6, <1>7, <1>8

(* The completions on their way, in the order of the plans.                *)
LEMMA CompletionsStep ==
  ASSUME TypeOK, TypeOK', InOrder, InOrder', QueuesInOrder, [Next]_vars
  PROVE  /\ Carries(events, "completed", completed, Announced)'
         /\ OfPlans(events, "completed")'
<1>1. /\ events \in Seq(Message) /\ completed \in Nat /\ Announced \in Nat
      /\ completed <= Announced /\ Announced <= Len(plans) /\ Len(plans) \in Nat
      /\ Carries(events, "completed", completed, Announced)
      /\ OfPlans(events, "completed")
  <2>1. Announced <= Len(plans)
    BY Progress, SMT
  <2>. QED BY <2>1, Progress DEF QueuesInOrder, TypeOK, ChannelsTypeOK
<1>2. CASE UNCHANGED <<events, completed, plans, Announced>>
  BY <1>1, <1>2 DEF Carries, OfPlans
<1>3. ASSUME NEW m \in Message, Send(events, m, events'), m.kind # "completed",
             UNCHANGED <<completed, plans, Announced>>
      PROVE  /\ Carries(events, "completed", completed, Announced)'
             /\ OfPlans(events, "completed")'
  <2>1. Carries(events', "completed", completed, Announced)
    BY <1>1, <1>3, CarriesOther
  <2>2. \A i \in 1..Len(events') :
           events'[i].kind = "completed" => events'[i].keys = plans[events'[i].id]
    BY <1>1, <1>3, OfPlansSent
  <2>. QED BY <1>3, <2>1, <2>2 DEF Carries, OfPlans
<1>4. CASE Produce /\ (Notify \/ ReturnReferences)
  <2>1. UNCHANGED <<completed, plans, Announced>>
    BY <1>4 DEF Produce, schedulerVars, consumerVars, Announced, Trained
  <2>2. \E m \in {Msg("published", published, {}), Msg("producer_done", 0, {})} :
           Send(events, m, events')
    BY <1>4 DEF Notify, ReturnReferences, PutEvent
  <2>3. /\ Msg("published", published, {}) \in Message
        /\ Msg("published", published, {}).kind # "completed"
        /\ Msg("producer_done", 0, {}) \in Message
        /\ Msg("producer_done", 0, {}).kind # "completed"
    BY MsgTypes DEF Kinds, TypeOK, ProducerTypeOK
  <2>. QED BY <1>3, <2>1, <2>2, <2>3
<1>5. CASE Produce /\ SubmitReferences
  <2>1. UNCHANGED <<completed, plans, Announced>>
    BY <1>5 DEF Produce, schedulerVars, consumerVars, Announced, Trained
  <2>2. PICK keys \in SUBSET asked : Send(events, Msg("samples", batchId + 1, keys), events')
    BY <1>5 DEF SubmitReferences, PutEvent
  <2>3. Msg("samples", batchId + 1, keys) \in Message
        /\ Msg("samples", batchId + 1, keys).kind # "completed"
    <3>1. batchId + 1 \in Nat /\ keys \in SUBSET Samples
      BY SMT DEF TypeOK, ProducerTypeOK
    <3>. QED BY <3>1, MsgTypes DEF Kinds
  <2>. QED BY <1>3, <2>1, <2>2, <2>3
<1>6. CASE Start /\ UNCHANGED schedulerVars
  <2>1. UNCHANGED <<completed, plans, Announced>>
    BY <1>6 DEF Start, schedulerVars, consumerVars, Announced, Trained
  <2>2. Send(events, Msg("ready", optStep, {}), events')
    BY <1>6 DEF Start, PutEvent
  <2>3. Msg("ready", optStep, {}) \in Message /\ Msg("ready", optStep, {}).kind # "completed"
    BY MsgTypes DEF Kinds, TypeOK, ConsumerTypeOK
  <2>. QED BY <1>3, <2>1, <2>2, <2>3
<1>7. CASE Announce /\ UNCHANGED schedulerVars
  <2>1. /\ finals # <<>> /\ finals' = Tail(finals)
        /\ UNCHANGED <<completed, plans, lastPlan, fetched>>
        /\ Send(events, Msg("completed", Head(finals).id, Head(finals).keys), events')
    BY <1>7 DEF Announce, PutEvent, schedulerVars
  <2>2. /\ finals \in Seq(Message) /\ Head(finals) = finals[1]
        /\ Len(finals) \in Nat \ {0} /\ Len(finals') = Len(finals) - 1
    BY <2>1, Taken DEF TypeOK, ConsumerTypeOK
  <2>3. Announced' = Announced + 1
    <3>1. Trained' = Trained
      BY <2>1 DEF Trained
    <3>2. Announced' = Trained - Len(finals')
      BY <3>1 DEF Announced
    <3>. QED BY <2>2, <3>2, Progress, SMT
  <2>4. Head(finals).id = Announced + 1 /\ Head(finals).keys = plans[Announced + 1]
    <3>1. 1 \in 1..Len(finals)
      BY <2>2, SMT
    <3>2. finals[1] = PlanMsg(Announced + 1)
      BY <3>1 DEF InOrder
    <3>. QED BY <2>2, <3>2, PlanMsgIs
  <2>. DEFINE m == Msg("completed", Head(finals).id, Head(finals).keys)
  <2>5. /\ m \in Message /\ m.kind = "completed" /\ m.id = Announced + 1
        /\ m.keys = plans[Announced + 1]
    <3>1. Head(finals) \in Message
      BY <2>1, <2>2, Taken
    <3>2. Head(finals).id \in Nat /\ Head(finals).keys \in SUBSET Samples
      BY <3>1, SMT DEF Message
    <3>. QED BY <2>4, <3>2, MsgTypes DEF Kinds
  <2>6. Send(events, m, events')
    BY <2>1
  <2>. HIDE DEF m
  <2>7. Carries(events', "completed", completed, Announced + 1)
    BY <1>1, <2>5, <2>6, CarriesNext
  <2>8. \A i \in 1..Len(events') :
           events'[i].kind = "completed" => events'[i].keys = plans[events'[i].id]
    BY <1>1, <2>5, <2>6, OfPlansSent
  <2>. QED BY <2>1, <2>3, <2>7, <2>8 DEF Carries, OfPlans
<1>8. CASE /\ UNCHANGED <<producerVars, consumerVars>>
           /\ \/ OnReady \/ OnPublished \/ OnSamples \/ OnProducerDone
              \/ OnCompletedAgain \/ OnCompleted
  <2>1. /\ events # <<>> /\ events' = Tail(events) /\ plans' = plans
        /\ OnCompleted <=> Head(events).kind = "completed" /\ Head(events).id > completed
        /\ OnCompleted => completed' = completed + 1
        /\ ~OnCompleted => completed' = completed
    BY <1>8, EventTaken
  <2>2. OfPlans(Tail(events), "completed")
    BY <1>1, <2>1, OfPlansOn
  <2>3. Announced' = Announced
    BY <1>8 DEF Announced, Trained, consumerVars
  <2>4. CASE OnCompleted
    <3>1. Carries(Tail(events), "completed", completed + 1, Announced)
      BY <1>1, <2>1, <2>4, CarriesTaken
    <3>. QED BY <2>1, <2>2, <2>3, <2>4, <3>1 DEF Carries, OfPlans
  <2>5. CASE ~OnCompleted
    <3>1. Head(events).kind = "completed" => Head(events).id <= completed
      <4>1. Head(events) \in Message
        BY <1>1, <2>1, Taken
      <4>2. Head(events).id \in Nat
        BY <4>1, SMT DEF Message
      <4>. QED BY <1>1, <2>1, <2>5, <4>2, SMT
    <3>2. Carries(Tail(events), "completed", completed, Announced)
      BY <1>1, <2>1, <3>1, CarriesOn
    <3>. QED BY <2>1, <2>2, <2>3, <2>5, <3>2 DEF Carries, OfPlans
  <2>. QED BY <2>4, <2>5
<1>9. CASE Dispatch /\ UNCHANGED consumerVars
  <2>1. /\ UNCHANGED <<events, completed>>
        /\ \E keys \in SUBSET Samples : plans' = Append(plans, keys)
    BY <1>9, ConfirmedTypes DEF Dispatch, PutCommand
  <2>2. Announced' = Announced
    BY <1>9 DEF Announced, Trained, consumerVars
  <2>3. \A n \in 1..Len(plans) : plans'[n] = plans[n]
    BY <2>1, AppendProperties DEF TypeOK, SchedulerTypeOK
  <2>4. \A i \in 1..Len(events) : events[i].kind = "completed" =>
           events[i].id \in 1..Len(plans) /\ events[i].keys = plans[events[i].id]
    <3>1. \A n \in 1..Announced : n \in 1..Len(plans)
      BY <1>1, SMT
    <3>. QED BY <1>1, <3>1 DEF Carries, OfPlans
  <2>5. OfPlans(events, "completed")'
    BY <2>1, <2>3, <2>4 DEF OfPlans
  <2>. QED BY <1>1, <2>1, <2>2, <2>5 DEF Carries
<1>10. CASE Fetch /\ UNCHANGED schedulerVars
  <2>1. /\ UNCHANGED <<events, completed, plans, finals>>
        /\ commands # <<>> /\ Head(commands).kind = "batch" /\ Head(commands).id > lastPlan
        /\ lastPlan' = Head(commands).id /\ fetched' = Append(fetched, Head(commands))
    BY <1>10, Zenon DEF Fetch, TakeCommand, schedulerVars
  <2>2. lastPlan' = lastPlan + 1
    BY <2>1, NextCommand
  <2>3. Len(fetched') = Len(fetched) + 1
    BY <2>1, Taken, AppendProperties DEF TypeOK, ChannelsTypeOK, ConsumerTypeOK
  <2>4. Trained' = Trained
    <3>1. Trained' = lastPlan' - Len(fetched')
      BY DEF Trained
    <3>. QED BY <2>2, <2>3, <3>1, Progress, SMT
  <2>. QED BY <1>2, <2>1, <2>4 DEF Announced
<1>11. CASE Train /\ UNCHANGED schedulerVars
  <2>1. /\ UNCHANGED <<events, completed, plans, lastPlan>>
        /\ fetched # <<>> /\ fetched' = Tail(fetched)
        /\ finals' = Append(finals, Head(fetched))
    BY <1>11, Zenon DEF Train, channelVars, schedulerVars
  <2>2. Len(fetched) \in Nat \ {0} /\ Len(fetched') = Len(fetched) - 1
        /\ Len(finals') = Len(finals) + 1
    BY <2>1, Taken, AppendProperties DEF TypeOK, ConsumerTypeOK
  <2>3. Announced' = Announced
    <3>1. Announced' = (lastPlan' - Len(fetched')) - Len(finals')
      BY DEF Announced, Trained
    <3>. QED BY <2>1, <2>2, <3>1, Progress, SMT
  <2>. QED BY <1>2, <2>1, <2>3
<1>12. CASE /\ UNCHANGED schedulerVars
            /\ SkipCommand \/ TakeStop \/ Account \/ Clear
  <2>1. UNCHANGED <<events, completed, plans, lastPlan, fetched, finals>>
    BY <1>12, Zenon DEF SkipCommand, TakeStop, TakeCommand, Account, Clear, channelVars,
       schedulerVars
  <2>. QED BY <1>2, <2>1 DEF Announced, Trained
<1>13. CASE (StopAtBudget \/ StopAtTail) /\ UNCHANGED consumerVars
  <2>1. UNCHANGED <<events, completed, plans, lastPlan, fetched, finals>>
    BY <1>13, Zenon DEF StopAtBudget, StopAtTail, PutCommand, consumerVars
  <2>. QED BY <1>2, <2>1 DEF Announced, Trained
<1>14. CASE Relaunch
  <2>1. events' = <<>> /\ completed' = 0 /\ plans' = <<>>
    BY <1>14, Zenon DEF Relaunch, ChannelsRelaunch, SchedulerRelaunch
  <2>2. lastPlan' = 0 /\ fetched' = <<>> /\ finals' = <<>>
    BY <1>14, Zenon DEF Relaunch, ConsumerRelaunch
  <2>3. Announced' = 0
    <3>1. lastPlan' = 0 /\ Len(fetched') = 0 /\ Len(finals') = 0
      BY <2>2, EmptySeq
    <3>. QED BY <3>1, SMT DEF Trained, Announced
  <2>4. Len(events') = 0
    BY <2>1, EmptySeq
  <2>. QED BY <2>1, <2>3, <2>4, SMT DEF Carries, OfPlans
<1>15. CASE UNCHANGED orderVars
  BY <1>2, <1>15 DEF orderVars, Announced, Trained
<1>. QED
  BY StepsByMove, <1>4, <1>5, <1>6, <1>7, <1>8, <1>9, <1>10, <1>11, <1>12, <1>13, <1>14,
     <1>15, Zenon DEF producerVars

(* The metadata on its way, in the order it was submitted.                 *)
LEMMA SamplesStep ==
  ASSUME TypeOK, QueuesInOrder, [Next]_vars
  PROVE  /\ lastBatch' <= batchId'
         /\ Carries(events, "samples", lastBatch, batchId)'
<1>1. /\ events \in Seq(Message) /\ lastBatch \in Nat /\ batchId \in Nat
      /\ lastBatch <= batchId /\ Carries(events, "samples", lastBatch, batchId)
  BY DEF QueuesInOrder, TypeOK, ChannelsTypeOK, ProducerTypeOK, SchedulerTypeOK
<1>2. CASE UNCHANGED <<events, lastBatch, batchId>>
  BY <1>1, <1>2 DEF Carries
<1>3. ASSUME NEW m \in Message, Send(events, m, events'), m.kind # "samples",
             UNCHANGED <<lastBatch, batchId>>
      PROVE  /\ lastBatch' <= batchId'
             /\ Carries(events, "samples", lastBatch, batchId)'
  <2>1. Carries(events', "samples", lastBatch, batchId)
    BY <1>1, <1>3, CarriesOther
  <2>. QED BY <1>1, <1>3, <2>1 DEF Carries
<1>4. CASE Produce /\ (Notify \/ ReturnReferences)
  <2>1. UNCHANGED <<lastBatch, batchId>>
    BY <1>4 DEF Produce, Notify, ReturnReferences, schedulerVars, producerVars
  <2>2. \E m \in {Msg("published", published, {}), Msg("producer_done", 0, {})} :
           Send(events, m, events')
    BY <1>4 DEF Notify, ReturnReferences, PutEvent
  <2>3. /\ Msg("published", published, {}) \in Message
        /\ Msg("published", published, {}).kind # "samples"
        /\ Msg("producer_done", 0, {}) \in Message
        /\ Msg("producer_done", 0, {}).kind # "samples"
    BY MsgTypes DEF Kinds, TypeOK, ProducerTypeOK
  <2>. QED BY <1>3, <2>1, <2>2, <2>3
<1>5. CASE Produce /\ SubmitReferences
  <2>1. lastBatch' = lastBatch /\ batchId' = batchId + 1
    BY <1>5 DEF Produce, SubmitReferences, schedulerVars
  <2>2. PICK keys \in SUBSET asked : Send(events, Msg("samples", batchId + 1, keys), events')
    BY <1>5 DEF SubmitReferences, PutEvent
  <2>. DEFINE m == Msg("samples", batchId + 1, keys)
  <2>3. m \in Message /\ m.kind = "samples" /\ m.id = batchId + 1
    <3>1. batchId + 1 \in Nat /\ keys \in SUBSET Samples
      BY SMT DEF TypeOK, ProducerTypeOK
    <3>. QED BY <3>1, MsgTypes DEF Kinds
  <2>4. Send(events, m, events')
    BY <2>2
  <2>. HIDE DEF m
  <2>5. Carries(events', "samples", lastBatch, batchId + 1)
    BY <1>1, <2>3, <2>4, CarriesNext
  <2>6. lastBatch <= batchId + 1
    BY <1>1, SMT
  <2>. QED BY <2>1, <2>5, <2>6 DEF Carries
<1>6. CASE Start /\ UNCHANGED <<producerVars, schedulerVars>>
  <2>1. Send(events, Msg("ready", optStep, {}), events')
    BY <1>6 DEF Start, PutEvent
  <2>2. Msg("ready", optStep, {}) \in Message /\ Msg("ready", optStep, {}).kind # "samples"
    BY MsgTypes DEF Kinds, TypeOK, ConsumerTypeOK
  <2>. QED BY <1>3, <1>6, <2>1, <2>2 DEF producerVars, schedulerVars
<1>7. CASE Announce /\ UNCHANGED <<producerVars, schedulerVars>>
  <2>. DEFINE m == Msg("completed", Head(finals).id, Head(finals).keys)
  <2>1. finals # <<>> /\ Send(events, m, events')
    BY <1>7 DEF Announce, PutEvent
  <2>2. m \in Message /\ m.kind # "samples"
    <3>1. Head(finals) \in Message
      BY <2>1, Taken DEF TypeOK, ConsumerTypeOK
    <3>2. Head(finals).id \in Nat /\ Head(finals).keys \in SUBSET Samples
      BY <3>1, SMT DEF Message
    <3>. QED BY <3>2, MsgTypes DEF Kinds
  <2>. QED BY <1>3, <1>7, <2>1, <2>2 DEF producerVars, schedulerVars
<1>8. CASE /\ UNCHANGED <<producerVars, consumerVars>>
           /\ \/ OnReady \/ OnPublished \/ OnSamples \/ OnProducerDone
              \/ OnCompletedAgain \/ OnCompleted
  <2>1. /\ events # <<>> /\ events' = Tail(events) /\ batchId' = batchId
        /\ Head(events).kind = "samples" /\ Head(events).id > lastBatch =>
             lastBatch' = Head(events).id
        /\ ~(Head(events).kind = "samples" /\ Head(events).id > lastBatch) =>
             lastBatch' = lastBatch
    BY <1>8, EventTaken
  <2>2. CASE Head(events).kind = "samples" /\ Head(events).id > lastBatch
    <3>1. /\ Head(events).id = lastBatch + 1 /\ lastBatch + 1 <= batchId
          /\ Carries(Tail(events), "samples", lastBatch + 1, batchId)
      BY <1>1, <2>1, <2>2, CarriesTaken
    <3>. QED BY <2>1, <2>2, <3>1 DEF Carries
  <2>3. CASE ~(Head(events).kind = "samples" /\ Head(events).id > lastBatch)
    <3>1. Head(events).id \in Nat
      <4>1. Head(events) \in Message
        BY <1>1, <2>1, Taken
      <4>. QED BY <4>1, SMT DEF Message
    <3>2. Head(events).kind = "samples" => Head(events).id <= lastBatch
      BY <1>1, <2>3, <3>1, SMT
    <3>3. Carries(Tail(events), "samples", lastBatch, batchId)
      BY <1>1, <2>1, <3>2, CarriesOn
    <3>. QED BY <1>1, <2>1, <2>3, <3>3 DEF Carries
  <2>. QED BY <2>2, <2>3
<1>9. CASE Relaunch
  <2>1. events' = <<>> /\ lastBatch' = 0 /\ batchId' = 0
    BY <1>9, Zenon DEF Relaunch, ChannelsRelaunch, SchedulerRelaunch, ProducerRelaunch
  <2>2. Len(events') = 0
    BY <2>1, EmptySeq
  <2>. QED BY <2>1, <2>2, SMT DEF Carries
<1>10. CASE (Dispatch \/ StopAtBudget \/ StopAtTail) /\ UNCHANGED producerVars
  <2>1. UNCHANGED <<events, lastBatch, batchId>>
    BY <1>10, Zenon DEF Dispatch, StopAtBudget, StopAtTail, PutCommand, newsVars, producerVars
  <2>. QED BY <1>2, <2>1
<1>11. CASE /\ SkipCommand \/ Fetch \/ TakeStop \/ Train \/ Account \/ Clear
            /\ UNCHANGED <<producerVars, schedulerVars>>
  <2>1. UNCHANGED <<events, lastBatch, batchId>>
    BY <1>11, Zenon DEF SkipCommand, Fetch, TakeStop, TakeCommand, Train, Account, Clear,
       channelVars, producerVars, schedulerVars
  <2>. QED BY <1>2, <2>1
<1>12. CASE UNCHANGED orderVars
  BY <1>2, <1>12 DEF orderVars
<1>. QED
  BY StepsByMove, <1>4, <1>5, <1>6, <1>7, <1>8, <1>9, <1>10, <1>11, <1>12, Zenon

(* A launch begins with empty queues.                                      *)
LEMMA OrderInit == Init => InOrder /\ QueuesInOrder
<1>. SUFFICES ASSUME Init PROVE InOrder /\ QueuesInOrder
  OBVIOUS
<1>1. /\ events = <<>> /\ commands = <<>> /\ plans = <<>> /\ fetched = <<>> /\ finals = <<>>
      /\ cur = None /\ lastPlan = 0 /\ completed = 0 /\ lastBatch = 0 /\ batchId = 0
      /\ ~cleared
  BY Zenon DEF Init, ChannelsInit, ProducerInit, SchedulerInit, ConsumerInit
<1>2. /\ Len(events) = 0 /\ Len(commands) = 0 /\ Len(plans) = 0 /\ Len(fetched) = 0
      /\ Len(finals) = 0
  BY <1>1, EmptySeq
<1>3. Trained = 0 /\ Announced = 0
  <2>1. lastPlan = 0 /\ Len(fetched) = 0 /\ Len(finals) = 0
    BY <1>1, <1>2
  <2>. QED BY <2>1, SMT DEF Trained, Announced
<1>4. InOrder
  BY <1>1, <1>2, <1>3, SMT DEF InOrder
<1>5. QueuesInOrder
  BY <1>1, <1>2, <1>3, SMT DEF QueuesInOrder, Carries, OfPlans
<1>. QED BY <1>4, <1>5

(* What the consumer holds, and what every queue carries, is in order in   *)
(* every step.                                                             *)
LEMMA OrderStep == TypeOK /\ InOrder /\ QueuesInOrder /\ [Next]_vars => (InOrder /\ QueuesInOrder)'
<1>. SUFFICES ASSUME TypeOK, InOrder, QueuesInOrder, [Next]_vars
              PROVE  (InOrder /\ QueuesInOrder)'
  OBVIOUS
<1>1. TypeOK'
  BY TypeStep
<1>2. InOrder'
  BY <1>1, InOrderStep
<1>3. /\ Carries(commands, "batch", lastPlan, Len(plans))'
      /\ OfPlans(commands, "batch")'
  BY <1>1, <1>2, CommandsStep
<1>4. /\ Carries(events, "completed", completed, Announced)'
      /\ OfPlans(events, "completed")'
  BY <1>1, <1>2, CompletionsStep
<1>5. lastBatch' <= batchId' /\ Carries(events, "samples", lastBatch, batchId)'
  BY SamplesStep
<1>. QED BY <1>2, <1>3, <1>4, <1>5 DEF QueuesInOrder

(* Whatever is delivered twice, plans reach the consumer, and completions  *)
(* and metadata the driver, each once and in the order they were numbered. *)
THEOREM PlansInOrder == Spec => [](InOrder /\ QueuesInOrder)
<1>. QED BY OrderInit, OrderStep, StandaloneTypes, PTL DEF Spec

-----------------------------------------------------------------------------
(* A sample takes its way once                                             *)

(* How much of the plans is cleared from the store.                        *)
LEMMA ClearedIs ==
  ASSUME TypeOK, InOrder
  PROVE  /\ Cleared \in Nat /\ Announced <= Cleared /\ Cleared <= Trained
         /\ ~cleared => Cleared = Announced
         /\ cleared => Cleared = Announced + 1
<1>1. /\ Announced \in Nat /\ Trained \in Nat /\ Len(finals) \in Nat
      /\ Announced = Trained - Len(finals)
  BY Progress
<1>2. CASE cleared
  <2>1. Cleared = Announced + 1
    BY <1>2 DEF Cleared
  <2>2. Len(finals) # 0
    BY <1>2, EmptySeq DEF InOrder, TypeOK, ConsumerTypeOK
  <2>. QED BY <1>1, <1>2, <2>1, <2>2, SMT
<1>3. CASE ~cleared
  <2>1. Cleared = Announced + 0
    BY <1>3 DEF Cleared
  <2>. QED BY <1>1, <1>3, <2>1, SMT
<1>. QED BY <1>2, <1>3

(* Metadata the driver has yet to take, after a message was sent to it.    *)
LEMMA UntakenSent ==
  ASSUME TypeOK, NEW m \in Message, Send(events, m, events'), lastBatch' = lastBatch
  PROVE  /\ Untaken' \subseteq Untaken \union {m}
         /\ m.kind # "samples" => Untaken' \subseteq Untaken
<1>1. /\ Len(events') \in Nat /\ Len(events) \in Nat
      /\ \A i \in 1..Len(events) : events'[i] = events[i]
      /\ \A i \in (Len(events) + 1)..Len(events') : events'[i] = m
  BY Sent, LenProperties DEF TypeOK, ChannelsTypeOK
<1>2. \A i \in 1..Len(events') :
         i \in 1..Len(events) \/ i \in (Len(events) + 1)..Len(events')
  BY <1>1, SMT
<1>. QED BY <1>1, <1>2 DEF Untaken, Among

(* Metadata the driver has yet to take, after it has taken an event.       *)
LEMMA UntakenOn ==
  ASSUME TypeOK, TypeOK', events # <<>>, events' = Tail(events), lastBatch <= lastBatch'
  PROVE  \A m \in Untaken' : m \in Untaken /\ m.id > lastBatch'
<1>1. /\ Len(events) \in Nat \ {0} /\ Len(events') = Len(events) - 1
      /\ \A i \in 1..(Len(events) - 1) : events'[i] = events[i + 1]
  BY Taken DEF TypeOK, ChannelsTypeOK
<1>. SUFFICES ASSUME NEW m \in Untaken' PROVE m \in Untaken /\ m.id > lastBatch'
  OBVIOUS
<1>2. PICK i \in 1..Len(events') : m = events'[i]
  BY DEF Untaken, Among
<1>3. i + 1 \in 1..Len(events) /\ m = events[i + 1]
  BY <1>1, <1>2, SMT
<1>4. m.id > lastBatch' /\ m.kind = "samples"
  BY DEF Untaken, Among
<1>5. m \in Message
  BY <1>3, ElementOfSeq DEF TypeOK, ChannelsTypeOK
<1>6. m.id > lastBatch
  <2>1. m.id \in Nat /\ lastBatch \in Nat /\ lastBatch' \in Nat
    BY <1>5, SMT DEF Message, TypeOK, SchedulerTypeOK
  <2>. QED BY <1>4, <2>1, SMT
<1>. QED BY <1>3, <1>4, <1>6 DEF Untaken, Among

(* What is ready after a listing is new to the driver and to the model.    *)
LEMMA ConfirmedNew ==
  ASSUME TypeOK, InOrder, OneWay
  PROVE  /\ Confirmed \subseteq handed
         /\ \A s \in Confirmed \ twice : ~Planned(s) /\ model[s] = 0
         /\ \A m \in Untaken : m.keys \intersect Confirmed = {}
<1>1. CASE Confirmed = ready
  BY <1>1 DEF OneWay, HandedOn, PlannedOnce, ToldOnce
<1>2. CASE transport = "tq" /\ Confirmed = tq \ Reserved
  <2>1. Untaken = {} /\ tq \subseteq handed
    BY <1>2 DEF OneWay, HandedOn
  <2>2. ASSUME NEW s \in Confirmed \ twice PROVE ~Planned(s) /\ model[s] = 0
    <3>1. s \in tq \ twice /\ s \notin Reserved
      BY <1>2
    <3>2. ~Planned(s)
      <4>. SUFFICES ASSUME NEW i \in 1..Len(plans), s \in plans[i] PROVE FALSE
        BY DEF Planned
      <4>1. i <= Cleared => s \notin tq
        BY <3>1 DEF OneWay, PlannedOnce
      <4>2. i \notin (completed + 1)..Len(plans)
        BY <3>1 DEF Reserved
      <4>3. i <= Cleared
        BY <4>2, Progress, ClearedIs, SMT
      <4>. QED BY <3>1, <4>1, <4>3
    <3>. QED BY <3>1, <3>2 DEF OneWay, PlannedOnce
  <2>. QED BY <1>2, <2>1, <2>2
<1>. QED BY <1>1, <1>2 DEF Confirmed

(* Steps that move no sample.                                              *)
LEMMA WayKept ==
  ASSUME OneWay, Trained' = Trained, Cleared' = Cleared, Untaken' \subseteq Untaken,
         UNCHANGED <<transport, todo, asked, handed, twice, tq, ready, seen, plans, model>>
  PROVE  OneWay'
<1>1. AskedOnce'
  BY DEF OneWay, AskedOnce
<1>2. HandedOn'
  BY DEF OneWay, HandedOn, Planned
<1>3. PlannedOnce'
  BY DEF OneWay, PlannedOnce, Planned
<1>4. ToldOnce'
  BY DEF OneWay, ToldOnce, Planned
<1>. QED BY <1>1, <1>2, <1>3, <1>4 DEF OneWay

(* A sample is asked for, or given up.                                     *)
LEMMA AskStep ==
  ASSUME OneWay, Produce, Request \/ \E s \in Samples : Drop(s)
  PROVE  OneWay'
<1>1. UNCHANGED <<transport, handed, twice, tq, ready, seen, plans, model, events, lastBatch,
                  lastPlan, fetched, finals, cleared>>
  BY Zenon DEF Produce, Request, Drop, channelVars, schedulerVars, consumerVars
<1>2. Trained' = Trained /\ Cleared' = Cleared /\ Untaken' = Untaken
  BY <1>1 DEF Trained, Cleared, Announced, Untaken, Among
<1>3. AskedOnce'
  <2>1. /\ todo' \subseteq todo /\ asked' \subseteq asked \union (todo \ todo')
        /\ asked' \subseteq asked \union todo
    BY DEF Request, Drop
  <2>. QED BY <1>1, <2>1 DEF OneWay, AskedOnce
<1>4. HandedOn'
  BY <1>1, <1>2 DEF OneWay, HandedOn, Planned
<1>5. PlannedOnce'
  BY <1>1, <1>2 DEF OneWay, PlannedOnce, Planned
<1>6. ToldOnce'
  BY <1>1, <1>2 DEF OneWay, ToldOnce, Planned
<1>. QED BY <1>3, <1>4, <1>5, <1>6 DEF OneWay

(* A sample reaches the store, for the first time or again.                *)
LEMMA PutStep ==
  ASSUME OneWay, Produce, NEW s \in Samples, Publishing(s), Put(s), asked' \subseteq asked,
         UNCHANGED <<transport, todo, events>>
  PROVE  OneWay'
<1>1. UNCHANGED <<ready, seen, plans, model, lastBatch, lastPlan, fetched, finals, cleared>>
  BY Zenon DEF Produce, schedulerVars, consumerVars
<1>2. Trained' = Trained /\ Cleared' = Cleared /\ Untaken' = Untaken
  BY <1>1 DEF Trained, Cleared, Announced, Untaken, Among
<1>3. /\ tq' = tq \union {s} /\ handed' = handed \union {s} /\ twice \subseteq twice'
      /\ s \in handed \ tq => s \in twice'
      /\ s \in asked /\ s \notin todo /\ transport = "tq"
  BY DEF Put, Publishing, OneWay, AskedOnce
<1>4. AskedOnce'
  BY <1>1, <1>3 DEF OneWay, AskedOnce
<1>5. HandedOn'
  BY <1>1, <1>2, <1>3 DEF OneWay, HandedOn, Planned
<1>6. PlannedOnce'
  <2>1. ASSUME NEW i \in 1..Len(plans), NEW t \in plans[i], t \notin twice'
        PROVE  /\ i <= Cleared => t \notin tq'
               /\ i > Trained => model[t] = 0
               /\ \A j \in 1..Len(plans) : j # i => t \notin plans[j]
    <3>1. /\ i <= Cleared => t \notin tq
          /\ i > Trained => model[t] = 0
          /\ \A j \in 1..Len(plans) : j # i => t \notin plans[j]
      BY <1>3, <2>1 DEF OneWay, PlannedOnce
    <3>2. t = s => t \in tq
      <4>1. t = s => Planned(s)
        BY DEF Planned
      <4>2. t = s => s \in handed
        BY <4>1 DEF OneWay, HandedOn
      <4>. QED BY <1>3, <2>1, <4>2
    <3>. QED BY <1>3, <3>1, <3>2
  <2>2. ASSUME NEW t \in tq' \ twice' PROVE Planned(t) \/ model[t] = 0
    <3>1. CASE t \in tq
      BY <1>3, <3>1 DEF OneWay, PlannedOnce
    <3>2. CASE t \notin tq
      <4>1. t = s /\ s \notin handed
        BY <1>3, <2>2, <3>2
      <4>. QED BY <1>3, <4>1 DEF OneWay, AskedOnce
    <3>. QED BY <3>1, <3>2
  <2>3. \A t \in ready \ twice' : ~Planned(t) /\ model[t] = 0
    BY <1>3 DEF OneWay, PlannedOnce
  <2>. QED BY <1>1, <1>2, <2>1, <2>2, <2>3 DEF PlannedOnce, Planned
<1>7. ToldOnce'
  BY <1>1, <1>2, <1>3 DEF OneWay, ToldOnce, Planned
<1>. QED BY <1>4, <1>5, <1>6, <1>7 DEF OneWay

(* A batch of metadata is on its way to the driver.                        *)
LEMMA SubmitStep ==
  ASSUME TypeOK, OneWay, Produce, SubmitReferences
  PROVE  OneWay'
<1>1. UNCHANGED <<transport, todo, twice, tq, ready, seen, plans, model, lastBatch, lastPlan,
                  fetched, finals, cleared>>
  BY Zenon DEF Produce, SubmitReferences, schedulerVars, consumerVars
<1>2. Trained' = Trained /\ Cleared' = Cleared
  BY <1>1 DEF Trained, Cleared, Announced
<1>3. PICK keys \in SUBSET asked :
        /\ Send(events, Msg("samples", batchId + 1, keys), events')
        /\ asked' = asked \ keys
        /\ handed' = handed \union keys
  BY DEF SubmitReferences, PutEvent
<1>. DEFINE m == Msg("samples", batchId + 1, keys)
<1>4. m \in Message /\ m.keys = keys
  <2>1. batchId + 1 \in Nat /\ keys \in SUBSET Samples
    BY SMT DEF TypeOK, ProducerTypeOK
  <2>. QED BY <2>1, MsgTypes DEF Kinds
<1>5. Send(events, m, events')
  BY <1>3
<1>. HIDE DEF m
<1>6. Untaken' \subseteq Untaken \union {m}
  BY <1>1, <1>4, <1>5, UntakenSent
<1>7. transport # "tq" /\ \A s \in keys : s \in asked /\ s \notin todo /\ s \notin handed
  BY <1>3 DEF OneWay, AskedOnce, SubmitReferences, TypeOK, ChannelsTypeOK
<1>8. \A s \in keys : s \notin ready /\ ~Planned(s) /\ model[s] = 0
  <2>1. \A s \in keys : s \in Samples
    BY <1>3 DEF TypeOK, ProducerTypeOK
  <2>. QED BY <1>7, <2>1 DEF OneWay, AskedOnce, HandedOn
<1>9. AskedOnce'
  BY <1>1, <1>3, <1>7 DEF OneWay, AskedOnce
<1>10. HandedOn'
  BY <1>1, <1>3, <1>7 DEF OneWay, HandedOn, Planned
<1>11. PlannedOnce'
  BY <1>1, <1>2 DEF OneWay, PlannedOnce, Planned
<1>12. ToldOnce'
  <2>1. \A n \in Untaken : n.keys \subseteq handed /\ n.keys \intersect keys = {}
    BY <1>7 DEF OneWay, ToldOnce
  <2>2. \A n \in Untaken' : n.keys \subseteq handed'
    BY <1>3, <1>4, <1>6, <2>1
  <2>3. \A n \in Untaken' : \A s \in n.keys : s \notin ready /\ ~Planned(s) /\ model[s] = 0
    BY <1>4, <1>6, <1>8 DEF OneWay, ToldOnce
  <2>4. \A n, o \in Untaken' : n.id # o.id => n.keys \intersect o.keys = {}
    BY <1>4, <1>6, <2>1 DEF OneWay, ToldOnce
  <2>. QED BY <1>1, <2>2, <2>3, <2>4 DEF ToldOnce, Planned
<1>. QED BY <1>9, <1>10, <1>11, <1>12 DEF OneWay

(* A plan takes samples that no plan has and the model has not seen.       *)
LEMMA DispatchStep ==
  ASSUME TypeOK, InOrder, OneWay, Dispatch, UNCHANGED <<producerVars, consumerVars>>
  PROVE  OneWay'
<1>1. PICK keys \in SUBSET Confirmed :
        plans' = Append(plans, keys) /\ ready' = Confirmed \ keys
  BY DEF Dispatch
<1>2. /\ UNCHANGED <<transport, todo, asked, handed, twice, tq, seen, model, events, lastBatch,
                     lastPlan, fetched, finals, cleared>>
  BY Zenon DEF Dispatch, PutCommand, newsVars, producerVars, consumerVars
<1>3. Trained' = Trained /\ Cleared' = Cleared /\ Untaken' = Untaken
  BY <1>2 DEF Trained, Cleared, Announced, Untaken, Among
<1>4. /\ Confirmed \subseteq handed
      /\ \A s \in Confirmed \ twice : ~Planned(s) /\ model[s] = 0
      /\ \A m \in Untaken : m.keys \intersect Confirmed = {}
  BY ConfirmedNew
<1>. DEFINE n == Len(plans) + 1
<1>5. /\ 1..Len(plans') = 1..Len(plans) \union {n} /\ plans'[n] = keys
      /\ \A i \in 1..Len(plans) : plans'[i] = plans[i]
      /\ ~(n <= Cleared)
  <2>1. keys \in SUBSET Samples /\ plans \in Seq(SUBSET Samples)
    BY ConfirmedTypes DEF TypeOK, SchedulerTypeOK
  <2>2. /\ Len(plans') = Len(plans) + 1 /\ plans'[n] = keys
        /\ \A i \in 1..Len(plans) : plans'[i] = plans[i]
    BY <1>1, <2>1, AppendProperties
  <2>3. Len(plans) \in Nat /\ Cleared \in Nat /\ Cleared <= Len(plans)
    BY Progress, ClearedIs, SMT
  <2>. QED BY <2>2, <2>3, SMT
<1>. HIDE DEF n
<1>6. \A s : Planned(s)' <=> Planned(s) \/ s \in keys
  BY <1>5 DEF Planned
<1>7. AskedOnce'
  BY <1>2 DEF OneWay, AskedOnce
<1>8. HandedOn'
  <2>1. ready' \union tq' \union seen' \subseteq handed'
    BY <1>1, <1>2, <1>4 DEF OneWay, HandedOn
  <2>2. \A s \in Samples : Planned(s)' => s \in handed'
    BY <1>1, <1>2, <1>4, <1>6 DEF OneWay, HandedOn
  <2>3. IF transport' = "tq" THEN Untaken' = {} ELSE tq' = {}
    BY <1>2, <1>3 DEF OneWay, HandedOn
  <2>. QED BY <2>1, <2>2, <2>3 DEF HandedOn
<1>9. PlannedOnce'
  <2>1. ASSUME NEW i \in 1..Len(plans'), NEW s \in plans'[i] \ twice'
        PROVE  /\ i <= Cleared => s \notin tq
               /\ i > Trained => model[s] = 0
               /\ \A j \in 1..Len(plans') : j # i => s \notin plans'[j]
    <3>1. CASE i \in 1..Len(plans) /\ i # n
      <4>1. s \in plans[i] \ twice
        BY <1>2, <1>5, <2>1, <3>1
      <4>2. s \notin keys
        BY <1>4, <3>1, <4>1 DEF Planned
      <4>. QED BY <1>5, <3>1, <4>1, <4>2 DEF OneWay, PlannedOnce
    <3>2. CASE i = n
      <4>1. s \in keys \ twice /\ s \in Confirmed
        BY <1>1, <1>2, <1>5, <2>1, <3>2
      <4>2. model[s] = 0 /\ \A j \in 1..Len(plans) : s \notin plans[j]
        BY <1>4, <4>1 DEF Planned
      <4>. QED BY <1>5, <3>2, <4>2
    <3>. QED BY <1>5, <3>1, <3>2
  <2>2. \A s \in tq' \ twice' : Planned(s)' \/ model'[s] = 0
    BY <1>2, <1>6 DEF OneWay, PlannedOnce
  <2>3. \A s \in ready' \ twice' : ~Planned(s)' /\ model'[s] = 0
    BY <1>1, <1>2, <1>4, <1>6
  <2>. QED BY <1>2, <1>3, <2>1, <2>2, <2>3 DEF PlannedOnce
<1>10. ToldOnce'
  <2>1. \A m \in Untaken : \A s \in m.keys : s \notin ready' /\ ~Planned(s)' /\ model[s] = 0
    BY <1>1, <1>4, <1>6 DEF OneWay, ToldOnce
  <2>. QED BY <1>2, <1>3, <2>1 DEF OneWay, ToldOnce
<1>. QED BY <1>7, <1>8, <1>9, <1>10 DEF OneWay

(* The driver waits, or leaves the tail.                                   *)
LEMMA SettledStep ==
  ASSUME TypeOK, InOrder, OneWay, KeepWaiting \/ StopAtTail,
         UNCHANGED <<producerVars, consumerVars>>
  PROVE  OneWay'
<1>1. /\ UNCHANGED <<transport, todo, asked, handed, twice, seen, plans, model, events,
                     lastBatch, lastPlan, fetched, finals, cleared>>
      /\ ready' \subseteq Confirmed /\ tq' \subseteq tq
  BY Zenon DEF KeepWaiting, StopAtTail, PutCommand, channelVars, newsVars, producerVars,
     consumerVars
<1>2. Trained' = Trained /\ Cleared' = Cleared /\ Untaken' = Untaken
  BY <1>1 DEF Trained, Cleared, Announced, Untaken, Among
<1>3. /\ Confirmed \subseteq handed
      /\ \A s \in Confirmed \ twice : ~Planned(s) /\ model[s] = 0
      /\ \A m \in Untaken : m.keys \intersect Confirmed = {}
  BY ConfirmedNew
<1>4. AskedOnce'
  BY <1>1 DEF OneWay, AskedOnce
<1>5. HandedOn'
  BY <1>1, <1>2, <1>3 DEF OneWay, HandedOn, Planned
<1>6. PlannedOnce'
  BY <1>1, <1>2, <1>3 DEF OneWay, PlannedOnce, Planned
<1>7. ToldOnce'
  BY <1>1, <1>2, <1>3 DEF OneWay, ToldOnce, Planned
<1>. QED BY <1>4, <1>5, <1>6, <1>7 DEF OneWay

(* The driver takes a batch of metadata it has not taken before.           *)
LEMMA FreshStep ==
  ASSUME TypeOK, TypeOK', OneWay, OnSamples, ~(Head(events).id <= lastBatch),
         UNCHANGED <<producerVars, consumerVars>>
  PROVE  OneWay'
<1>1. /\ UNCHANGED <<transport, todo, asked, handed, twice, tq, plans, model,
                     lastPlan, fetched, finals, cleared>>
      /\ lastBatch' = Head(events).id
      /\ ready' \subseteq ready \union Head(events).keys
      /\ seen' \subseteq seen \union Head(events).keys
      /\ events # <<>> /\ events' = Tail(events) /\ Head(events).kind = "samples"
  BY Zenon DEF OnSamples, Take, producerVars, consumerVars
<1>2. Trained' = Trained /\ Cleared' = Cleared
  BY <1>1 DEF Trained, Cleared, Announced
<1>3. Head(events).id \in Nat /\ lastBatch \in Nat
  <2>1. Head(events) \in Message
    BY <1>1, Taken DEF TypeOK, ChannelsTypeOK
  <2>. QED BY <2>1, SMT DEF Message, TypeOK, SchedulerTypeOK
<1>4. Head(events) \in Untaken
  <2>1. Head(events) = events[1] /\ 1 \in 1..Len(events)
    <3>1. Head(events) = events[1] /\ Len(events) \in Nat \ {0}
      BY <1>1, Taken DEF TypeOK, ChannelsTypeOK
    <3>. QED BY <3>1, SMT
  <2>2. Head(events).id > lastBatch
    BY <1>3, SMT
  <2>. QED BY <1>1, <2>1, <2>2 DEF Untaken, Among
<1>5. \A m \in Untaken' : m \in Untaken /\ m.id # Head(events).id
  <2>1. lastBatch <= lastBatch'
    BY <1>1, <1>3, SMT
  <2>2. \A m \in Untaken' : m \in Untaken /\ m.id > lastBatch'
    BY <1>1, <2>1, UntakenOn
  <2>. QED BY <1>1, <1>3, <2>2, SMT
<1>6. transport # "tq"
  BY <1>4 DEF OneWay, HandedOn
<1>7. /\ Head(events).keys \subseteq handed
      /\ \A s \in Head(events).keys : ~Planned(s) /\ model[s] = 0
      /\ \A m \in Untaken' : m.keys \intersect Head(events).keys = {}
  BY <1>4, <1>5 DEF OneWay, ToldOnce
<1>8. AskedOnce'
  BY <1>1 DEF OneWay, AskedOnce
<1>9. HandedOn'
  BY <1>1, <1>6, <1>7 DEF OneWay, HandedOn, Planned
<1>10. PlannedOnce'
  BY <1>1, <1>2, <1>7 DEF OneWay, PlannedOnce, Planned
<1>11. ToldOnce'
  BY <1>1, <1>5, <1>7 DEF OneWay, ToldOnce, Planned
<1>. QED BY <1>8, <1>9, <1>10, <1>11 DEF OneWay

(* The model is trained on the next plan.                                  *)
LEMMA TrainStep ==
  ASSUME TypeOK, InOrder, OneWay, Train, UNCHANGED <<producerVars, schedulerVars>>
  PROVE  /\ OneWay'
         /\ Trained' = Trained + 1 /\ Trained + 1 \in 1..Len(plans)
         /\ cur' = PlanMsg(Trained + 1)
         /\ model' = [s \in Samples |-> model[s] + IF s \in plans[Trained + 1] THEN 1 ELSE 0]
<1>1. /\ UNCHANGED <<transport, todo, asked, handed, twice, tq, ready, seen, plans, events,
                     lastBatch, lastPlan, cleared>>
      /\ fetched # <<>> /\ cur' = Head(fetched)
      /\ fetched' = Tail(fetched) /\ finals' = Append(finals, Head(fetched))
      /\ model' = [s \in Samples |-> model[s] + IF s \in Head(fetched).keys THEN 1 ELSE 0]
  BY Zenon DEF Train, channelVars, producerVars, schedulerVars
<1>2. /\ Head(fetched) = fetched[1] /\ Len(fetched) \in Nat \ {0}
      /\ Len(fetched') = Len(fetched) - 1 /\ Len(finals') = Len(finals) + 1
  BY <1>1, Taken, AppendProperties DEF TypeOK, ConsumerTypeOK
<1>3. Head(fetched) = PlanMsg(Trained + 1)
  <2>1. 1 \in 1..Len(fetched)
    BY <1>2, SMT
  <2>. QED BY <1>2, <2>1 DEF InOrder
<1>4. Trained' = Trained + 1 /\ Announced' = Announced
  <2>1. Trained' = lastPlan' - Len(fetched') /\ Announced' = Trained' - Len(finals')
    BY DEF Trained, Announced
  <2>. QED BY <1>1, <1>2, <2>1, Progress, SMTT(30)
<1>5. Cleared' = Cleared /\ Untaken' = Untaken
  BY <1>1, <1>4 DEF Cleared, Untaken, Among
<1>6. Trained + 1 \in 1..Len(plans)
  BY <1>2, Progress, SMT
<1>. DEFINE keys == plans[Trained + 1]
<1>7. Head(fetched).keys = keys
  BY <1>3, PlanMsgIs
<1>8. \A s \in Samples : s \notin keys => model'[s] = model[s]
  BY <1>1, <1>7, SMT DEF TypeOK, ConsumerTypeOK
<1>9. \A s \in keys : Planned(s)
  BY <1>6 DEF Planned
<1>10. AskedOnce'
  <2>1. \A s \in todo \union (asked \ handed) : s \in Samples /\ s \notin keys
    BY <1>9 DEF OneWay, AskedOnce, HandedOn, TypeOK, ProducerTypeOK
  <2>. QED BY <1>1, <1>8, <2>1 DEF OneWay, AskedOnce
<1>11. HandedOn'
  BY <1>1, <1>5 DEF OneWay, HandedOn, Planned
<1>12. PlannedOnce'
  <2>1. ASSUME NEW i \in 1..Len(plans'), NEW s \in plans'[i] \ twice'
        PROVE  /\ i <= Cleared' => s \notin tq'
               /\ i > Trained' => model'[s] = 0
               /\ \A j \in 1..Len(plans') : j # i => s \notin plans'[j]
    <3>1. /\ i \in 1..Len(plans) /\ s \in plans[i] \ twice /\ tq' = tq
          /\ plans' = plans
      BY <1>1
    <3>2. /\ i <= Cleared => s \notin tq
          /\ i > Trained => model[s] = 0
          /\ \A j \in 1..Len(plans) : j # i => s \notin plans[j]
      BY <3>1 DEF OneWay, PlannedOnce
    <3>3. i > Trained' => i > Trained /\ i # Trained + 1
      BY <1>4, <3>1, Progress, SMT
    <3>4. s \in Samples
      BY <3>1, ElementOfSeq DEF TypeOK, SchedulerTypeOK
    <3>5. i > Trained' => model'[s] = 0
      BY <1>6, <1>8, <3>2, <3>3, <3>4
    <3>. QED BY <1>5, <3>1, <3>2, <3>5
  <2>2. \A s \in tq \ twice : Planned(s) \/ model'[s] = 0
    BY <1>8, <1>9 DEF OneWay, PlannedOnce, TypeOK, ChannelsTypeOK
  <2>3. \A s \in ready \ twice : ~Planned(s) /\ model'[s] = 0
    BY <1>8, <1>9 DEF OneWay, PlannedOnce, TypeOK, SchedulerTypeOK
  <2>4. \A s : Planned(s)' <=> Planned(s)
    BY <1>1 DEF Planned
  <2>5. \A s \in tq' \ twice' : Planned(s)' \/ model'[s] = 0
    BY <1>1, <2>2, <2>4
  <2>6. \A s \in ready' \ twice' : ~Planned(s)' /\ model'[s] = 0
    BY <1>1, <2>3, <2>4
  <2>. QED BY <2>1, <2>5, <2>6, Zenon DEF PlannedOnce
<1>13. ToldOnce'
  <2>1. \A m \in Untaken : m.keys \subseteq Samples
    BY DEF OneWay, ToldOnce, TypeOK, ProducerTypeOK
  <2>. QED BY <1>1, <1>5, <1>8, <1>9, <2>1 DEF OneWay, ToldOnce, Planned
<1>. QED BY <1>1, <1>3, <1>4, <1>6, <1>7, <1>10, <1>11, <1>12, <1>13 DEF OneWay

(* The oldest batch trained is cleared from the store.                     *)
LEMMA ClearStep ==
  ASSUME TypeOK, TypeOK', InOrder, InOrder', OneWay, Clear,
         UNCHANGED <<producerVars, schedulerVars>>
  PROVE  OneWay'
<1>1. /\ UNCHANGED <<transport, todo, asked, handed, twice, ready, seen, plans, model, events,
                     lastBatch, lastPlan, fetched, finals>>
      /\ finals # <<>> /\ ~cleared /\ cleared' /\ tq' = tq \ Head(finals).keys
  BY Zenon DEF Clear, producerVars, schedulerVars
<1>2. Trained' = Trained /\ Announced' = Announced /\ Untaken' = Untaken
  BY <1>1 DEF Trained, Announced, Untaken, Among
<1>3. Cleared = Announced /\ Cleared' = Announced + 1 /\ Announced \in Nat
  <2>1. cleared' => Cleared' = Announced' + 1
    BY DEF Cleared
  <2>. QED BY <1>1, <1>2, <2>1, ClearedIs, Progress
<1>4. Head(finals).keys = plans[Announced + 1]
  <2>1. Head(finals) = finals[1] /\ Len(finals) \in Nat \ {0}
    BY <1>1, Taken DEF TypeOK, ConsumerTypeOK
  <2>2. 1 \in 1..Len(finals)
    BY <2>1, SMT
  <2>3. finals[1] = PlanMsg(Announced + 1)
    BY <2>2 DEF InOrder
  <2>. QED BY <2>1, <2>3, PlanMsgIs
<1>5. AskedOnce'
  BY <1>1 DEF OneWay, AskedOnce
<1>6. HandedOn'
  BY <1>1, <1>2 DEF OneWay, HandedOn, Planned
<1>7. PlannedOnce'
  <2>1. ASSUME NEW i \in 1..Len(plans'), NEW s \in plans'[i] \ twice'
        PROVE  /\ i <= Cleared' => s \notin tq'
               /\ i > Trained' => model'[s] = 0
               /\ \A j \in 1..Len(plans') : j # i => s \notin plans'[j]
    <3>1. /\ i \in 1..Len(plans) /\ s \in plans[i] \ twice /\ plans' = plans /\ model' = model
      BY <1>1
    <3>2. /\ i <= Cleared => s \notin tq
          /\ i > Trained => model[s] = 0
          /\ \A j \in 1..Len(plans) : j # i => s \notin plans[j]
      BY <3>1 DEF OneWay, PlannedOnce
    <3>3. i <= Cleared' => i <= Cleared \/ i = Announced + 1
      BY <1>3, <3>1, SMT
    <3>4. i <= Cleared' => s \notin tq'
      BY <1>1, <1>4, <3>1, <3>2, <3>3
    <3>. QED BY <1>2, <3>1, <3>2, <3>4
  <2>2. \A s : Planned(s)' <=> Planned(s)
    BY <1>1 DEF Planned
  <2>3. \A s \in tq' \ twice' : Planned(s)' \/ model'[s] = 0
    BY <1>1, <2>2 DEF OneWay, PlannedOnce
  <2>4. \A s \in ready' \ twice' : ~Planned(s)' /\ model'[s] = 0
    BY <1>1, <2>2 DEF OneWay, PlannedOnce
  <2>. QED BY <2>1, <2>3, <2>4, Zenon DEF PlannedOnce
<1>8. ToldOnce'
  BY <1>1, <1>2 DEF OneWay, ToldOnce, Planned
<1>. QED BY <1>5, <1>6, <1>7, <1>8 DEF OneWay

(* A completion is announced; what it is about is not in the store.        *)
LEMMA AnnounceStep ==
  ASSUME TypeOK, TypeOK', InOrder, InOrder', OneWay, Announce,
         UNCHANGED <<producerVars, schedulerVars>>
  PROVE  OneWay'
<1>1. /\ UNCHANGED <<transport, todo, asked, handed, twice, tq, ready, seen, plans, model,
                     lastBatch, lastPlan, fetched>>
      /\ finals # <<>> /\ finals' = Tail(finals) /\ ~cleared'
      /\ transport = "tq" => cleared
  BY Zenon DEF Announce, producerVars, schedulerVars
<1>2. Trained' = Trained
  BY <1>1 DEF Trained
<1>3. Announced' = Announced + 1 /\ Cleared' = Announced + 1
  <2>1. Len(finals) \in Nat \ {0} /\ Len(finals') = Len(finals) - 1
    BY <1>1, Taken DEF TypeOK, ConsumerTypeOK
  <2>2. Announced' = Trained' - Len(finals')
    BY DEF Announced
  <2>3. Announced' = Announced + 1
    BY <1>2, <2>1, <2>2, Progress, SMT
  <2>4. ~cleared' => Cleared' = Announced'
    <3>1. ~cleared' => Cleared' = Announced' + 0
      BY DEF Cleared
    <3>. QED BY <2>3, <3>1, Progress, SMT
  <2>. QED BY <1>1, <2>3, <2>4
<1>4. Untaken' \subseteq Untaken
  <2>. DEFINE m == Msg("completed", Head(finals).id, Head(finals).keys)
  <2>1. Send(events, m, events')
    BY DEF Announce, PutEvent
  <2>2. m \in Message /\ m.kind # "samples"
    <3>1. Head(finals) \in Message
      BY <1>1, Taken DEF TypeOK, ConsumerTypeOK
    <3>2. Head(finals).id \in Nat /\ Head(finals).keys \in SUBSET Samples
      BY <3>1, SMT DEF Message
    <3>. QED BY <3>2, MsgTypes DEF Kinds
  <2>. HIDE DEF m
  <2>. QED BY <1>1, <2>1, <2>2, UntakenSent
<1>5. Cleared' = Cleared \/ tq = {}
  BY <1>1, <1>3, ClearedIs DEF OneWay, HandedOn
<1>6. AskedOnce'
  BY <1>1 DEF OneWay, AskedOnce
<1>7. HandedOn'
  BY <1>1, <1>4 DEF OneWay, HandedOn, Planned
<1>8. PlannedOnce'
  BY <1>1, <1>2, <1>5 DEF OneWay, PlannedOnce, Planned
<1>9. ToldOnce'
  BY <1>1, <1>4 DEF OneWay, ToldOnce, Planned
<1>. QED BY <1>6, <1>7, <1>8, <1>9 DEF OneWay

(* The next launch asks for what its checkpoint has not trained.           *)
LEMMA RelaunchWay ==
  ASSUME TypeOK, CheckpointExact(ckpt), Relaunch
  PROVE  OneWay'
<1>1. /\ tq' = {} /\ events' = <<>> /\ plans' = <<>> /\ ready' = {} /\ seen' = {}
      /\ todo' = Samples \ ckpt.consumed /\ asked' = {} /\ handed' = {}
      /\ model' = ckpt.model
  BY Zenon DEF Relaunch, ChannelsRelaunch, ProducerRelaunch, SchedulerRelaunch, ConsumerRelaunch
<1>2. Len(events') = 0 /\ Len(plans') = 0
  BY <1>1, EmptySeq
<1>3. Untaken' = {} /\ \A i \in 1..Len(plans') : FALSE
  BY <1>2, SMT DEF Untaken, Among
<1>4. \A s \in todo' : model'[s] = 0
  <2>1. \A s \in Samples : ckpt.model[s] \in Nat
    BY SMT DEF TypeOK, ConsumerTypeOK, Checkpoint
  <2>2. \A s \in Samples \ ckpt.consumed : ~(ckpt.model[s] > 0)
    BY DEF CheckpointExact
  <2>. QED BY <1>1, <2>1, <2>2, SMT
<1>5. AskedOnce'
  BY <1>1, <1>4 DEF AskedOnce
<1>6. HandedOn'
  BY <1>1, <1>3 DEF HandedOn, Planned
<1>7. PlannedOnce'
  BY <1>1, <1>3 DEF PlannedOnce
<1>8. ToldOnce'
  BY <1>3 DEF ToldOnce
<1>. QED BY <1>5, <1>6, <1>7, <1>8 DEF OneWay

(* The producer keeps every sample on its way.                             *)
LEMMA ProduceWay ==
  ASSUME TypeOK, OneWay, Produce
  PROVE  OneWay'
<1>1. UNCHANGED <<ready, seen, plans, model, lastBatch>> /\ Trained' = Trained /\ Cleared' = Cleared
  BY Zenon DEF Produce, schedulerVars, consumerVars, Trained, Cleared, Announced
<1>2. CASE Request \/ \E s \in Samples : Drop(s)
  BY <1>2, AskStep
<1>3. ASSUME NEW s \in Samples, PublishOne(s) \/ PublishAmbiguous(s) \/ PublishFails(s)
      PROVE  OneWay'
  <2>1. CASE Put(s)
    <3>1. /\ Publishing(s) /\ asked' \subseteq asked
          /\ UNCHANGED <<transport, todo, events>>
      BY <1>3, Zenon DEF PublishOne, PublishAmbiguous, PublishFails
    <3>. QED BY <2>1, <3>1, PutStep
  <2>2. CASE ~Put(s)
    <3>1. UNCHANGED <<transport, todo, asked, handed, twice, tq, events>>
      BY <1>3, <2>2, Zenon DEF PublishOne, PublishAmbiguous, PublishFails
    <3>2. Untaken' = Untaken
      BY <1>1, <3>1 DEF Untaken, Among
    <3>. QED BY <1>1, <3>1, <3>2, WayKept
  <2>. QED BY <2>1, <2>2
<1>4. CASE Notify \/ ReturnReferences
  <2>1. UNCHANGED <<transport, todo, asked, handed, twice, tq>>
    BY <1>4, Zenon DEF Notify, ReturnReferences, producerVars
  <2>2. \E m \in {Msg("published", published, {}), Msg("producer_done", 0, {})} :
           Send(events, m, events')
    BY <1>4 DEF Notify, ReturnReferences, PutEvent
  <2>3. /\ Msg("published", published, {}) \in Message
        /\ Msg("published", published, {}).kind # "samples"
        /\ Msg("producer_done", 0, {}) \in Message
        /\ Msg("producer_done", 0, {}).kind # "samples"
    BY MsgTypes DEF Kinds, TypeOK, ProducerTypeOK
  <2>4. Untaken' \subseteq Untaken
    BY <1>1, <2>2, <2>3, UntakenSent
  <2>. QED BY <1>1, <2>1, <2>4, WayKept
<1>5. CASE SubmitReferences
  BY <1>5, SubmitStep
<1>6. CASE Drained \/ DrainTimeout
  <2>1. UNCHANGED <<transport, todo, asked, handed, twice, tq, events>>
    BY <1>6, Zenon DEF Drained, DrainTimeout, Return, producerVars
  <2>2. Untaken' = Untaken
    BY <1>1, <2>1 DEF Untaken, Among
  <2>. QED BY <1>1, <2>1, <2>2, WayKept
<1>. QED BY <1>2, <1>3, <1>4, <1>5, <1>6 DEF Produce, ProducerStep

(* The driver keeps every sample on its way.                               *)
LEMMA ScheduleWay ==
  ASSUME TypeOK, TypeOK', InOrder, QueuesInOrder, OneWay, Schedule
  PROVE  OneWay'
<1>1. UNCHANGED <<producerVars, consumerVars>>
  BY DEF Schedule
<1>2. /\ UNCHANGED <<todo, asked, handed, twice, model>>
      /\ Trained' = Trained /\ Cleared' = Cleared
  BY <1>1 DEF producerVars, consumerVars, Trained, Cleared, Announced
<1>3. CASE \/ StopAtBudget \/ ProducerReturned \/ ProducerRaised \/ ConsumerRaised
           \/ Finish \/ ConsumerReturned(optStep)
  <2>1. UNCHANGED <<transport, tq, ready, seen, plans, events, lastBatch>>
    BY <1>3, Zenon DEF StopAtBudget, ProducerReturned, ProducerRaised, ConsumerRaised, Finish,
       ConsumerReturned, PutCommand, newsVars, schedulerVars
  <2>2. Untaken' = Untaken
    BY <2>1 DEF Untaken, Among
  <2>. QED BY <1>2, <2>1, <2>2, WayKept
<1>4. CASE KeepWaiting \/ StopAtTail
  BY <1>1, <1>4, SettledStep
<1>5. CASE Dispatch
  BY <1>1, <1>5, DispatchStep
<1>6. CASE OnSamples /\ ~(Head(events).id <= lastBatch)
  BY <1>1, <1>6, FreshStep
<1>7. CASE \/ OnReady \/ OnPublished \/ OnProducerDone \/ OnCompletedAgain \/ OnCompleted
           \/ OnSamples /\ Head(events).id <= lastBatch
  <2>1. UNCHANGED <<transport, tq, ready, seen, plans, lastBatch>>
    <3>1. CASE OnSamples /\ Head(events).id <= lastBatch
      BY <3>1, Zenon DEF OnSamples, Take
    <3>2. CASE OnReady \/ OnPublished \/ OnProducerDone \/ OnCompletedAgain \/ OnCompleted
      BY <3>2, Zenon DEF OnReady, OnPublished, OnProducerDone, OnCompletedAgain, OnCompleted,
         Take, newsVars, schedulerVars
    <3>. QED BY <1>7, <3>1, <3>2
  <2>2. events # <<>> /\ events' = Tail(events)
    BY <1>7 DEF OnReady, OnPublished, OnProducerDone, OnCompletedAgain, OnCompleted, OnSamples,
       Take
  <2>3. lastBatch <= lastBatch'
    BY <2>1, SMT DEF TypeOK, SchedulerTypeOK
  <2>4. Untaken' \subseteq Untaken
    BY <2>2, <2>3, UntakenOn
  <2>. QED BY <1>2, <2>1, <2>4, WayKept
<1>. QED BY <1>3, <1>4, <1>5, <1>6, <1>7 DEF Schedule, SchedulerStep

(* The consumer keeps every sample on its way.                             *)
LEMMA ConsumeWay ==
  ASSUME TypeOK, TypeOK', InOrder, InOrder', QueuesInOrder, OneWay, Consume
  PROVE  OneWay'
<1>1. UNCHANGED <<producerVars, schedulerVars>>
  BY DEF Consume
<1>2. UNCHANGED <<todo, asked, handed, twice, ready, seen, plans, lastBatch>>
  BY <1>1 DEF producerVars, schedulerVars
<1>3. CASE Train
  BY <1>1, <1>3, TrainStep
<1>4. CASE Clear
  BY <1>1, <1>4, ClearStep
<1>5. CASE Announce
  BY <1>1, <1>5, AnnounceStep
<1>6. CASE Start
  <2>1. UNCHANGED <<transport, tq, model, lastPlan, fetched, finals, cleared>>
    BY <1>6, Zenon DEF Start, consumerVars
  <2>2. Send(events, Msg("ready", optStep, {}), events')
    BY <1>6 DEF Start, PutEvent
  <2>3. Msg("ready", optStep, {}) \in Message /\ Msg("ready", optStep, {}).kind # "samples"
    BY MsgTypes DEF Kinds, TypeOK, ConsumerTypeOK
  <2>4. Untaken' \subseteq Untaken
    BY <1>2, <2>2, <2>3, UntakenSent
  <2>5. Trained' = Trained /\ Cleared' = Cleared
    BY <2>1 DEF Trained, Cleared, Announced
  <2>. QED BY <1>2, <2>1, <2>4, <2>5, WayKept
<1>7. CASE Fetch
  <2>1. /\ UNCHANGED <<transport, tq, model, events, finals, cleared>>
        /\ commands # <<>> /\ Head(commands).kind = "batch" /\ Head(commands).id > lastPlan
        /\ lastPlan' = Head(commands).id /\ fetched' = Append(fetched, Head(commands))
    BY <1>7, Zenon DEF Fetch, TakeCommand
  <2>2. lastPlan' = lastPlan + 1
    BY <2>1, NextCommand
  <2>3. Len(fetched') = Len(fetched) + 1
    BY <2>1, Taken, AppendProperties DEF TypeOK, ChannelsTypeOK, ConsumerTypeOK
  <2>4. Trained' = Trained
    <3>1. Trained' = lastPlan' - Len(fetched')
      BY DEF Trained
    <3>. QED BY <2>2, <2>3, <3>1, Progress, SMT
  <2>5. Cleared' = Cleared /\ Untaken' = Untaken
    BY <1>2, <2>1, <2>4 DEF Cleared, Announced, Untaken, Among
  <2>. QED BY <1>2, <2>1, <2>4, <2>5, WayKept
<1>8. CASE SkipCommand \/ TakeStop \/ Fail \/ Account \/ Save \/ FinalizeSave \/ End
  <2>1. UNCHANGED <<transport, tq, model, events, lastPlan, fetched, finals, cleared>>
    BY <1>8, Zenon DEF SkipCommand, TakeStop, TakeCommand, Fail, Account, Save, FinalizeSave,
       End, channelVars, consumerVars
  <2>2. Trained' = Trained /\ Cleared' = Cleared /\ Untaken' = Untaken
    BY <1>2, <2>1 DEF Trained, Cleared, Announced, Untaken, Among
  <2>. QED BY <1>2, <2>1, <2>2, WayKept
<1>. QED BY <1>3, <1>4, <1>5, <1>6, <1>7, <1>8 DEF Consume, ConsumerStep

(* Every step keeps every sample on its way.                               *)
LEMMA WayStep ==
  ASSUME TypeOK, InOrder, QueuesInOrder, OneWay, CheckpointExact(ckpt), [Next]_vars
  PROVE  OneWay'
<1>1. TypeOK' /\ InOrder'
  BY TypeStep, OrderStep
<1>2. CASE UNCHANGED vars
  <2>1. UNCHANGED <<transport, todo, asked, handed, twice, tq, ready, seen, plans, model, events,
                    lastBatch, lastPlan, fetched, finals, cleared>>
    BY <1>2, Zenon DEF vars, channelVars, producerVars, schedulerVars, consumerVars
  <2>2. Trained' = Trained /\ Cleared' = Cleared /\ Untaken' = Untaken
    BY <2>1 DEF Trained, Cleared, Announced, Untaken, Among
  <2>. QED BY <2>1, <2>2, WayKept
<1>. QED
  BY <1>1, <1>2, ProduceWay, ScheduleWay, ConsumeWay, RelaunchWay DEF Next

-----------------------------------------------------------------------------
(* Every consumed sample is trained exactly once                           *)

(* No exception is forgotten.                                              *)
LEMMA TwiceKept ==
  ASSUME [Next]_vars
  PROVE  twice \subseteq twice'
<1>1. CASE Produce
  <2>1. ASSUME NEW s, Put(s) PROVE twice \subseteq twice'
    BY <2>1 DEF Put
  <2>. QED
    BY <1>1, <2>1 DEF Produce, ProducerStep, Request, Drop, PublishOne, PublishAmbiguous,
       PublishFails, Notify, SubmitReferences, Drained, DrainTimeout, Return, ReturnReferences,
       producerVars
<1>2. CASE Schedule \/ Consume
  BY <1>2 DEF Schedule, Consume, producerVars
<1>3. CASE Relaunch
  BY <1>3 DEF Relaunch, ProducerRelaunch
<1>4. CASE UNCHANGED vars
  BY <1>4 DEF vars, producerVars
<1>. QED BY <1>1, <1>2, <1>3, <1>4 DEF Next

(* An exact checkpoint stays one.                                          *)
LEMMA ExactKept ==
  ASSUME NEW c, CheckpointExact(c), twice \subseteq twice'
  PROVE  \A s \in Samples : /\ c.model[s] <= 1 \/ s \in twice'
                            /\ c.model[s] > 0 <=> s \in c.consumed
BY DEF CheckpointExact, TrainedOnce

(* Between two batches the model and what is consumed make a checkpoint.   *)
LEMMA SnapshotExact ==
  ASSUME ExactlyOnce, cur = None
  PROVE  CheckpointExact(Snapshot)
<1>1. Snapshot.model = model /\ Snapshot.consumed = consumed
  BY SMT DEF Snapshot
<1>. QED BY <1>1, Zenon DEF ExactlyOnce, CheckpointExact, TrainedOnce, InTraining

(* Every step of the consumer that touches the model or a checkpoint.      *)
LEMMA ExactSteps ==
  ASSUME [Next]_vars
  PROVE  \/ UNCHANGED <<model, consumed, cur, ckpt, saving, due>>
         \/ /\ UNCHANGED <<producerVars, schedulerVars>>
            /\ Train \/ Account \/ Save \/ FinalizeSave \/ End
         \/ Relaunch
<1>1. CASE Produce \/ Schedule \/ UNCHANGED vars
  BY <1>1 DEF Produce, Schedule, vars, consumerVars
<1>2. CASE Consume
  BY <1>2, Zenon DEF Consume, ConsumerStep, Start, SkipCommand, Fetch, TakeStop, TakeCommand,
     Fail, Clear, Announce, consumerVars
<1>. QED BY <1>1, <1>2 DEF Next

(* Training, saving and a new launch keep the model and its record exact.  *)
LEMMA ExactStep ==
  ASSUME TypeOK, InOrder, OneWay, ExactlyOnce, SavingExact, DueIdle, [Next]_vars
  PROVE  ExactlyOnce' /\ SavingExact' /\ DueIdle'
<1>1. twice \subseteq twice'
  BY TwiceKept
<1>2. CheckpointExact(ckpt) /\ (saving # NoSave => CheckpointExact(saving))
  BY DEF ExactlyOnce, SavingExact
<1>3. ASSUME ckpt' = ckpt PROVE CheckpointExact(ckpt)'
  BY <1>1, <1>2, <1>3, ExactKept DEF CheckpointExact, TrainedOnce
<1>4. ASSUME saving' = saving PROVE SavingExact'
  BY <1>1, <1>2, <1>4, ExactKept DEF SavingExact, CheckpointExact, TrainedOnce
<1>5. ASSUME UNCHANGED <<model, consumed, cur>>
      PROVE  \A s \in Samples : /\ TrainedOnce(model, s)'
                                /\ (model[s] > 0 <=> s \in consumed \/ InTraining(s))'
  BY <1>1, <1>5 DEF ExactlyOnce, TrainedOnce, InTraining
<1>6. CASE UNCHANGED <<model, consumed, cur, ckpt, saving, due>>
  BY <1>3, <1>4, <1>5, <1>6 DEF ExactlyOnce, DueIdle
<1>7. CASE Train /\ UNCHANGED <<producerVars, schedulerVars>>
  <2>1. /\ UNCHANGED <<consumed, ckpt, saving, due>> /\ cur = None /\ ~due
    BY <1>7, Zenon DEF Train, Idle
  <2>2. /\ Trained + 1 \in 1..Len(plans) /\ cur' = PlanMsg(Trained + 1)
        /\ model' = [s \in Samples |-> model[s] + IF s \in plans[Trained + 1] THEN 1 ELSE 0]
    BY <1>7, TrainStep
  <2>3. cur' # None /\ cur'.keys = plans[Trained + 1]
    <3>1. PlanMsg(Trained + 1).kind # None.kind
      BY SMT DEF PlanMsg, Msg, None
    <3>. QED BY <2>2, <3>1, PlanMsgIs
  <2>4. \A s \in plans[Trained + 1] : s \in twice \/ model[s] = 0
    <3>1. Trained + 1 > Trained
      BY Progress, SMT
    <3>. QED BY <2>2, <3>1 DEF OneWay, PlannedOnce
  <2>5. ASSUME NEW s \in Samples
        PROVE  /\ TrainedOnce(model, s)'
               /\ (model[s] > 0 <=> s \in consumed \/ InTraining(s))'
    <3>1. model[s] \in Nat
      BY DEF TypeOK, ConsumerTypeOK
    <3>2. /\ model[s] <= 1 \/ s \in twice
          /\ model[s] > 0 <=> s \in consumed
      BY <2>1 DEF ExactlyOnce, TrainedOnce, InTraining
    <3>3. CASE s \in plans[Trained + 1]
      <4>1. model'[s] = model[s] + 1
        BY <2>2, <3>3
      <4>2. model'[s] <= 1 \/ s \in twice
        BY <2>4, <3>3, <4>1
      <4>3. model'[s] > 0
        BY <3>1, <4>1, SMT
      <4>4. InTraining(s)'
        BY <2>3, <3>3 DEF InTraining
      <4>. QED BY <1>1, <4>2, <4>3, <4>4 DEF TrainedOnce
    <3>4. CASE s \notin plans[Trained + 1]
      <4>1. model'[s] = model[s]
        BY <2>2, <3>1, <3>4, SMT
      <4>2. ~InTraining(s)'
        BY <2>3, <3>4 DEF InTraining
      <4>. QED BY <1>1, <2>1, <3>2, <4>1, <4>2 DEF TrainedOnce
    <3>. QED BY <3>3, <3>4
  <2>. QED BY <1>3, <1>4, <2>1, <2>5 DEF ExactlyOnce, DueIdle
<1>8. CASE Account
  <2>1. /\ UNCHANGED <<model, ckpt, saving>> /\ cur # None /\ cur' = None
        /\ consumed' = consumed \union cur.keys
    BY <1>8, Zenon DEF Account
  <2>2. \A s \in Samples : /\ TrainedOnce(model, s)'
                           /\ (model[s] > 0 <=> s \in consumed \/ InTraining(s))'
    BY <1>1, <2>1 DEF ExactlyOnce, TrainedOnce, InTraining
  <2>. QED BY <1>3, <1>4, <2>1, <2>2 DEF ExactlyOnce, DueIdle
<1>9. CASE Save
  <2>1. /\ UNCHANGED <<model, consumed, cur, ckpt>> /\ due /\ ~due' /\ saving' = Snapshot
    BY <1>9, Zenon DEF Save
  <2>2. CheckpointExact(saving')
    BY <2>1, SnapshotExact DEF DueIdle
  <2>3. SavingExact'
    BY <1>1, <2>2, ExactKept DEF SavingExact, CheckpointExact, TrainedOnce
  <2>. QED BY <1>3, <1>5, <2>1, <2>3 DEF ExactlyOnce, DueIdle
<1>10. CASE FinalizeSave
  <2>1. /\ UNCHANGED <<model, consumed, cur, due>> /\ saving # NoSave /\ saving' = NoSave
        /\ ckpt' = saving
    BY <1>10, Zenon DEF FinalizeSave, Written
  <2>2. CheckpointExact(ckpt)'
    BY <1>1, <1>2, <2>1, ExactKept DEF CheckpointExact, TrainedOnce
  <2>. QED BY <1>5, <2>1, <2>2 DEF ExactlyOnce, SavingExact, DueIdle
<1>11. CASE End
  <2>1. /\ UNCHANGED <<model, consumed, cur, saving, due>> /\ cur = None
        /\ ckpt' = ckpt \/ ckpt' = Snapshot
    BY <1>11, Zenon DEF End, Idle
  <2>2. CheckpointExact(ckpt')
    BY <1>2, <2>1, SnapshotExact
  <2>3. CheckpointExact(ckpt)'
    BY <1>1, <2>2, ExactKept DEF CheckpointExact, TrainedOnce
  <2>. QED BY <1>4, <1>5, <2>1, <2>3 DEF ExactlyOnce, DueIdle
<1>12. CASE Relaunch
  <2>1. /\ ckpt' = ckpt /\ saving' = NoSave /\ ~due' /\ cur' = None
        /\ model' = ckpt.model /\ consumed' = ckpt.consumed
    BY <1>12, Zenon DEF Relaunch, ConsumerRelaunch
  <2>2. \A s \in Samples : /\ TrainedOnce(model, s)'
                           /\ (model[s] > 0 <=> s \in consumed \/ InTraining(s))'
    BY <1>1, <1>2, <2>1, ExactKept DEF TrainedOnce, InTraining
  <2>. QED BY <1>3, <2>1, <2>2 DEF ExactlyOnce, SavingExact, DueIdle
<1>. QED
  BY ExactSteps, <1>6, <1>7, <1>8, <1>9, <1>10, <1>11, <1>12

(* A launch begins with an untrained model and everything to be asked for. *)
LEMMA WayInit == Init => OneWay /\ ExactlyOnce /\ SavingExact /\ DueIdle
<1>. SUFFICES ASSUME Init PROVE OneWay /\ ExactlyOnce /\ SavingExact /\ DueIdle
  OBVIOUS
<1>1. /\ tq = {} /\ events = <<>> /\ plans = <<>> /\ ready = {} /\ seen = {}
      /\ asked = {} /\ handed = {} /\ todo = Samples
      /\ model = [s \in Samples |-> 0] /\ consumed = {} /\ cur = None /\ saving = NoSave
      /\ ~due /\ ckpt = [step |-> 0, consumed |-> {}, model |-> [s \in Samples |-> 0]]
  BY Zenon DEF Init, ChannelsInit, ProducerInit, SchedulerInit, ConsumerInit
<1>2. Len(events) = 0 /\ Len(plans) = 0
  BY <1>1, EmptySeq
<1>3. Untaken = {} /\ \A i \in 1..Len(plans) : FALSE
  BY <1>2, SMT DEF Untaken, Among
<1>4. OneWay
  <2>1. AskedOnce
    BY <1>1 DEF AskedOnce
  <2>2. HandedOn
    BY <1>1, <1>3 DEF HandedOn, Planned
  <2>3. PlannedOnce
    BY <1>1, <1>3 DEF PlannedOnce
  <2>4. ToldOnce
    BY <1>3 DEF ToldOnce
  <2>. QED BY <2>1, <2>2, <2>3, <2>4 DEF OneWay
<1>5. ExactlyOnce
  <2>1. /\ ckpt.consumed = {} /\ ckpt.model = [s \in Samples |-> 0]
    BY <1>1
  <2>2. \A s \in Samples : model[s] = 0 /\ ckpt.model[s] = 0
    BY <1>1, <2>1
  <2>3. CheckpointExact(ckpt)
    BY <2>1, <2>2, SMT DEF CheckpointExact, TrainedOnce
  <2>4. \A s \in Samples : TrainedOnce(model, s) /\ (model[s] > 0 <=> s \in consumed \/ InTraining(s))
    BY <1>1, <2>2 DEF TrainedOnce, InTraining
  <2>. QED BY <2>3, <2>4 DEF ExactlyOnce
<1>. QED BY <1>1, <1>4, <1>5 DEF SavingExact, DueIdle

(* Every step keeps the sample on its way and the model exact.             *)
LEMMA WayAndExactStep ==
  /\ TypeOK /\ InOrder /\ QueuesInOrder
  /\ OneWay /\ ExactlyOnce /\ SavingExact /\ DueIdle
  /\ [Next]_vars
  => (OneWay /\ ExactlyOnce /\ SavingExact /\ DueIdle)'
<1>. SUFFICES ASSUME TypeOK, InOrder, QueuesInOrder, OneWay, ExactlyOnce, SavingExact, DueIdle,
                     [Next]_vars
              PROVE  (OneWay /\ ExactlyOnce /\ SavingExact /\ DueIdle)'
  OBVIOUS
<1>1. OneWay'
  BY WayStep DEF ExactlyOnce
<1>. QED BY <1>1, ExactStep

(* Whatever is lost, delivered twice or resumed: the model in memory, and  *)
(* the one in the checkpoint, was trained once on each sample consumed,    *)
(* and on nothing else.                                                    *)
THEOREM StandaloneExactlyOnce == Spec => []ExactlyOnce
<1>1. Spec => [](OneWay /\ ExactlyOnce /\ SavingExact /\ DueIdle)
  BY WayInit, WayAndExactStep, StandaloneTypes, PlansInOrder, PTL DEF Spec
<1>. QED BY <1>1, PTL
=============================================================================
