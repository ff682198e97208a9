------------------------ MODULE StandaloneEndProofs ------------------------
(***************************************************************************)
(* Proofs that the parties of standalone training never contradict each    *)
(* other, and that a run that ends has accounted for its samples.          *)
(***************************************************************************)
EXTENDS StandaloneProofs

(* What is known of every step: types, order and the way of a sample.      *)
Base == TypeOK /\ InOrder /\ QueuesInOrder /\ OneWay /\ ExactlyOnce /\ SavingExact /\ DueIdle

(* All of it holds in every state.                                         *)
THEOREM StandaloneBase == Spec => []Base
<1>1. Spec => [](OneWay /\ ExactlyOnce /\ SavingExact /\ DueIdle)
  BY WayInit, WayAndExactStep, StandaloneTypes, PlansInOrder, PTL DEF Spec
<1>. QED BY <1>1, StandaloneTypes, PlansInOrder, PTL DEF Base

(* What a step of the consumer counts.                                     *)
LEMMA Counters ==
  ASSUME TypeOK, InOrder, QueuesInOrder, Consume
  PROVE  /\ Train => Trained' = Trained + 1 /\ Announced' = Announced
         /\ Announce => Trained' = Trained /\ Announced' = Announced + 1
         /\ ~Train /\ ~Announce => Trained' = Trained /\ Announced' = Announced
<1>1. ASSUME Train PROVE Trained' = Trained + 1 /\ Announced' = Announced
  <2>1. /\ lastPlan' = lastPlan /\ fetched # <<>> /\ fetched' = Tail(fetched)
        /\ finals' = Append(finals, Head(fetched))
    BY <1>1, Zenon DEF Train
  <2>2. /\ Len(fetched) \in Nat \ {0} /\ Len(fetched') = Len(fetched) - 1
        /\ Len(finals') = Len(finals) + 1
    BY <2>1, Taken, AppendProperties DEF TypeOK, ConsumerTypeOK
  <2>3. Trained' = lastPlan' - Len(fetched') /\ Announced' = Trained' - Len(finals')
    BY DEF Trained, Announced
  <2>. QED BY <2>1, <2>2, <2>3, Progress, SMTT(30)
<1>2. ASSUME Announce PROVE Trained' = Trained /\ Announced' = Announced + 1
  <2>1. /\ UNCHANGED <<lastPlan, fetched>> /\ finals # <<>> /\ finals' = Tail(finals)
    BY <1>2, Zenon DEF Announce
  <2>2. Len(finals) \in Nat \ {0} /\ Len(finals') = Len(finals) - 1
    BY <2>1, Taken, SMTT(30) DEF TypeOK, ConsumerTypeOK
  <2>3. Trained' = Trained
    BY <2>1 DEF Trained
  <2>4. Announced' = Trained' - Len(finals')
    BY DEF Announced
  <2>. QED BY <2>2, <2>3, <2>4, Progress, SMTT(30)
<1>3. ASSUME Fetch PROVE Trained' = Trained /\ Announced' = Announced
  <2>1. /\ finals' = finals
        /\ commands # <<>> /\ Head(commands).kind = "batch" /\ Head(commands).id > lastPlan
        /\ lastPlan' = Head(commands).id /\ fetched' = Append(fetched, Head(commands))
    BY <1>3, Zenon DEF Fetch, TakeCommand
  <2>2. lastPlan' = lastPlan + 1
    BY <2>1, NextCommand
  <2>3. Len(fetched') = Len(fetched) + 1
    BY <2>1, Taken, AppendProperties DEF TypeOK, ChannelsTypeOK, ConsumerTypeOK
  <2>4. Trained' = Trained
    <3>1. Trained' = lastPlan' - Len(fetched')
      BY DEF Trained
    <3>. QED BY <2>2, <2>3, <3>1, Progress, SMT
  <2>. QED BY <2>1, <2>4 DEF Announced
<1>4. ASSUME \/ Start \/ SkipCommand \/ TakeStop \/ Fail \/ Account \/ Clear \/ Save
             \/ FinalizeSave \/ End
      PROVE  Trained' = Trained /\ Announced' = Announced
  <2>1. UNCHANGED <<lastPlan, fetched, finals>>
    BY <1>4, Zenon DEF Start, SkipCommand, TakeStop, TakeCommand, Fail, Account, Clear, Save,
       FinalizeSave, End, consumerVars
  <2>. QED BY <2>1 DEF Trained, Announced
<1>. QED BY <1>1, <1>2, <1>3, <1>4, Zenon DEF Consume, ConsumerStep

(* No other step counts.                                                   *)
LEMMA CountersKept ==
  ASSUME UNCHANGED consumerVars
  PROVE  Trained' = Trained /\ Announced' = Announced /\ Cleared' = Cleared
BY DEF consumerVars, Trained, Announced, Cleared

(* Clearing only goes forward.                                             *)
LEMMA ClearedForward ==
  ASSUME TypeOK, TypeOK', InOrder, InOrder', QueuesInOrder, Consume
  PROVE  /\ Cleared <= Cleared'
         /\ Cleared' = Cleared \/ Clear \/ Announce
<1>1. /\ Cleared \in Nat /\ Cleared <= Trained
      /\ ~cleared => Cleared = Announced
      /\ cleared => Cleared = Announced + 1
      /\ Announced \in Nat
  BY ClearedIs, Progress
<1>2. cleared' => Cleared' = Announced' + 1
  BY DEF Cleared
<1>3. ~cleared' => Cleared' = Announced' + 0
  BY DEF Cleared
<1>4. CASE Announce
  <2>1. Announced' = Announced + 1 /\ ~cleared'
    BY <1>4, Counters DEF Announce
  <2>2. Cleared' = Announced + 1
    BY <1>1, <1>3, <2>1, SMT
  <2>. QED BY <1>1, <1>4, <2>2, SMT
<1>5. CASE Clear
  <2>1. cleared' /\ Announced' = Announced /\ ~cleared
    <3>1. cleared' /\ ~cleared /\ UNCHANGED <<lastPlan, fetched, finals>>
      BY <1>5, Zenon DEF Clear
    <3>. QED BY <3>1 DEF Announced, Trained
  <2>2. Cleared' = Announced + 1 /\ Cleared = Announced
    BY <1>1, <1>2, <2>1
  <2>. QED BY <1>1, <1>5, <2>2, SMT
<1>6. CASE ~Announce /\ ~Clear
  <2>1. cleared' = cleared
    BY <1>6, Zenon DEF Consume, ConsumerStep, Start, SkipCommand, Fetch, TakeStop, TakeCommand,
       Train, Fail, Account, Save, FinalizeSave, End, consumerVars
  <2>2. Announced' = Announced
    BY <1>6, Counters
  <2>3. Cleared' = Cleared
    BY <2>1, <2>2 DEF Cleared
  <2>. QED BY <1>1, <2>3, SMT
<1>. QED BY <1>4, <1>5, <1>6

-----------------------------------------------------------------------------
(* The store holds what is to be trained                                   *)

(* Steps that take nothing from the store and plan nothing.                *)
LEMMA StoreKept ==
  ASSUME StoreHolds, UNCHANGED <<transport, plans>>, tq \subseteq tq', ready' \subseteq ready,
         Cleared <= Cleared', completed <= completed', Len(plans) \in Nat,
         Cleared \in Nat, Cleared' \in Nat, completed \in Nat, completed' \in Nat
  PROVE  StoreHolds'
<1>1. ASSUME NEW a \in Nat, NEW b \in Nat, a <= b, NEW i \in (b + 1)..Len(plans)
      PROVE  i \in (a + 1)..Len(plans)
  BY <1>1, SMT
<1>2. \A i \in (Cleared' + 1)..Len(plans) : i \in (Cleared + 1)..Len(plans)
  BY <1>1
<1>3. \A i \in (completed' + 1)..Len(plans) : i \in (completed + 1)..Len(plans)
  BY <1>1
<1>. QED BY <1>2, <1>3 DEF StoreHolds

(* What is ready after a listing is in the store, and no plan outstanding  *)
(* has it.                                                                 *)
LEMMA ConfirmedHeld ==
  ASSUME StoreHolds
  PROVE  /\ transport = "tq" => Confirmed \subseteq tq
         /\ \A i \in (completed + 1)..Len(plans) : Confirmed \intersect plans[i] = {}
<1>1. \A i \in (completed + 1)..Len(plans) : Reserved \intersect plans[i] = plans[i]
  BY DEF Reserved
<1>. QED BY <1>1 DEF StoreHolds, Confirmed

(* A plan takes ready samples that no plan outstanding has.                *)
LEMMA DispatchStore ==
  ASSUME TypeOK, InOrder, StoreHolds, Dispatch, UNCHANGED consumerVars
  PROVE  StoreHolds'
<1>1. PICK keys \in SUBSET Confirmed :
        plans' = Append(plans, keys) /\ ready' = Confirmed \ keys
  BY DEF Dispatch
<1>2. UNCHANGED <<transport, tq, completed>> /\ Cleared' = Cleared
  BY CountersKept, Zenon DEF Dispatch
<1>. DEFINE n == Len(plans) + 1
<1>3. /\ Len(plans') = n /\ plans'[n] = keys
      /\ \A i \in 1..Len(plans) : plans'[i] = plans[i]
  <2>1. keys \in SUBSET Samples /\ plans \in Seq(SUBSET Samples)
    BY ConfirmedTypes DEF TypeOK, SchedulerTypeOK
  <2>. QED BY <1>1, <2>1, AppendProperties
<1>4. /\ Len(plans) \in Nat /\ Cleared \in Nat /\ completed \in Nat
  BY Progress, ClearedIs
<1>5. \A i \in (completed + 1)..n : i = n \/ i \in (completed + 1)..Len(plans)
  BY <1>4, SMT
<1>6. \A i \in (Cleared + 1)..n : i = n \/ i \in (Cleared + 1)..Len(plans)
  BY <1>4, SMT
<1>7. \A i \in (completed + 1)..Len(plans) : i \in 1..Len(plans) /\ i # n
  BY <1>4, SMT
<1>8. \A i \in (Cleared + 1)..Len(plans) : i \in 1..Len(plans) /\ i # n
  BY <1>4, SMT
<1>. HIDE DEF n
<1>9. /\ transport = "tq" => Confirmed \subseteq tq
      /\ \A i \in (completed + 1)..Len(plans) : Confirmed \intersect plans[i] = {}
  BY ConfirmedHeld
<1>10. transport = "tq" =>
         ready' \subseteq tq /\ \A i \in (Cleared + 1)..n : plans'[i] \subseteq tq
  BY <1>1, <1>3, <1>6, <1>8, <1>9 DEF StoreHolds
<1>11. \A i \in (completed + 1)..n : ready' \intersect plans'[i] = {}
  BY <1>1, <1>3, <1>5, <1>7, <1>9
<1>12. \A i, j \in (completed + 1)..n : i # j => plans'[i] \intersect plans'[j] = {}
  <2>1. \A i, j \in (completed + 1)..Len(plans) : i # j => plans[i] \intersect plans[j] = {}
    BY DEF StoreHolds
  <2>2. \A i \in (completed + 1)..Len(plans) : keys \intersect plans[i] = {}
    BY <1>9
  <2>. QED BY <1>3, <1>5, <1>7, <2>1, <2>2
<1>. QED BY <1>2, <1>3, <1>10, <1>11, <1>12, Zenon DEF StoreHolds

(* A trained batch is cleared, and nothing else with it.                   *)
LEMMA ClearStore ==
  ASSUME TypeOK, TypeOK', InOrder, InOrder', QueuesInOrder, StoreHolds, Consume, Clear
  PROVE  StoreHolds'
<1>1. /\ UNCHANGED <<transport, ready, plans, completed, lastPlan, fetched, finals>>
      /\ finals # <<>> /\ ~cleared /\ cleared' /\ tq' = tq \ Head(finals).keys
  BY Zenon DEF Consume, Clear, schedulerVars
<1>2. Announced' = Announced
  BY <1>1 DEF Announced, Trained
<1>3. Cleared = Announced /\ Cleared' = Announced + 1 /\ Announced \in Nat
  <2>1. cleared' => Cleared' = Announced' + 1
    BY DEF Cleared
  <2>. QED BY <1>1, <1>2, <2>1, ClearedIs, Progress
<1>4. Head(finals).keys = plans[Announced + 1]
  <2>1. Head(finals) = finals[1] /\ Len(finals) \in Nat \ {0}
    BY <1>1, Taken DEF TypeOK, ConsumerTypeOK
  <2>2. 1 \in 1..Len(finals)
    BY <2>1, SMT
  <2>3. finals[1] = PlanMsg(Announced + 1)
    BY <2>2 DEF InOrder
  <2>. QED BY <2>1, <2>3, PlanMsgIs
<1>5. Announced + 1 \in (completed + 1)..Len(plans)
  <2>1. Len(finals) \in Nat \ {0}
    BY <1>1, Taken DEF TypeOK, ConsumerTypeOK
  <2>. QED BY <2>1, Progress, SMT
<1>6. ASSUME NEW i \in (Announced + 2)..Len(plans)
      PROVE  /\ i \in (Cleared + 1)..Len(plans) /\ i \in (completed + 1)..Len(plans)
             /\ i # Announced + 1
  BY <1>3, <1>6, Progress, SMTT(30)
<1>7. transport = "tq" =>
        ready' \subseteq tq' /\ \A i \in (Announced + 2)..Len(plans) : plans[i] \subseteq tq'
  BY <1>1, <1>4, <1>5, <1>6 DEF StoreHolds
<1>8. \A i \in (Cleared' + 1)..Len(plans) : i \in (Announced + 2)..Len(plans)
  BY <1>3, Progress, SMT
<1>. QED BY <1>1, <1>7, <1>8 DEF StoreHolds

(* Every step keeps in the store what is to be trained.                    *)
LEMMA StoreStep ==
  ASSUME Base, Base', StoreHolds, [Next]_vars
  PROVE  StoreHolds'
<1>1. TypeOK /\ InOrder /\ QueuesInOrder /\ OneWay /\ TypeOK' /\ InOrder'
  BY DEF Base
<1>2. /\ Len(plans) \in Nat /\ Cleared \in Nat /\ completed \in Nat /\ completed' \in Nat
  BY <1>1, Progress, ClearedIs DEF TypeOK, SchedulerTypeOK
<1>3. CASE Produce
  <2>1. UNCHANGED <<transport, ready, plans, completed>> /\ Cleared' = Cleared
    BY <1>3, CountersKept, Zenon DEF Produce, ProducerStep, Request, Drop, PublishOne,
       PublishAmbiguous, PublishFails, Notify, SubmitReferences, Drained, DrainTimeout, Return,
       ReturnReferences, channelVars, schedulerVars
  <2>2. tq \subseteq tq'
    BY <1>3, Zenon DEF Produce, ProducerStep, Request, Drop, PublishOne, PublishAmbiguous,
       PublishFails, Put, Notify, SubmitReferences, Drained, DrainTimeout, Return,
       ReturnReferences, channelVars
  <2>. QED BY <1>2, <2>1, <2>2, StoreKept
<1>4. CASE Schedule
  <2>1. UNCHANGED consumerVars /\ Cleared' = Cleared
    BY <1>4, CountersKept DEF Schedule
  <2>2. CASE Dispatch
    BY <1>1, <2>1, <2>2, DispatchStore
  <2>3. CASE StopAtTail
    <3>1. /\ UNCHANGED <<transport, plans, completed>> /\ ready' = {}
          /\ Outstanding = 0
      BY <2>3, Zenon DEF StopAtTail, AtTail
    <3>2. \A i \in (completed + 1)..Len(plans) : FALSE
      BY <1>2, <3>1, SMT DEF Outstanding
    <3>3. \A i \in (Cleared + 1)..Len(plans) : FALSE
      BY <1>1, <1>2, <3>1, Progress, ClearedIs, SMT DEF Outstanding
    <3>. QED BY <2>1, <3>1, <3>2, <3>3 DEF StoreHolds
  <2>4. CASE KeepWaiting
    <3>1. UNCHANGED <<transport, plans, completed, tq>> /\ ready' = Confirmed
      BY <2>4, Zenon DEF KeepWaiting, channelVars
    <3>. QED BY <2>1, <3>1, ConfirmedHeld DEF StoreHolds
  <2>5. CASE OnSamples
    <3>1. UNCHANGED <<transport, plans, completed, tq>>
      BY <2>5, Zenon DEF OnSamples, Take
    <3>2. CASE Head(events).id <= lastBatch
      <4>1. ready' = ready
        BY <2>5, <3>2, Zenon DEF OnSamples
      <4>. QED BY <2>1, <3>1, <4>1 DEF StoreHolds
    <3>3. CASE ~(Head(events).id <= lastBatch)
      <4>1. ready' \intersect Reserved = {}
        BY <2>5, <3>3 DEF OnSamples
      <4>2. transport # "tq"
        <5>1. events # <<>> /\ Head(events).kind = "samples"
          BY <2>5 DEF OnSamples, Take
        <5>2. /\ Head(events) = events[1] /\ Len(events) \in Nat \ {0}
              /\ Head(events) \in Message
          BY <1>1, <5>1, Taken DEF TypeOK, ChannelsTypeOK
        <5>3. 1 \in 1..Len(events)
          BY <5>2, SMT
        <5>4. Head(events).id > lastBatch
          BY <1>1, <3>3, <5>2, SMT DEF Message, TypeOK, SchedulerTypeOK
        <5>5. Head(events) \in Untaken
          BY <5>1, <5>2, <5>3, <5>4 DEF Untaken, Among
        <5>. QED BY <1>1, <5>5 DEF OneWay, HandedOn
      <4>3. \A i \in (completed + 1)..Len(plans) : ready' \intersect plans[i] = {}
        BY <4>1 DEF Reserved
      <4>. QED BY <2>1, <3>1, <4>2, <4>3 DEF StoreHolds
    <3>. QED BY <3>2, <3>3
  <2>6. CASE OnCompleted
    <3>1. UNCHANGED <<transport, plans, tq, ready>> /\ completed' = completed + 1
      BY <2>6, Zenon DEF OnCompleted, Take
    <3>2. completed <= completed' /\ Cleared <= Cleared'
      BY <1>2, <2>1, <3>1, SMT
    <3>. QED BY <1>2, <2>1, <3>1, <3>2, StoreKept
  <2>7. CASE \/ StopAtBudget \/ ProducerReturned \/ ProducerRaised \/ ConsumerRaised \/ Finish
             \/ ConsumerReturned(optStep) \/ OnReady \/ OnPublished \/ OnProducerDone
             \/ OnCompletedAgain
    <3>1. UNCHANGED <<transport, plans, completed, tq, ready>>
      BY <2>7, Zenon DEF StopAtBudget, ProducerReturned, ProducerRaised, ConsumerRaised,
         Finish, ConsumerReturned, OnReady, OnPublished, OnProducerDone, OnCompletedAgain,
         Take, schedulerVars
    <3>. QED BY <2>1, <3>1 DEF StoreHolds
  <2>. QED
    BY <1>4, <2>2, <2>3, <2>4, <2>5, <2>6, <2>7 DEF Schedule, SchedulerStep
<1>5. CASE Consume
  <2>1. CASE Clear
    BY <1>1, <1>5, <2>1, ClearStore
  <2>2. CASE ~Clear
    <3>1. UNCHANGED <<transport, plans, completed, tq, ready>>
      BY <1>5, <2>2, Zenon DEF Consume, ConsumerStep, Start, SkipCommand, Fetch, TakeStop,
         TakeCommand, Train, Fail, Account, Announce, Save, FinalizeSave, End, channelVars,
         schedulerVars
    <3>2. Cleared <= Cleared' /\ (Cleared' = Cleared \/ Announce)
      BY <1>1, <1>5, <2>2, ClearedForward
    <3>3. Cleared' \in Nat
      <4>1. Announce => Cleared' = Announced'
        <5>1. ~cleared' => Cleared' = Announced' + 0
          BY DEF Cleared
        <5>2. Announce => Announced' = Announced + 1 /\ ~cleared'
          BY <1>1, <1>5, Counters DEF Announce
        <5>. QED BY <1>1, <5>1, <5>2, Progress, SMT
      <4>2. Announce => Announced' = Announced + 1
        BY <1>1, <1>5, Counters
      <4>. QED BY <1>1, <1>2, <3>2, <4>1, <4>2, Progress, SMT
    <3>. QED BY <1>2, <3>1, <3>2, <3>3, StoreKept
  <2>. QED BY <2>1, <2>2
<1>6. CASE Relaunch
  <2>1. ready' = {} /\ plans' = <<>>
    BY <1>6, Zenon DEF Relaunch, SchedulerRelaunch
  <2>2. /\ \A i \in (completed' + 1)..Len(plans') : FALSE
        /\ completed' = 0 /\ Len(plans') = 0 /\ Cleared' = 0
    <3>1. completed' = 0 /\ Len(plans') = 0 /\ ~cleared'
      BY <1>6, <2>1, EmptySeq, Zenon DEF Relaunch, SchedulerRelaunch, ConsumerRelaunch
    <3>2. lastPlan' = 0 /\ Len(fetched') = 0 /\ Len(finals') = 0
      <4>1. lastPlan' = 0 /\ fetched' = <<>> /\ finals' = <<>>
        BY <1>6, Zenon DEF Relaunch, ConsumerRelaunch
      <4>. QED BY <4>1, EmptySeq
    <3>3. Announced' = 0
      BY <3>2, SMT DEF Announced, Trained
    <3>4. ~cleared' => Cleared' = Announced' + 0
      BY DEF Cleared
    <3>. QED BY <3>1, <3>3, <3>4, SMT
  <2>3. \A i \in (Cleared' + 1)..Len(plans') : FALSE
    BY <2>2, SMT
  <2>. QED BY <2>1, <2>2, <2>3 DEF StoreHolds
<1>7. CASE UNCHANGED vars
  <2>1. UNCHANGED <<transport, plans, completed, tq, ready>> /\ Cleared' = Cleared
    BY <1>7, CountersKept, Zenon DEF vars, channelVars, schedulerVars
  <2>. QED BY <2>1 DEF StoreHolds
<1>. QED BY <1>3, <1>4, <1>5, <1>6, <1>7 DEF Next

-----------------------------------------------------------------------------
(* The budget                                                              *)

(* Messages of a kind after one more was sent.                             *)
LEMMA AmongSent ==
  ASSUME NEW queue \in Seq(Message), NEW m \in Message, NEW after, Send(queue, m, after), NEW kind
  PROVE  /\ m.kind # kind => Among(after, kind) = Among(queue, kind)
         /\ m.kind = kind => Among(after, kind) = Among(queue, kind) \union {m}
<1>1. /\ Len(after) \in Nat /\ Len(queue) \in Nat /\ Len(after) >= Len(queue) + 1
      /\ \A i \in 1..Len(queue) : after[i] = queue[i]
      /\ \A i \in (Len(queue) + 1)..Len(after) : after[i] = m
  BY Sent, LenProperties
<1>2. /\ \A i \in 1..Len(after) :
           i \in 1..Len(queue) \/ i \in (Len(queue) + 1)..Len(after)
      /\ \A i \in 1..Len(queue) : i \in 1..Len(after)
      /\ Len(queue) + 1 \in 1..Len(after)
      /\ Len(queue) + 1 \in (Len(queue) + 1)..Len(after)
  BY <1>1, SMT
<1>3. {after[i] : i \in 1..Len(after)} = {queue[i] : i \in 1..Len(queue)} \union {m}
  BY <1>1, <1>2
<1>. QED BY <1>3 DEF Among

(* Messages of a kind after the first message was taken.                   *)
LEMMA AmongTaken ==
  ASSUME NEW queue \in Seq(Message), queue # <<>>, NEW kind
  PROVE  /\ Among(Tail(queue), kind) \subseteq Among(queue, kind)
         /\ Head(queue).kind # kind => Among(Tail(queue), kind) = Among(queue, kind)
         /\ Head(queue).kind = kind => Head(queue) \in Among(queue, kind)
<1>1. /\ Len(queue) \in Nat \ {0} /\ Len(Tail(queue)) = Len(queue) - 1
      /\ Head(queue) = queue[1]
      /\ \A i \in 1..(Len(queue) - 1) : Tail(queue)[i] = queue[i + 1]
  BY Taken
<1>2. /\ \A i \in 1..(Len(queue) - 1) : i + 1 \in 1..Len(queue)
      /\ \A i \in 1..Len(queue) : i = 1 \/ (i - 1 \in 1..(Len(queue) - 1) /\ (i - 1) + 1 = i)
      /\ 1 \in 1..Len(queue)
  BY <1>1, SMT
<1>3. {queue[i] : i \in 1..Len(queue)} =
        {Tail(queue)[i] : i \in 1..Len(Tail(queue))} \union {Head(queue)}
  BY <1>1, <1>2
<1>. QED BY <1>3, SMTT(30) DEF Among

(* The step the consumer started from stays what it was.                   *)
LEMMA StartStepKept ==
  ASSUME TypeOK, InOrder, QueuesInOrder, Consume
  PROVE  StartStep' = StartStep
<1>1. optStep \in Nat /\ Trained \in Nat
  BY Progress DEF TypeOK, ConsumerTypeOK
<1>2. /\ cur = None => StartStep = optStep + 0 - Trained
      /\ cur # None => StartStep = optStep + 1 - Trained
      /\ cur' = None => StartStep' = optStep' + 0 - Trained'
      /\ cur' # None => StartStep' = optStep' + 1 - Trained'
  BY DEF StartStep
<1>3. CASE Train
  <2>1. cur = None /\ optStep' = optStep /\ fetched # <<>> /\ cur' = Head(fetched)
    BY <1>3, Zenon DEF Train, Idle
  <2>2. cur' # None
    <3>1. Head(fetched) = fetched[1] /\ Len(fetched) \in Nat \ {0}
      BY <2>1, Taken DEF TypeOK, ConsumerTypeOK
    <3>2. 1 \in 1..Len(fetched)
      BY <3>1, SMT
    <3>3. fetched[1] = PlanMsg(Trained + 1)
      BY <3>2 DEF InOrder
    <3>4. PlanMsg(Trained + 1).kind # None.kind
      BY SMT DEF PlanMsg, Msg, None
    <3>. QED BY <2>1, <3>1, <3>3, <3>4
  <2>3. Trained' = Trained + 1
    BY <1>3, Counters
  <2>. QED BY <1>1, <1>2, <2>1, <2>2, <2>3, SMT
<1>4. CASE Account
  <2>1. cur # None /\ cur' = None /\ optStep' = optStep + 1 /\ UNCHANGED <<lastPlan, fetched>>
    BY <1>4, Zenon DEF Account
  <2>2. Trained' = Trained
    BY <2>1 DEF Trained
  <2>. QED BY <1>1, <1>2, <2>1, <2>2, SMT
<1>5. CASE ~Train /\ ~Account
  <2>1. UNCHANGED <<cur, optStep>>
    BY <1>5, Zenon DEF Consume, ConsumerStep, Start, SkipCommand, Fetch, TakeStop, TakeCommand,
       Fail, Clear, Announce, Save, FinalizeSave, End, consumerVars
  <2>2. Trained' = Trained
    BY <1>5, Counters
  <2>. QED BY <2>1, <2>2 DEF StartStep
<1>. QED BY <1>3, <1>4, <1>5

(* Steps that leave the budget alone.                                      *)
LEMMA BudgetUntouched ==
  ASSUME BudgetKept, UNCHANGED <<consumerReady, initialStep, plans>>, StartStep' = StartStep,
         Among(events, "ready")' = Among(events, "ready"),
         \/ UNCHANGED <<consumer, lastPlan>>
         \/ consumer # "starting" /\ consumer' # "starting"
  PROVE  BudgetKept'
<1>1. /\ consumer' = "starting" => lastPlan' = 0
      /\ consumer' = "starting" <=> consumer = "starting"
  BY DEF BudgetKept
<1>2. /\ consumer # "starting" => consumerReady \/ Among(events, "ready") # {}
      /\ \A m \in Among(events, "ready") : consumer # "starting" /\ m.id = StartStep
      /\ consumerReady =>
           MaxSteps = 0 \/ (consumer # "starting" /\ initialStep = StartStep)
      /\ ~consumerReady => plans = <<>>
      /\ MaxSteps > 0 => plans = <<>> \/ initialStep + Len(plans) <= MaxSteps
  BY DEF BudgetKept
<1>. QED BY <1>1, <1>2, Zenon DEF BudgetKept

(* The producer does not speak for the consumer, and with the store it     *)
(* sends no completion event.                                              *)
LEMMA ProducedAmong ==
  ASSUME TypeOK, Produce
  PROVE  /\ Among(events', "ready") = Among(events, "ready")
         /\ transport = "tq" => Among(events', "producer_done") = Among(events, "producer_done")
<1>1. events \in Seq(Message)
  BY DEF TypeOK, ChannelsTypeOK
<1>2. CASE Notify
  <2>1. Send(events, Msg("published", published, {}), events')
    BY <1>2 DEF Notify, PutEvent
  <2>2. /\ Msg("published", published, {}) \in Message
        /\ Msg("published", published, {}).kind = "published"
    BY MsgTypes DEF Kinds, TypeOK, ProducerTypeOK
  <2>. QED BY <1>1, <2>1, <2>2, AmongSent
<1>3. CASE ReturnReferences
  <2>1. Send(events, Msg("producer_done", 0, {}), events') /\ transport # "tq"
    BY <1>3 DEF ReturnReferences, PutEvent
  <2>2. /\ Msg("producer_done", 0, {}) \in Message
        /\ Msg("producer_done", 0, {}).kind = "producer_done"
    BY MsgTypes DEF Kinds
  <2>. QED BY <1>1, <2>1, <2>2, AmongSent
<1>4. CASE SubmitReferences
  <2>1. PICK keys \in SUBSET asked : Send(events, Msg("samples", batchId + 1, keys), events')
    BY <1>4 DEF SubmitReferences, PutEvent
  <2>2. /\ Msg("samples", batchId + 1, keys) \in Message
        /\ Msg("samples", batchId + 1, keys).kind = "samples"
    <3>1. batchId + 1 \in Nat /\ keys \in SUBSET Samples
      BY SMT DEF TypeOK, ProducerTypeOK
    <3>. QED BY <3>1, MsgTypes DEF Kinds
  <2>. QED BY <1>1, <2>1, <2>2, AmongSent
<1>5. CASE ~Notify /\ ~ReturnReferences /\ ~SubmitReferences
  <2>1. events' = events
    BY <1>5, Zenon DEF Produce, ProducerStep, Request, Drop, PublishOne, PublishAmbiguous,
       PublishFails, Drained, DrainTimeout, Return, channelVars
  <2>. QED BY <2>1
<1>. QED BY <1>2, <1>3, <1>4, <1>5

(* The driver only takes events.                                           *)
LEMMA ScheduledAmong ==
  ASSUME TypeOK, Schedule
  PROVE  /\ ~OnReady => Among(events', "ready") = Among(events, "ready")
         /\ OnReady => Among(events', "ready") \subseteq Among(events, "ready")
         /\ OnReady => Head(events) \in Among(events, "ready")
         /\ Among(events', "producer_done") \subseteq Among(events, "producer_done")
<1>1. events \in Seq(Message)
  BY DEF TypeOK, ChannelsTypeOK
<1>2. ASSUME NEW kind, Take(kind)
      PROVE  /\ kind # "ready" => Among(events', "ready") = Among(events, "ready")
             /\ kind = "ready" => /\ Among(events', "ready") \subseteq Among(events, "ready")
                                  /\ Head(events) \in Among(events, "ready")
             /\ Among(events', "producer_done") \subseteq Among(events, "producer_done")
  <2>1. events # <<>> /\ Head(events).kind = kind /\ events' = Tail(events)
    BY <1>2 DEF Take
  <2>. QED BY <1>1, <2>1, AmongTaken
<1>3. CASE OnReady
  BY <1>2, <1>3 DEF OnReady
<1>4. CASE OnPublished \/ OnSamples \/ OnProducerDone \/ OnCompletedAgain \/ OnCompleted
  <2>1. \E kind \in {"published", "samples", "producer_done", "completed"} : Take(kind)
    BY <1>4 DEF OnPublished, OnSamples, OnProducerDone, OnCompletedAgain, OnCompleted
  <2>2. OnReady => Take("ready")
    BY DEF OnReady
  <2>. QED BY <1>2, <2>1, <2>2
<1>5. CASE \/ Dispatch \/ StopAtBudget \/ StopAtTail \/ KeepWaiting \/ ProducerReturned
           \/ ProducerRaised \/ ConsumerRaised \/ Finish \/ ConsumerReturned(optStep)
  <2>1. events' = events
    BY <1>5, Zenon DEF Dispatch, StopAtBudget, StopAtTail, KeepWaiting, ProducerReturned,
       ProducerRaised, ConsumerRaised, Finish, ConsumerReturned, PutCommand, channelVars
  <2>2. OnReady => Take("ready")
    BY DEF OnReady
  <2>. QED BY <1>2, <2>1, <2>2
<1>. QED BY <1>3, <1>4, <1>5 DEF Schedule, SchedulerStep

(* The consumer says once that it is ready, and never that the producer is *)
(* done.                                                                   *)
LEMMA ConsumedAmong ==
  ASSUME TypeOK, Consume
  PROVE  /\ ~Start => Among(events', "ready") = Among(events, "ready")
         /\ Start => Among(events', "ready") =
                       Among(events, "ready") \union {Msg("ready", optStep, {})}
         /\ Among(events', "producer_done") = Among(events, "producer_done")
<1>1. events \in Seq(Message)
  BY DEF TypeOK, ChannelsTypeOK
<1>2. CASE Start
  <2>1. Send(events, Msg("ready", optStep, {}), events')
    BY <1>2 DEF Start, PutEvent
  <2>2. Msg("ready", optStep, {}) \in Message /\ Msg("ready", optStep, {}).kind = "ready"
    BY MsgTypes DEF Kinds, TypeOK, ConsumerTypeOK
  <2>. QED BY <1>1, <1>2, <2>1, <2>2, AmongSent, SMTT(30)
<1>3. CASE Announce /\ ~Start
  <2>. DEFINE m == Msg("completed", Head(finals).id, Head(finals).keys)
  <2>1. Send(events, m, events') /\ finals # <<>>
    BY <1>3 DEF Announce, PutEvent
  <2>2. m \in Message /\ m.kind = "completed"
    <3>1. Head(finals) \in Message
      BY <2>1, Taken DEF TypeOK, ConsumerTypeOK
    <3>2. Head(finals).id \in Nat /\ Head(finals).keys \in SUBSET Samples
      BY <3>1, SMT DEF Message
    <3>. QED BY <3>2, MsgTypes DEF Kinds
  <2>. HIDE DEF m
  <2>. QED BY <1>1, <1>3, <2>1, <2>2, AmongSent
<1>4. CASE ~Announce /\ ~Start
  <2>1. events' = events
    BY <1>4, Zenon DEF Consume, ConsumerStep, SkipCommand, Fetch, TakeStop, TakeCommand, Train,
       Fail, Account, Clear, Save, FinalizeSave, End, channelVars
  <2>. QED BY <1>4, <2>1
<1>. QED BY <1>2, <1>3, <1>4

(* Every step keeps the budget.                                            *)
LEMMA BudgetStep ==
  ASSUME Base, BudgetKept, [Next]_vars
  PROVE  BudgetKept'
<1>1. TypeOK /\ InOrder /\ QueuesInOrder
  BY DEF Base
<1>2. /\ consumer = "starting" => lastPlan = 0
      /\ consumer # "starting" => consumerReady \/ Among(events, "ready") # {}
      /\ \A m \in Among(events, "ready") : consumer # "starting" /\ m.id = StartStep
      /\ consumerReady =>
           MaxSteps = 0 \/ (consumer # "starting" /\ initialStep = StartStep)
      /\ ~consumerReady => plans = <<>>
      /\ MaxSteps > 0 => plans = <<>> \/ initialStep + Len(plans) <= MaxSteps
  BY DEF BudgetKept
<1>3. ASSUME UNCHANGED consumerVars PROVE StartStep' = StartStep /\ lastPlan' = lastPlan
  BY <1>3 DEF StartStep, Trained, consumerVars
<1>4. CASE Produce
  <2>1. UNCHANGED <<consumerReady, initialStep, plans, consumer>> /\ UNCHANGED consumerVars
    BY <1>4, Zenon DEF Produce, ProducerStep, Request, Drop, PublishOne, PublishAmbiguous,
       PublishFails, Notify, SubmitReferences, Drained, DrainTimeout, Return, ReturnReferences,
       channelVars, schedulerVars
  <2>. QED BY <1>1, <1>3, <1>4, <2>1, ProducedAmong, BudgetUntouched
<1>5. CASE Dispatch /\ UNCHANGED consumerVars
  <2>1. /\ UNCHANGED <<consumer, consumerReady, initialStep, events>> /\ MayPlan
        /\ \E keys \in SUBSET Confirmed : plans' = Append(plans, keys)
    BY <1>5, Zenon DEF Dispatch, PutCommand, newsVars
  <2>2. consumerReady /\ BudgetAbove(Len(plans) - completed)
    BY <2>1 DEF MayPlan, Outstanding
  <2>3. Len(plans') = Len(plans) + 1
    BY <2>1, ConfirmedTypes, AppendProperties, <1>1 DEF TypeOK, SchedulerTypeOK
  <2>4. MaxSteps > 0 => initialStep + Len(plans') <= MaxSteps
    <3>1. /\ MaxSteps \in Nat /\ initialStep \in Nat /\ completed \in Nat
          /\ Len(plans) \in Nat
      BY <1>1, Progress, SizesAssumption, SMT DEF TypeOK, SchedulerTypeOK
    <3>2. MaxSteps > 0 => MaxSteps - initialStep - completed > Len(plans) - completed
      BY <2>2 DEF BudgetAbove
    <3>. QED BY <2>3, <3>1, <3>2, SMT
  <2>5. StartStep' = StartStep /\ lastPlan' = lastPlan
    BY <1>3, <1>5
  <2>. QED BY <1>2, <2>1, <2>2, <2>4, <2>5, Zenon DEF BudgetKept
<1>6. CASE OnReady /\ Schedule
  <2>1. /\ UNCHANGED <<consumer, plans>> /\ consumerReady' /\ initialStep' = Head(events).id
    BY <1>6, Zenon DEF OnReady, Take
  <2>2. /\ Head(events) \in Among(events, "ready")
        /\ Among(events', "ready") \subseteq Among(events, "ready")
    BY <1>1, <1>6, ScheduledAmong
  <2>3. consumer # "starting" /\ initialStep' = StartStep
    BY <1>2, <2>1, <2>2
  <2>4. MaxSteps > 0 => plans = <<>> \/ initialStep' + Len(plans) <= MaxSteps
    <3>1. MaxSteps > 0 /\ plans # <<>> => initialStep' = initialStep
      BY <1>2, <2>3, SizesAssumption, SMT
    <3>. QED BY <1>2, <3>1
  <2>5. StartStep' = StartStep /\ lastPlan' = lastPlan
    BY <1>3, <1>6 DEF Schedule
  <2>. QED BY <1>2, <2>1, <2>2, <2>3, <2>4, <2>5, Zenon DEF BudgetKept
<1>7. CASE Schedule /\ ~OnReady /\ ~Dispatch
  <2>1. UNCHANGED <<consumerReady, initialStep, plans, consumer>>
    BY <1>7, Zenon DEF Schedule, SchedulerStep, StopAtBudget, StopAtTail, KeepWaiting,
       ProducerReturned, ProducerRaised, ConsumerRaised, Finish, ConsumerReturned,
       OnPublished, OnSamples, OnProducerDone, OnCompletedAgain, OnCompleted, Take,
       PutCommand, channelVars, newsVars, schedulerVars
  <2>2. UNCHANGED consumerVars
    BY <1>7 DEF Schedule
  <2>. QED BY <1>1, <1>3, <1>7, <2>1, <2>2, ScheduledAmong, BudgetUntouched
<1>8. CASE Consume /\ ~Start
  <2>1. UNCHANGED <<consumerReady, initialStep, plans>>
    BY <1>8 DEF Consume, schedulerVars
  <2>2. \/ UNCHANGED <<consumer, lastPlan>>
        \/ consumer # "starting" /\ consumer' # "starting"
    BY <1>8, Zenon DEF Consume, ConsumerStep, SkipCommand, Fetch, TakeStop, TakeCommand, Train,
       Fail, Account, Clear, Announce, Save, FinalizeSave, End, channelVars, consumerVars,
       Active
  <2>. QED BY <1>1, <1>8, <2>1, <2>2, ConsumedAmong, StartStepKept, BudgetUntouched
<1>9. CASE Consume /\ Start
  <2>1. /\ UNCHANGED <<consumerReady, initialStep, plans, lastPlan>>
        /\ consumer = "starting" /\ consumer' = "running"
    BY <1>9, Zenon DEF Consume, Start, consumerVars, schedulerVars
  <2>2. Among(events', "ready") = Among(events, "ready") \union {Msg("ready", optStep, {})}
    BY <1>1, <1>9, ConsumedAmong
  <2>3. Among(events, "ready") = {}
    BY <1>2, <2>1
  <2>4. StartStep = optStep
    <3>1. Trained = 0 /\ optStep \in Nat
      <4>1. lastPlan = 0
        BY <1>2, <2>1
      <4>. QED BY <1>1, <4>1, Progress, SMT DEF TypeOK, ConsumerTypeOK
    <3>2. cur = None
      BY <1>1, <3>1, SMT DEF InOrder
    <3>3. StartStep = optStep + 0 - 0
      BY <3>1, <3>2 DEF StartStep
    <3>. QED BY <3>1, <3>3, SMT
  <2>5. StartStep' = StartStep
    BY <1>1, <1>9, StartStepKept
  <2>6. Msg("ready", optStep, {}).id = optStep
    BY SMT DEF Msg
  <2>. QED BY <1>2, <2>1, <2>2, <2>3, <2>4, <2>5, <2>6, Zenon DEF BudgetKept
<1>10. CASE Relaunch
  <2>1. /\ consumer' = "starting" /\ lastPlan' = 0 /\ events' = <<>> /\ plans' = <<>>
        /\ consumerReady' = (Depth = 0 /\ MaxSteps = 0)
    BY <1>10, Zenon DEF Relaunch, ChannelsRelaunch, SchedulerRelaunch, ConsumerRelaunch
  <2>2. Among(events', "ready") = {}
    <3>1. Len(events') = 0
      BY <2>1, EmptySeq
    <3>. QED BY <3>1, SMT DEF Among
  <2>. QED BY <2>1, <2>2, Zenon DEF BudgetKept
<1>11. CASE UNCHANGED vars
  <2>1. UNCHANGED <<consumerReady, initialStep, plans, consumer, events>>
    BY <1>11, Zenon DEF vars, channelVars, schedulerVars
  <2>2. UNCHANGED consumerVars
    BY <1>11 DEF vars
  <2>. QED BY <1>3, <2>1, <2>2, BudgetUntouched
<1>. QED
  BY <1>4, <1>5, <1>6, <1>7, <1>8, <1>9, <1>10, <1>11 DEF Next, Schedule

-----------------------------------------------------------------------------
(* Who ends, and when                                                      *)

(* The driver ends after everything it planned, and asks for no more.      *)
LEMMA ScheduleEnds ==
  ASSUME TypeOK, InOrder, EndsInTurn, Schedule
  PROVE  EndsInTurn'
<1>1. UNCHANGED <<sourceDone, cur, finals, optStep>> /\ Schedule
  BY DEF Schedule, consumerVars
<1>2. /\ sourceDone => Stopping
      /\ Among(commands, "stop") # {} => Stopping
      /\ consumer = "ended" => (MoreSteps => sourceDone) /\ cur = None /\ finals = <<>>
      /\ consumerGone => consumer = "ended" /\ ~MoreSteps
      /\ drv = "wait" => ~BudgetExhausted
      /\ drv = "plan" /\ refreshed => Outstanding > 0
      /\ Stopping => Outstanding = 0
  BY DEF EndsInTurn, Stopping
<1>3. MoreSteps' = MoreSteps
  BY <1>1 DEF MoreSteps
<1>4. commands \in Seq(Message) /\ completed \in Nat /\ Len(plans) \in Nat /\ completed <= Len(plans)
  BY Progress, SMT DEF TypeOK, ChannelsTypeOK
<1>5. CASE Dispatch
  <2>1. /\ UNCHANGED <<consumer, consumerGone, completed>> /\ drv = "plan" /\ drv' = "plan"
    BY <1>5, Zenon DEF Dispatch, Planning, newsVars
  <2>2. PICK keys \in SUBSET Confirmed :
          /\ plans' = Append(plans, keys)
          /\ Send(commands, Msg("batch", Len(plans) + 1, keys), commands')
    BY <1>5 DEF Dispatch, PutCommand
  <2>3. keys \in SUBSET Samples /\ Len(plans) + 1 \in Nat
    BY <1>4, ConfirmedTypes, SMT
  <2>4. /\ Msg("batch", Len(plans) + 1, keys) \in Message
        /\ Msg("batch", Len(plans) + 1, keys).kind = "batch"
    BY <2>3, MsgTypes DEF Kinds
  <2>5. Among(commands', "stop") = Among(commands, "stop")
    BY <1>4, <2>2, <2>4, AmongSent
  <2>6. Outstanding' > 0
    <3>1. Len(plans') = Len(plans) + 1
      BY <2>2, <2>3, AppendProperties DEF TypeOK, SchedulerTypeOK
    <3>2. Outstanding' = Len(plans') - completed'
      BY DEF Outstanding
    <3>. QED BY <1>4, <2>1, <3>1, <3>2, SMT
  <2>. QED BY <1>1, <1>2, <1>3, <2>1, <2>5, <2>6, Zenon DEF EndsInTurn, Stopping
<1>6. CASE StopAtBudget \/ StopAtTail
  <2>1. /\ UNCHANGED <<consumer, consumerGone, plans, completed>> /\ drv' = "finishing"
        /\ Outstanding = 0
    BY <1>6, Zenon DEF StopAtBudget, StopAtTail, BudgetExhausted, AtTail, newsVars
  <2>2. Outstanding' = 0
    BY <2>1 DEF Outstanding
  <2>. QED BY <1>1, <1>2, <1>3, <2>1, <2>2, Zenon DEF EndsInTurn, Stopping
<1>7. CASE KeepWaiting
  <2>1. /\ UNCHANGED <<consumer, consumerGone, commands, plans, completed, consumerReady,
                       initialStep>>
        /\ drv = "plan" /\ drv' = "wait" /\ ~BudgetExhausted
    BY <1>7, Zenon DEF KeepWaiting, Settled, Planning, channelVars, newsVars
  <2>2. ~BudgetExhausted'
    BY <2>1 DEF BudgetExhausted, BudgetAbove, Outstanding
  <2>. QED BY <1>1, <1>2, <1>3, <2>1, <2>2, Zenon DEF EndsInTurn, Stopping
<1>8. CASE Finish
  <2>1. /\ UNCHANGED <<consumer, consumerGone, commands, plans, completed>>
        /\ drv = "finishing" /\ drv' = "done"
    BY <1>8, Zenon DEF Finish, newsVars
  <2>2. Outstanding' = Outstanding
    BY <2>1 DEF Outstanding
  <2>. QED BY <1>1, <1>2, <1>3, <2>1, <2>2, Zenon DEF EndsInTurn, Stopping
<1>9. CASE ProducerRaised \/ ConsumerRaised
  <2>1. UNCHANGED <<schedulerVars, consumer, commands>>
    BY <1>9, Zenon DEF ProducerRaised, ConsumerRaised
  <2>2. UNCHANGED <<drv, refreshed, consumerGone, plans, completed, consumerReady, initialStep>>
    BY <2>1 DEF schedulerVars
  <2>3. Outstanding' = Outstanding /\ BudgetExhausted' = BudgetExhausted
    BY <2>2 DEF BudgetExhausted, BudgetAbove, Outstanding
  <2>. QED BY <1>1, <1>2, <1>3, <2>1, <2>2, <2>3, Zenon DEF EndsInTurn, Stopping
<1>10. CASE ConsumerReturned(optStep)
  <2>1. /\ UNCHANGED <<consumer, commands, drv, refreshed, plans, completed, consumerReady,
                       initialStep>>
        /\ consumer = "ended" /\ drv = "wait"
        /\ consumerGone' => (MaxSteps > 0 /\ optStep >= MaxSteps) \/ consumerGone
    BY <1>10, Zenon DEF ConsumerReturned, Waiting
  <2>2. Outstanding' = Outstanding /\ BudgetExhausted' = BudgetExhausted
    BY <2>1 DEF BudgetExhausted, BudgetAbove, Outstanding
  <2>3. consumerGone' => ~MoreSteps
    <3>1. MaxSteps \in Nat /\ optStep \in Nat
      BY SizesAssumption DEF TypeOK, ConsumerTypeOK
    <3>2. MaxSteps > 0 /\ optStep >= MaxSteps => ~MoreSteps
      BY <3>1, SMT DEF MoreSteps
    <3>. QED BY <1>2, <2>1, <3>2
  <2>. QED BY <1>1, <1>2, <1>3, <2>1, <2>2, <2>3, Zenon DEF EndsInTurn, Stopping
<1>11. CASE \/ ProducerReturned
            \/ OnReady \/ OnPublished \/ OnSamples \/ OnProducerDone
            \/ OnCompletedAgain \/ OnCompleted
  <2>1. UNCHANGED <<consumer, commands, consumerGone, plans>> /\ drv = "wait"
    BY <1>11, Zenon DEF ProducerReturned, OnReady, OnPublished, OnSamples, OnProducerDone,
       OnCompletedAgain, OnCompleted, Take, Waiting, newsVars, schedulerVars
  <2>2. \/ drv' = "plan" /\ ~refreshed'
        \/ drv' = "wait" /\ UNCHANGED <<completed, consumerReady, initialStep>>
    <3>1. CASE OnReady \/ OnProducerDone \/ OnCompleted
      BY <3>1, Zenon DEF OnReady, OnProducerDone, OnCompleted, Reconcile
    <3>2. CASE OnCompletedAgain
      BY <2>1, <3>2, Zenon DEF OnCompletedAgain, schedulerVars
    <3>3. CASE OnPublished
      <4>1. UNCHANGED <<completed, consumerReady, initialStep>>
        BY <3>3, Zenon DEF OnPublished
      <4>2. drv' = drv \/ (drv' = "plan" /\ ~refreshed')
        BY <3>3, Zenon DEF OnPublished, Reconcile
      <4>. QED BY <2>1, <4>1, <4>2
    <3>4. CASE OnSamples
      <4>1. UNCHANGED <<completed, consumerReady, initialStep>>
        BY <3>4, Zenon DEF OnSamples
      <4>2. drv' = drv \/ (drv' = "plan" /\ ~refreshed')
        BY <3>4, Zenon DEF OnSamples, Reconcile
      <4>. QED BY <2>1, <4>1, <4>2
    <3>5. CASE ProducerReturned
      <4>1. UNCHANGED <<completed, consumerReady, initialStep>>
        BY <3>5, Zenon DEF ProducerReturned
      <4>2. drv' = drv \/ (drv' = "plan" /\ ~refreshed')
        BY <3>5, Zenon DEF ProducerReturned, Reconcile
      <4>. QED BY <2>1, <4>1, <4>2
    <3>. QED BY <1>11, <3>1, <3>2, <3>3, <3>4, <3>5
  <2>3. drv' = "wait" => ~BudgetExhausted'
    <3>1. CASE UNCHANGED <<completed, consumerReady, initialStep>>
      BY <1>2, <2>1, <3>1 DEF BudgetExhausted, BudgetAbove, Outstanding
    <3>. QED BY <2>2, <3>1
  <2>. QED BY <1>1, <1>2, <1>3, <2>1, <2>2, <2>3, Zenon DEF EndsInTurn, Stopping
<1>. QED
  BY <1>1, <1>5, <1>6, <1>7, <1>8, <1>9, <1>10, <1>11 DEF Schedule, SchedulerStep

(* The consumer ends with its budget or after the driver said so.          *)
LEMMA ConsumeEnds ==
  ASSUME TypeOK, EndsInTurn, Consume
  PROVE  EndsInTurn'
<1>1. /\ UNCHANGED <<drv, refreshed, consumerGone, plans, completed, consumerReady, initialStep>>
  BY DEF Consume, schedulerVars
<1>2. Outstanding' = Outstanding /\ BudgetExhausted' = BudgetExhausted
  BY <1>1 DEF BudgetExhausted, BudgetAbove, Outstanding
<1>3. /\ sourceDone => Stopping
      /\ Among(commands, "stop") # {} => Stopping
      /\ consumer = "ended" => (MoreSteps => sourceDone) /\ cur = None /\ finals = <<>>
      /\ consumerGone => consumer = "ended" /\ ~MoreSteps
      /\ drv = "wait" => ~BudgetExhausted
      /\ drv = "plan" /\ refreshed => Outstanding > 0
      /\ Stopping => Outstanding = 0
  BY DEF EndsInTurn, Stopping
<1>4. CASE FinalizeSave
  <2>1. UNCHANGED <<sourceDone, commands, consumer, cur, finals, optStep>>
    BY <1>4, Zenon DEF FinalizeSave, channelVars
  <2>2. MoreSteps' = MoreSteps
    BY <2>1 DEF MoreSteps
  <2>. QED BY <1>1, <1>2, <1>3, <2>1, <2>2, Zenon DEF EndsInTurn, Stopping
<1>5. CASE End
  <2>1. /\ UNCHANGED <<sourceDone, commands, cur, finals, optStep>> /\ consumer = "running"
        /\ (MoreSteps => sourceDone) /\ cur = None /\ finals = <<>>
    BY <1>5, Zenon DEF End, Active, Idle
  <2>2. MoreSteps' = MoreSteps
    BY <2>1 DEF MoreSteps
  <2>3. ~consumerGone
    BY <1>3, <2>1
  <2>. QED BY <1>1, <1>2, <1>3, <2>1, <2>2, <2>3, Zenon DEF EndsInTurn, Stopping
<1>6. CASE SkipCommand \/ Fetch \/ TakeStop
  <2>1. /\ consumer = "running" /\ consumer' # "ended" /\ commands # <<>>
        /\ commands' = Tail(commands)
    BY <1>6, Zenon DEF SkipCommand, Fetch, TakeStop, TakeCommand, Active
  <2>2. Among(commands', "stop") \subseteq Among(commands, "stop")
    BY <2>1, AmongTaken DEF TypeOK, ChannelsTypeOK
  <2>3. sourceDone' => sourceDone \/ Among(commands, "stop") # {}
    <3>1. CASE TakeStop
      BY <2>1, <3>1, AmongTaken DEF TakeStop, TakeCommand, TypeOK, ChannelsTypeOK
    <3>2. CASE SkipCommand \/ Fetch
      BY <3>2, Zenon DEF SkipCommand, Fetch
    <3>. QED BY <1>6, <3>1, <3>2
  <2>4. ~consumerGone
    BY <1>3, <2>1
  <2>. QED BY <1>1, <1>2, <1>3, <2>1, <2>2, <2>3, <2>4, Zenon DEF EndsInTurn, Stopping
<1>7. CASE Start \/ Train \/ Fail \/ Account \/ Clear \/ Announce \/ Save
  <2>1. /\ UNCHANGED <<sourceDone, commands>> /\ consumer # "ended" /\ consumer' # "ended"
    BY <1>7, Zenon DEF Start, Train, Fail, Account, Clear, Announce, Save, PutEvent, Active,
       channelVars, consumerVars
  <2>2. ~consumerGone
    BY <1>3, <2>1
  <2>. QED BY <1>1, <1>2, <1>3, <2>1, <2>2, Zenon DEF EndsInTurn, Stopping
<1>. QED BY <1>4, <1>5, <1>6, <1>7 DEF Consume, ConsumerStep

(* Every step keeps the turns in which the parties end.                    *)
LEMMA EndsStep ==
  ASSUME Base, EndsInTurn, [Next]_vars
  PROVE  EndsInTurn'
<1>1. TypeOK /\ InOrder
  BY DEF Base
<1>2. ASSUME UNCHANGED <<schedulerVars, consumerVars, commands, consumer>>
      PROVE  EndsInTurn'
  BY <1>2, Zenon DEF EndsInTurn, Stopping, schedulerVars, consumerVars, MoreSteps, BudgetExhausted,
     BudgetAbove, Outstanding, Among
<1>3. CASE Produce
  <2>1. UNCHANGED <<schedulerVars, consumerVars, commands, consumer>>
    BY <1>3, Zenon DEF Produce, ProducerStep, Request, Drop, PublishOne, PublishAmbiguous,
       PublishFails, Notify, SubmitReferences, Drained, DrainTimeout, Return, ReturnReferences,
       PutEvent, channelVars
  <2>. QED BY <1>2, <2>1
<1>4. CASE UNCHANGED vars
  <2>1. UNCHANGED <<schedulerVars, consumerVars, commands, consumer>>
    BY <1>4, Zenon DEF vars, channelVars
  <2>. QED BY <1>2, <2>1
<1>5. CASE Relaunch
  <2>1. /\ drv' = "plan" /\ ~refreshed' /\ ~consumerGone' /\ ~sourceDone'
        /\ consumer' = "starting" /\ commands' = <<>>
    BY <1>5, Zenon DEF Relaunch, ChannelsRelaunch, SchedulerRelaunch, ConsumerRelaunch
  <2>2. Among(commands', "stop") = {}
    <3>1. Len(commands') = 0
      BY <2>1, EmptySeq
    <3>. QED BY <3>1, SMT DEF Among
  <2>. QED BY <2>1, <2>2, Zenon DEF EndsInTurn, Stopping
<1>. QED BY <1>1, <1>3, <1>4, <1>5, ScheduleEnds, ConsumeEnds DEF Next

-----------------------------------------------------------------------------
(* Nobody is contradicted                                                  *)

NoContradiction == run # "confused" /\ consumer # "lost"

(* A consumer that has gone has used up the budget: the driver dispatches  *)
(* nothing more, and knows the budget as exhausted when all completions    *)
(* have arrived.                                                           *)
LEMMA GoneIsExhausted ==
  ASSUME Base, BudgetKept, EndsInTurn, consumerGone
  PROVE  /\ ~MayPlan
         /\ consumerReady /\ completed = Announced => BudgetExhausted
<1>1. TypeOK /\ InOrder
  BY DEF Base
<1>2. /\ consumer = "ended" /\ ~MoreSteps /\ cur = None /\ finals = <<>>
  BY DEF EndsInTurn
<1>3. /\ MaxSteps \in Nat /\ optStep \in Nat /\ Len(plans) \in Nat /\ Trained \in Nat
      /\ completed \in Nat /\ initialStep \in Nat
      /\ completed <= Len(plans) /\ Trained <= Len(plans)
  BY <1>1, Progress, SizesAssumption, SMT DEF TypeOK, ConsumerTypeOK, SchedulerTypeOK
<1>4. MaxSteps > 0 /\ optStep >= MaxSteps
  BY <1>2, <1>3, SMT DEF MoreSteps
<1>5. Announced = Trained
  <2>1. Len(finals) = 0
    BY <1>2, EmptySeq
  <2>. QED BY <1>1, <2>1, Progress, SMT
<1>6. consumerReady => initialStep = optStep - Trained
  <2>1. StartStep = optStep + 0 - Trained
    BY <1>2 DEF StartStep
  <2>2. consumerReady => MaxSteps = 0 \/ initialStep = StartStep
    BY DEF BudgetKept
  <2>. QED BY <1>3, <1>4, <2>1, <2>2, SMT
<1>7. ~MayPlan
  <2>1. MayPlan => consumerReady /\ MaxSteps - initialStep - completed > Len(plans) - completed
    BY <1>4 DEF MayPlan, BudgetAbove, Outstanding
  <2>. QED BY <1>3, <1>4, <1>6, <2>1, SMT
<1>8. ASSUME consumerReady, completed = Announced PROVE BudgetExhausted
  <2>1. Len(plans) <= completed
    <3>1. plans = <<>> \/ initialStep + Len(plans) <= MaxSteps
      BY <1>4 DEF BudgetKept
    <3>2. plans = <<>> => Len(plans) = 0
      BY EmptySeq
    <3>. QED BY <1>3, <1>4, <1>5, <1>6, <1>8, <3>1, <3>2, SMT
  <2>2. Outstanding = 0
    BY <1>3, <2>1, SMT DEF Outstanding
  <2>3. ~(MaxSteps - initialStep - completed > 0)
    BY <1>3, <1>4, <1>5, <1>6, <1>8, SMT
  <2>. QED BY <1>4, <1>8, <2>2, <2>3 DEF BudgetExhausted, BudgetAbove
<1>. QED BY <1>7, <1>8

(* While the driver waits for events alone, there are some.                *)
LEMMA NeverAlone ==
  ASSUME Base, BudgetKept, EndsInTurn, Waiting, consumerGone
  PROVE  events # <<>>
<1>. SUFFICES ASSUME events = <<>> PROVE FALSE
  OBVIOUS
<1>1. TypeOK /\ InOrder /\ QueuesInOrder
  BY DEF Base
<1>2. Len(events) = 0
  BY EmptySeq
<1>3. completed = Announced
  <2>1. \A n \in (completed + 1)..Announced :
          \E i \in 1..Len(events) : events[i].kind = "completed" /\ events[i].id = n
    BY <1>1 DEF QueuesInOrder, Carries
  <2>2. \A n \in (completed + 1)..Announced : FALSE
    <3>1. \A i \in 1..Len(events) : FALSE
      BY <1>2, SMT
    <3>. QED BY <2>1, <3>1
  <2>3. completed + 1 \notin (completed + 1)..Announced
    BY <2>2
  <2>. QED BY <1>1, <2>3, Progress, SMT
<1>4. consumerReady
  <2>1. Among(events, "ready") = {}
    BY <1>2, SMT DEF Among
  <2>2. consumer # "starting"
    BY DEF EndsInTurn
  <2>. QED BY <2>1, <2>2 DEF BudgetKept
<1>5. BudgetExhausted
  BY <1>3, <1>4, GoneIsExhausted
<1>. QED BY <1>5 DEF Waiting, EndsInTurn

(* What the driver takes is what it expects next.                          *)
LEMMA ExpectedEvents ==
  ASSUME Base
  PROVE  /\ OnSamples /\ run' = "confused" => run = "confused"
         /\ OnCompletedAgain /\ run' = "confused" => run = "confused"
         /\ OnCompleted /\ run' = "confused" => run = "confused"
<1>1. /\ TypeOK /\ InOrder /\ QueuesInOrder
      /\ events \in Seq(Message) /\ lastBatch \in Nat /\ batchId \in Nat
      /\ completed \in Nat /\ Announced \in Nat
      /\ Carries(events, "samples", lastBatch, batchId)
      /\ Carries(events, "completed", completed, Announced)
      /\ OfPlans(events, "completed")
  BY Progress DEF Base, QueuesInOrder, TypeOK, ChannelsTypeOK, SchedulerTypeOK, ProducerTypeOK
<1>2. ASSUME events # <<>>
      PROVE  /\ Head(events).id \in Nat
             /\ Head(events).kind = "completed" => Head(events).keys = plans[Head(events).id]
  <2>1. /\ Head(events) = events[1] /\ Head(events) \in Message
        /\ Len(events) \in Nat \ {0}
    BY <1>1, <1>2, Taken
  <2>2. 1 \in 1..Len(events)
    BY <2>1, SMT
  <2>3. Head(events).id \in Nat
    BY <2>1, SMT DEF Message
  <2>. QED BY <1>1, <2>1, <2>2, <2>3 DEF OfPlans
<1>3. ASSUME OnSamples, run' = "confused" PROVE run = "confused"
  <2>1. events # <<>> /\ Head(events).kind = "samples"
    BY <1>3 DEF OnSamples, Take
  <2>2. CASE Head(events).id <= lastBatch
    BY <1>3, <2>2, Zenon DEF OnSamples
  <2>3. CASE ~(Head(events).id <= lastBatch)
    <3>1. Head(events).id > lastBatch
      BY <1>1, <1>2, <2>1, <2>3, SMT
    <3>2. Head(events).id = lastBatch + 1
      BY <1>1, <2>1, <3>1, CarriesTaken
    <3>. QED BY <1>3, <2>3, <3>2, Zenon DEF OnSamples
  <2>. QED BY <2>2, <2>3
<1>4. ASSUME OnCompletedAgain, run' = "confused" PROVE run = "confused"
  <2>1. events # <<>> /\ Head(events).kind = "completed"
    BY <1>4 DEF OnCompletedAgain, Take
  <2>2. Head(events).id = completed => Head(events).keys = plans[completed]
    BY <1>2, <2>1
  <2>. QED BY <1>4, <2>2, Zenon DEF OnCompletedAgain
<1>5. ASSUME OnCompleted, run' = "confused" PROVE run = "confused"
  <2>1. events # <<>> /\ Head(events).kind = "completed" /\ Head(events).id > completed
    BY <1>5 DEF OnCompleted, Take
  <2>2. Head(events).id = completed + 1 /\ completed + 1 <= Announced
    BY <1>1, <2>1, CarriesTaken
  <2>3. Head(events).keys = plans[completed + 1]
    BY <1>2, <2>1, <2>2
  <2>4. Outstanding > 0
    BY <1>1, <2>2, Progress, SMT DEF Outstanding
  <2>. QED BY <1>5, <2>2, <2>3, <2>4, Zenon DEF OnCompleted
<1>. QED BY <1>3, <1>4, <1>5

(* No step contradicts anybody.                                            *)
LEMMA ContradictionStep ==
  ASSUME Base, StoreHolds, BudgetKept, EndsInTurn, NoContradiction, [Next]_vars
  PROVE  NoContradiction'
<1>1. TypeOK /\ InOrder /\ QueuesInOrder
  BY DEF Base
<1>2. CASE Schedule
  <2>1. consumer' = consumer
    BY <1>2, Zenon DEF Schedule, SchedulerStep, Dispatch, StopAtBudget, StopAtTail,
       KeepWaiting, ProducerReturned, ProducerRaised, ConsumerRaised, Finish, ConsumerReturned,
       OnReady, OnPublished, OnSamples, OnProducerDone, OnCompletedAgain, OnCompleted, Take,
       channelVars
  <2>2. CASE Dispatch
    <3>1. MayPlan /\ (run' = "confused" => consumerGone \/ run = "confused")
      BY <2>2, Zenon DEF Dispatch
    <3>. QED BY <2>1, <3>1, GoneIsExhausted DEF NoContradiction
  <2>3. CASE ConsumerReturned(optStep)
    <3>1. /\ consumer = "ended" /\ drv = "wait"
          /\ run' = "confused" => run = "confused" \/ ~(MaxSteps > 0 /\ optStep >= MaxSteps)
      BY <2>3, Zenon DEF ConsumerReturned, Waiting
    <3>2. ~MoreSteps
      BY <3>1 DEF EndsInTurn, Stopping
    <3>3. MaxSteps > 0 /\ optStep >= MaxSteps
      BY <1>1, <3>2, SizesAssumption, SMT DEF MoreSteps, TypeOK, ConsumerTypeOK
    <3>. QED BY <2>1, <3>1, <3>3 DEF NoContradiction
  <2>4. CASE OnSamples \/ OnCompletedAgain \/ OnCompleted
    BY <2>1, <2>4, ExpectedEvents DEF NoContradiction
  <2>5. CASE \/ StopAtBudget \/ StopAtTail \/ KeepWaiting \/ ProducerReturned
             \/ ProducerRaised \/ ConsumerRaised \/ Finish
             \/ OnReady \/ OnPublished \/ OnProducerDone
    <3>1. run' = run \/ run' = "down"
      BY <2>5, Zenon DEF StopAtBudget, StopAtTail, KeepWaiting, ProducerReturned,
         ProducerRaised, ConsumerRaised, Finish, OnReady, OnPublished, OnProducerDone,
         channelVars
    <3>. QED BY <2>1, <3>1 DEF NoContradiction
  <2>. QED BY <1>2, <2>2, <2>3, <2>4, <2>5 DEF Schedule, SchedulerStep
<1>3. CASE Consume
  <2>1. run' = run
    BY <1>3, Zenon DEF Consume, ConsumerStep, Start, SkipCommand, Fetch, TakeStop, TakeCommand,
       Train, Fail, Account, Clear, Announce, Save, FinalizeSave, End, channelVars
  <2>2. CASE Fetch
    <3>1. /\ commands # <<>> /\ Head(commands).kind = "batch" /\ Head(commands).id > lastPlan
          /\ consumer' = "lost" =>
               consumer = "lost" \/ (transport = "tq" /\ ~(Head(commands).keys \subseteq tq))
      BY <2>2, Zenon DEF Fetch, TakeCommand
    <3>2. Head(commands).keys = plans[lastPlan + 1] /\ lastPlan + 1 <= Len(plans)
      BY <1>1, <3>1, NextCommand
    <3>3. lastPlan + 1 \in (Cleared + 1)..Len(plans)
      <4>1. /\ lastPlan \in Nat /\ Cleared \in Nat /\ Trained \in Nat /\ Len(plans) \in Nat
            /\ Cleared <= Trained /\ Trained <= lastPlan
        BY <1>1, Progress, ClearedIs
      <4>. QED BY <3>2, <4>1, SMT
    <3>4. transport = "tq" => plans[lastPlan + 1] \subseteq tq
      BY <3>3 DEF StoreHolds
    <3>. QED BY <2>1, <3>1, <3>2, <3>4 DEF NoContradiction
  <2>3. CASE ~Fetch
    <3>1. consumer' = consumer \/ consumer' \in {"running", "failed", "ended"}
      BY <1>3, <2>3, Zenon DEF Consume, ConsumerStep, Start, SkipCommand, TakeStop, TakeCommand,
         Train, Fail, Account, Clear, Announce, Save, FinalizeSave, End, channelVars
    <3>. QED BY <2>1, <3>1 DEF NoContradiction
  <2>. QED BY <2>2, <2>3
<1>4. CASE Produce
  <2>1. UNCHANGED <<run, consumer>>
    BY <1>4, Zenon DEF Produce, ProducerStep, Request, Drop, PublishOne, PublishAmbiguous,
       PublishFails, Notify, SubmitReferences, Drained, DrainTimeout, Return, ReturnReferences,
       channelVars
  <2>. QED BY <2>1 DEF NoContradiction
<1>5. CASE Relaunch
  BY <1>5 DEF Relaunch, ChannelsRelaunch, NoContradiction
<1>6. CASE UNCHANGED vars
  BY <1>6 DEF vars, channelVars, NoContradiction
<1>. QED BY <1>2, <1>3, <1>4, <1>5, <1>6 DEF Next

(* A launch begins with nothing in the store and nothing planned.          *)
LEMMA EndsInit == Init => StoreHolds /\ BudgetKept /\ EndsInTurn /\ NoContradiction
<1>. SUFFICES ASSUME Init PROVE StoreHolds /\ BudgetKept /\ EndsInTurn /\ NoContradiction
  OBVIOUS
<1>1. /\ ready = {} /\ plans = <<>> /\ events = <<>> /\ commands = <<>> /\ completed = 0
      /\ lastPlan = 0 /\ consumer = "starting" /\ run = "up" /\ drv = "plan" /\ ~refreshed
      /\ ~consumerGone /\ ~sourceDone
      /\ consumerReady = (Depth = 0 /\ MaxSteps = 0)
  BY Zenon DEF Init, ChannelsInit, SchedulerInit, ConsumerInit
<1>2. Len(plans) = 0 /\ Len(events) = 0 /\ Len(commands) = 0
  BY <1>1, EmptySeq
<1>3. Among(events, "ready") = {} /\ Among(commands, "stop") = {}
  BY <1>2, SMT DEF Among
<1>4. StoreHolds
  <2>1. \A i \in (completed + 1)..Len(plans) : FALSE
    BY <1>1, <1>2, SMT
  <2>2. \A i \in (Cleared + 1)..Len(plans) : FALSE
    <3>1. Cleared \in Nat
      BY TypeInit, OrderInit, ClearedIs
    <3>. QED BY <1>2, <3>1, SMT
  <2>. QED BY <1>1, <2>1, <2>2 DEF StoreHolds
<1>5. BudgetKept
  BY <1>1, <1>3, Zenon DEF BudgetKept
<1>6. EndsInTurn
  BY <1>1, <1>3, Zenon DEF EndsInTurn, Stopping
<1>. QED BY <1>1, <1>4, <1>5, <1>6 DEF NoContradiction

(* Completions come in turn and of the keys planned, metadata without a    *)
(* gap, a batch is in the store when it is fetched, and no consumer leaves *)
(* before its time.                                                        *)
THEOREM StandaloneNoInternalError == Spec => []NoInternalError
<1>. DEFINE Inv == StoreHolds /\ BudgetKept /\ EndsInTurn /\ NoContradiction
<1>1. Inv /\ Base /\ Base' /\ [Next]_vars => Inv'
  BY StoreStep, BudgetStep, EndsStep, ContradictionStep
<1>2. Init => Inv
  BY EndsInit
<1>3. Inv /\ Base => NoInternalError
  BY NeverAlone DEF NoInternalError, NoContradiction
<1>. HIDE DEF Inv
<1>. QED BY <1>1, <1>2, <1>3, StandaloneBase, PTL DEF Spec

-----------------------------------------------------------------------------
(* Nothing is forgotten at the end                                         *)

(* Without a plan outstanding the driver goes on only when no complete     *)
(* batch is ready, and what is ready is then all the store has.            *)
LEMMA ShortIsAll ==
  ASSUME TypeOK, InOrder, EndsInTurn, Settled,
         consumerReady, Outstanding = 0, ~BudgetExhausted
  PROVE  Cardinality(Confirmed) < Batch /\ (transport = "tq" => Confirmed = tq)
<1>1. /\ consumerReady /\ Outstanding = 0 /\ ~BudgetExhausted /\ drv = "plan"
      /\ MayPlan => Cardinality(Confirmed) < Batch
  BY DEF Settled, Planning
<1>2. MayPlan
  <2>1. BudgetAbove(0)
    BY <1>1 DEF BudgetExhausted
  <2>2. 0 < Capacity
    BY SizesAssumption, SMT DEF Capacity
  <2>3. BudgetAbove(Outstanding) /\ Outstanding < Capacity
    BY <1>1, <2>1, <2>2
  <2>. QED BY <1>1, <2>3 DEF MayPlan
<1>3. ~refreshed
  <2>1. drv = "plan" /\ refreshed => Outstanding > 0
    BY DEF EndsInTurn
  <2>2. ~(0 > 0)
    BY SMT
  <2>. QED BY <1>1, <2>1, <2>2
<1>4. Reserved = {}
  <2>1. completed = Len(plans)
    BY <1>1, Progress, SMT DEF Outstanding
  <2>2. \A i \in (completed + 1)..Len(plans) : FALSE
    BY <2>1, Progress, SMT
  <2>. QED BY <2>2 DEF Reserved
<1>5. ASSUME transport = "tq" PROVE Confirmed = tq
  <2>1. CASE Short
    BY <1>2, <1>3, <1>4, <1>5, <2>1 DEF Confirmed
  <2>2. CASE ~Short
    <3>1. Confirmed = ready
      BY <2>2 DEF Confirmed
    <3>. QED BY <1>1, <1>2, <2>2, <3>1 DEF Short
  <2>. QED BY <2>1, <2>2
<1>. QED BY <1>1, <1>2, <1>5

(* Training adds a plan, and forgets none.                                 *)
LEMMA LearnedStep ==
  ASSUME Base, LearnedPlans, [Next]_vars
  PROVE  LearnedPlans'
<1>1. TypeOK /\ InOrder /\ QueuesInOrder /\ OneWay
  BY DEF Base
<1>2. Trained \in Nat /\ Len(plans) \in Nat /\ Trained <= Len(plans)
  BY <1>1, Progress, SMT
<1>3. CASE UNCHANGED <<plans, model>> /\ Trained' = Trained
  BY <1>3 DEF LearnedPlans
<1>4. CASE Dispatch /\ UNCHANGED consumerVars
  <2>1. Trained' = Trained /\ model' = model
    BY <1>4 DEF consumerVars, Trained
  <2>2. \E keys \in SUBSET Samples : plans' = Append(plans, keys)
    BY <1>1, <1>4, ConfirmedTypes DEF Dispatch
  <2>3. \A i \in 1..Len(plans) : plans'[i] = plans[i]
    BY <1>1, <2>2, AppendProperties DEF TypeOK, SchedulerTypeOK
  <2>4. \A i \in 1..Trained : i \in 1..Len(plans)
    BY <1>2, SMT
  <2>. QED BY <2>1, <2>3, <2>4 DEF LearnedPlans
<1>5. CASE Train /\ Consume
  <2>1. /\ Trained' = Trained + 1 /\ plans' = plans /\ Trained + 1 \in 1..Len(plans)
        /\ model' = [s \in Samples |-> model[s] + IF s \in plans[Trained + 1] THEN 1 ELSE 0]
    BY <1>1, <1>5, TrainStep DEF Consume, schedulerVars
  <2>2. ASSUME NEW i \in 1..(Trained + 1), NEW s \in plans[i] PROVE model'[s] > 0
    <3>1. i \in 1..Len(plans)
      BY <1>2, <2>1, SMT
    <3>2. s \in Samples
      BY <1>1, <3>1, ElementOfSeq DEF TypeOK, SchedulerTypeOK
    <3>3. model[s] \in Nat
      BY <1>1, <3>2 DEF TypeOK, ConsumerTypeOK
    <3>4. CASE i = Trained + 1
      <4>1. model'[s] = model[s] + 1
        BY <2>1, <2>2, <3>2, <3>4
      <4>. QED BY <3>3, <4>1, SMT
    <3>5. CASE i # Trained + 1
      <4>1. i \in 1..Trained
        BY <1>2, <3>5, SMT
      <4>2. model[s] > 0
        BY <2>2, <4>1 DEF LearnedPlans
      <4>3. model'[s] = model[s] \/ model'[s] = model[s] + 1
        BY <2>1, <3>2, <3>3, SMT
      <4>. QED BY <3>3, <4>2, <4>3, SMT
    <3>. QED BY <3>4, <3>5
  <2>. QED BY <2>1, <2>2 DEF LearnedPlans
<1>6. CASE Relaunch
  <2>1. lastPlan' = 0 /\ Len(fetched') = 0
    <3>1. lastPlan' = 0 /\ fetched' = <<>>
      BY <1>6, Zenon DEF Relaunch, ConsumerRelaunch
    <3>. QED BY <3>1, EmptySeq
  <2>2. Trained' = 0
    BY <2>1, SMT DEF Trained
  <2>. QED BY <2>2, SMT DEF LearnedPlans
<1>7. CASE Produce \/ (Schedule /\ ~Dispatch) \/ UNCHANGED vars
  <2>1. UNCHANGED consumerVars /\ plans' = plans
    BY <1>7, Zenon DEF Produce, Schedule, SchedulerStep, StopAtBudget, StopAtTail, KeepWaiting,
       ProducerReturned, ProducerRaised, ConsumerRaised, Finish, ConsumerReturned, OnReady,
       OnPublished, OnSamples, OnProducerDone, OnCompletedAgain, OnCompleted, newsVars,
       schedulerVars, vars
  <2>. QED BY <1>3, <2>1 DEF consumerVars, Trained
<1>8. CASE Consume /\ ~Train
  <2>1. UNCHANGED <<plans, model>>
    BY <1>8, Zenon DEF Consume, ConsumerStep, Start, SkipCommand, Fetch, TakeStop, TakeCommand,
       Fail, Account, Clear, Announce, Save, FinalizeSave, End, consumerVars, schedulerVars
  <2>2. Trained' = Trained
    BY <1>1, <1>8, Counters
  <2>. QED BY <1>3, <2>1, <2>2
<1>. QED BY <1>4, <1>5, <1>6, <1>7, <1>8 DEF Next, Schedule

(* Metadata of new samples comes with hidden references only.              *)
LEMMA FreshIsReference ==
  ASSUME TypeOK, OneWay, OnSamples, ~(Head(events).id <= lastBatch)
  PROVE  transport # "tq"
<1>1. events # <<>> /\ Head(events).kind = "samples"
  BY DEF OnSamples, Take
<1>2. /\ Head(events) \in Among(events, "samples") /\ Head(events) \in Message
  BY <1>1, AmongTaken, Taken DEF TypeOK, ChannelsTypeOK
<1>3. Head(events).id > lastBatch
  BY <1>2, SMT DEF Message, TypeOK, SchedulerTypeOK
<1>4. Head(events) \in Untaken
  BY <1>2, <1>3 DEF Untaken
<1>. QED BY <1>4 DEF OneWay, HandedOn

(* Steps that leave alone what the driver knows.                           *)
LEMMA ForgottenKept ==
  ASSUME NothingForgotten, Stopping' = Stopping,
         UNCHANGED <<transport, seen, ready, dropped, plans, completed, consumerReady,
                     initialStep, producerDone>>,
         transport = "tq" =>
           /\ producerDone \/ (Stopping /\ ~BudgetExhausted) => producer' # "running"
           /\ Stopping /\ ~BudgetExhausted => tq' = {}
           /\ Among(events', "producer_done") \subseteq Among(events, "producer_done")
  PROVE  NothingForgotten'
<1>1. BudgetExhausted' = BudgetExhausted /\ \A s : Planned(s)' = Planned(s)
  BY DEF BudgetExhausted, BudgetAbove, Outstanding, Planned
<1>. QED BY <1>1 DEF NothingForgotten

(* A producer that still runs forgets nothing: at the tail of the store    *)
(* there is none.                                                          *)
LEMMA ProduceForgets ==
  ASSUME TypeOK, NothingForgotten, Produce
  PROVE  NothingForgotten'
<1>1. producer = "running" /\ UNCHANGED transport /\ UNCHANGED schedulerVars
  BY Zenon DEF Produce, ProducerStep, Request, Drop, PublishOne, PublishAmbiguous, PublishFails,
     Publishing, Notify, SubmitReferences, Drained, DrainTimeout, Return, ReturnReferences,
     Exhausted, Running, channelVars
<1>2. /\ UNCHANGED <<seen, ready, dropped, plans, completed, consumerReady, initialStep,
                     producerDone>>
      /\ Stopping' = Stopping
  BY <1>1 DEF schedulerVars, Stopping
<1>3. transport = "tq" => ~producerDone /\ ~(Stopping /\ ~BudgetExhausted)
  BY <1>1 DEF NothingForgotten
<1>. QED BY <1>1, <1>2, <1>3, ProducedAmong, ForgottenKept

(* The consumer takes from the store what it has trained.                  *)
LEMMA ConsumeForgets ==
  ASSUME TypeOK, NothingForgotten, Consume
  PROVE  NothingForgotten'
<1>1. UNCHANGED <<transport, producer>> /\ UNCHANGED schedulerVars /\ tq' \subseteq tq
  BY Zenon DEF Consume, ConsumerStep, Start, SkipCommand, Fetch, TakeStop, TakeCommand, Train,
     Fail, Account, Clear, Announce, Save, FinalizeSave, End, channelVars
<1>2. /\ UNCHANGED <<seen, ready, dropped, plans, completed, consumerReady, initialStep,
                     producerDone>>
      /\ Stopping' = Stopping
  BY <1>1 DEF schedulerVars, Stopping
<1>3. transport = "tq" =>
        /\ producerDone \/ (Stopping /\ ~BudgetExhausted) => producer # "running"
        /\ Stopping /\ ~BudgetExhausted => tq = {}
  BY DEF NothingForgotten
<1>. QED BY <1>1, <1>2, <1>3, ConsumedAmong, ForgottenKept

(* Planning moves ready samples into a plan; at the tail they are dropped. *)
LEMMA PlanForgets ==
  ASSUME TypeOK, InOrder, EndsInTurn, NothingForgotten, UNCHANGED <<producerVars, consumerVars>>,
         Dispatch \/ KeepWaiting \/ StopAtBudget \/ StopAtTail
  PROVE  NothingForgotten'
<1>1. /\ UNCHANGED <<transport, producer, events, seen, producerDone>> /\ drv = "plan"
      /\ completed' = completed /\ consumerReady' = consumerReady /\ initialStep' = initialStep
  BY Zenon DEF Dispatch, KeepWaiting, StopAtBudget, StopAtTail, Settled, Planning, newsVars,
     channelVars, PutCommand
<1>2. ~Stopping
  BY <1>1 DEF Stopping
<1>3. /\ dropped = {} /\ \A s \in seen \ ready : Planned(s)
      /\ transport = "tq" => /\ seen = {} /\ (producerDone => producer # "running")
                             /\ Among(events, "producer_done") = {}
  BY <1>2 DEF NothingForgotten
<1>4. transport # "tq" => Confirmed = ready
  BY DEF Confirmed
<1>5. Among(events', "producer_done") = Among(events, "producer_done")
  BY <1>1
<1>6. CASE Dispatch
  <2>1. PICK keys \in SUBSET Confirmed :
          plans' = Append(plans, keys) /\ ready' = Confirmed \ keys
    BY <1>6 DEF Dispatch
  <2>2. dropped' = dropped /\ ~Stopping'
    BY <1>1, <1>6, Zenon DEF Dispatch, Stopping
  <2>3. /\ Len(plans') = Len(plans) + 1 /\ plans'[Len(plans) + 1] = keys
        /\ \A i \in 1..Len(plans) : plans'[i] = plans[i]
        /\ Len(plans) \in Nat
    <3>1. keys \in SUBSET Samples /\ plans \in Seq(SUBSET Samples)
      BY ConfirmedTypes DEF TypeOK, SchedulerTypeOK
    <3>. QED BY <2>1, <3>1, AppendProperties
  <2>4. /\ Len(plans) + 1 \in 1..Len(plans')
        /\ \A i \in 1..Len(plans) : i \in 1..Len(plans')
    BY <2>3, SMT
  <2>5. \A s : Planned(s) \/ s \in keys => Planned(s)'
    BY <2>3, <2>4 DEF Planned
  <2>6. \A s \in seen' \ ready' : Planned(s)'
    BY <1>1, <1>3, <1>4, <2>1, <2>5
  <2>. QED BY <1>1, <1>3, <1>5, <2>2, <2>6, Zenon DEF NothingForgotten
<1>7. CASE KeepWaiting
  <2>1. ready' = Confirmed /\ UNCHANGED <<plans, dropped>> /\ ~Stopping'
    BY <1>1, <1>7, Zenon DEF KeepWaiting, Stopping
  <2>2. \A s \in seen' \ ready' : Planned(s)'
    BY <1>1, <1>3, <1>4, <2>1 DEF Planned
  <2>. QED BY <1>1, <1>3, <1>5, <2>1, <2>2, Zenon DEF NothingForgotten
<1>8. CASE StopAtBudget
  <2>1. UNCHANGED <<plans, dropped, ready>> /\ BudgetExhausted /\ drv' = "finishing"
    BY <1>8, Zenon DEF StopAtBudget
  <2>2. BudgetExhausted' /\ Stopping'
    BY <1>1, <2>1 DEF BudgetExhausted, BudgetAbove, Outstanding, Stopping
  <2>3. Cardinality(dropped') < Batch
    BY <1>3, <2>1, FS_EmptySet, SizesAssumption, SMT
  <2>4. \A s \in seen' \ ready' : Planned(s)'
    BY <1>1, <1>3, <2>1 DEF Planned
  <2>. QED BY <1>1, <1>3, <1>5, <2>2, <2>3, <2>4, Zenon DEF NothingForgotten
<1>9. CASE StopAtTail
  <2>1. /\ dropped' = Confirmed /\ tq' = tq \ Confirmed /\ ready' = {} /\ plans' = plans
        /\ drv' = "finishing" /\ Settled /\ AtTail
    BY <1>9, Zenon DEF StopAtTail
  <2>2. Cardinality(dropped') < Batch /\ (transport = "tq" => tq' = {} /\ producer # "running")
    <3>1. Cardinality(Confirmed) < Batch /\ (transport = "tq" => Confirmed = tq)
      BY <2>1, ShortIsAll DEF AtTail
    <3>2. producerDone
      BY <2>1 DEF AtTail
    <3>. QED BY <1>3, <2>1, <3>1, <3>2
  <2>3. Stopping'
    BY <2>1 DEF Stopping
  <2>4. \A s \in seen' \ ready' : Planned(s)' \/ s \in dropped'
    BY <1>1, <1>3, <1>4, <2>1 DEF Planned
  <2>. QED BY <1>1, <1>3, <1>5, <2>1, <2>2, <2>3, <2>4, Zenon DEF NothingForgotten
<1>. QED BY <1>6, <1>7, <1>8, <1>9

(* News adds to what is ready; the producer's completion event belongs to  *)
(* hidden references.                                                      *)
LEMMA NewsForgets ==
  ASSUME TypeOK, OneWay, NothingForgotten, Schedule,
         \/ ProducerReturned \/ OnReady \/ OnPublished \/ OnSamples \/ OnProducerDone
         \/ OnCompletedAgain \/ OnCompleted
  PROVE  NothingForgotten'
<1>1. UNCHANGED <<transport, producer, plans, dropped>> /\ drv = "wait"
  BY Zenon DEF ProducerReturned, OnReady, OnPublished, OnSamples, OnProducerDone,
     OnCompletedAgain, OnCompleted, Take, Waiting, schedulerVars
<1>2. drv' \in {"plan", "wait"}
  BY <1>1, Zenon DEF ProducerReturned, OnReady, OnPublished, OnSamples, OnProducerDone,
     OnCompletedAgain, OnCompleted, Reconcile, schedulerVars
<1>3. ~Stopping /\ ~Stopping'
  BY <1>1, <1>2 DEF Stopping
<1>4. /\ dropped = {} /\ \A s \in seen \ ready : Planned(s)
      /\ transport = "tq" => /\ seen = {} /\ (producerDone => producer # "running")
                             /\ Among(events, "producer_done") = {}
  BY <1>3 DEF NothingForgotten
<1>5. transport = "tq" => Among(events', "producer_done") = {}
  BY <1>4, ScheduledAmong
<1>6. \A s : Planned(s)' = Planned(s)
  BY <1>1 DEF Planned
<1>7. transport = "tq" => (producerDone' => producer' # "running")
  <2>1. CASE ProducerReturned
    BY <1>1, <2>1, Zenon DEF ProducerReturned
  <2>2. CASE OnProducerDone
    <3>1. events # <<>> /\ Head(events).kind = "producer_done"
      BY <2>2 DEF OnProducerDone, Take
    <3>2. Head(events) \in Among(events, "producer_done")
      BY <3>1, AmongTaken DEF TypeOK, ChannelsTypeOK
    <3>. QED BY <1>4, <3>2
  <2>3. CASE OnReady \/ OnPublished \/ OnSamples \/ OnCompletedAgain \/ OnCompleted
    <3>1. producerDone' = producerDone
      BY <2>3, Zenon DEF OnReady, OnPublished, OnSamples, OnCompletedAgain, OnCompleted,
         Reconcile, schedulerVars
    <3>. QED BY <1>1, <1>4, <3>1
  <2>. QED BY <2>1, <2>2, <2>3
<1>8. (transport = "tq" => seen' = {}) /\ \A s \in seen' \ ready' : Planned(s)
  <2>1. CASE UNCHANGED <<seen, ready>>
    BY <1>4, <2>1
  <2>2. CASE OnSamples /\ ~(Head(events).id <= lastBatch)
    <3>1. /\ seen' = seen \union (Head(events).keys \ seen)
          /\ ready' = (ready \union (Head(events).keys \ seen)) \ Reserved
      BY <2>2 DEF OnSamples
    <3>2. transport # "tq"
      BY <2>2, FreshIsReference
    <3>3. \A s \in Reserved : Planned(s)
      <4>1. \A i \in (completed + 1)..Len(plans) : i \in 1..Len(plans)
        <5>1. completed \in Nat /\ Len(plans) \in Nat
          BY LenProperties DEF TypeOK, SchedulerTypeOK
        <5>. QED BY <5>1, SMT
      <4>. QED BY <4>1 DEF Reserved, Planned
    <3>. QED BY <1>4, <3>1, <3>2, <3>3
  <2>3. UNCHANGED <<seen, ready>> \/ (OnSamples /\ ~(Head(events).id <= lastBatch))
    BY Zenon DEF ProducerReturned, OnReady, OnPublished, OnSamples, OnProducerDone,
       OnCompletedAgain, OnCompleted, newsVars, schedulerVars
  <2>. QED BY <2>1, <2>2, <2>3
<1>. QED BY <1>1, <1>3, <1>4, <1>5, <1>6, <1>7, <1>8 DEF NothingForgotten



(* Every step accounts for what the driver was told of.                    *)
LEMMA ForgottenStep ==
  ASSUME Base, EndsInTurn, NothingForgotten, [Next]_vars
  PROVE  NothingForgotten'
<1>1. TypeOK /\ InOrder /\ OneWay
  BY DEF Base
<1>2. transport = "tq" =>
        /\ producerDone \/ (Stopping /\ ~BudgetExhausted) => producer # "running"
        /\ Stopping /\ ~BudgetExhausted => tq = {}
  BY DEF NothingForgotten
<1>3. CASE /\ Schedule
           /\ ConsumerReturned(optStep) \/ ProducerRaised \/ ConsumerRaised \/ Finish
  <2>1. /\ UNCHANGED <<transport, tq, events, seen, ready, dropped, plans, completed,
                       consumerReady, initialStep, producerDone>>
        /\ producer' = producer \/ producer' = "stopped"
        /\ drv' = drv \/ (drv = "finishing" /\ drv' = "done")
    BY <1>3, Zenon DEF ConsumerReturned, ProducerRaised, ConsumerRaised, Finish, newsVars,
       schedulerVars
  <2>2. Stopping' = Stopping
    BY <2>1 DEF Stopping
  <2>. QED BY <1>2, <2>1, <2>2, ForgottenKept
<1>4. CASE Relaunch
  <2>1. /\ seen' = {} /\ dropped' = {} /\ ~producerDone' /\ drv' = "plan" /\ events' = <<>>
    BY <1>4, Zenon DEF Relaunch, ChannelsRelaunch, SchedulerRelaunch
  <2>2. Among(events', "producer_done") = {}
    <3>1. Len(events') = 0
      BY <2>1, EmptySeq
    <3>. QED BY <3>1, SMT DEF Among
  <2>. QED BY <2>1, <2>2, Zenon DEF NothingForgotten, Stopping
<1>5. CASE UNCHANGED vars
  <2>1. /\ UNCHANGED <<transport, tq, events, producer, seen, ready, dropped, plans, completed,
                       consumerReady, initialStep, producerDone>>
        /\ drv' = drv
    BY <1>5, Zenon DEF vars, channelVars, schedulerVars
  <2>2. Stopping' = Stopping
    BY <2>1 DEF Stopping
  <2>. QED BY <1>2, <2>1, <2>2, ForgottenKept
<1>. QED
  BY <1>1, <1>3, <1>4, <1>5, ProduceForgets, ConsumeForgets, PlanForgets, NewsForgets
     DEF Next, Schedule, SchedulerStep

(* At the start there is nothing to forget.                                *)
LEMMA ForgottenInit == Init => LearnedPlans /\ NothingForgotten
<1>. SUFFICES ASSUME Init PROVE LearnedPlans /\ NothingForgotten
  OBVIOUS
<1>1. /\ seen = {} /\ dropped = {} /\ ~producerDone /\ drv = "plan" /\ events = <<>>
      /\ lastPlan = 0 /\ fetched = <<>>
  BY Zenon DEF Init, ChannelsInit, SchedulerInit, ConsumerInit
<1>2. Len(events) = 0 /\ Len(fetched) = 0
  BY <1>1, EmptySeq
<1>3. Among(events, "producer_done") = {}
  BY <1>2, SMT DEF Among
<1>4. NothingForgotten
  BY <1>1, <1>3, Zenon DEF NothingForgotten, Stopping
<1>5. Trained = 0
  <2>1. lastPlan = 0
    BY <1>1
  <2>2. Trained = lastPlan - 0
    BY <1>2 DEF Trained
  <2>. QED BY <2>1, <2>2, SMT
<1>6. LearnedPlans
  BY <1>5, SMT DEF LearnedPlans
<1>. QED BY <1>4, <1>6

(* When the driver stops, every plan is trained: it waits for all of them. *)
LEMMA Accounted ==
  ASSUME Base, EndsInTurn, LearnedPlans, NothingForgotten
  PROVE  EndIsAccounted
<1>. SUFFICES ASSUME Stopping PROVE /\ Cardinality(dropped) < Batch
                                    /\ ready = {} \/ BudgetExhausted
                                    /\ \A s \in (tq \union seen) \ (twice \union dropped) :
                                         BudgetExhausted \/ model[s] = 1
  BY DEF EndIsAccounted, Stopping
<1>1. TypeOK /\ InOrder /\ OneWay /\ ExactlyOnce
  BY DEF Base
<1>2. /\ Cardinality(dropped) < Batch
      /\ \/ BudgetExhausted
         \/ ready = {} /\ (transport = "tq" => tq = {} /\ producer # "running")
      /\ \A s \in seen \ ready : Planned(s) \/ s \in dropped
      /\ transport = "tq" => seen = {}
  BY DEF NothingForgotten
<1>3. ASSUME NEW s \in (tq \union seen) \ (twice \union dropped), ~BudgetExhausted
      PROVE  model[s] = 1
  <2>1. transport # "tq" => tq = {}
    BY <1>1 DEF OneWay, HandedOn
  <2>2. s \in seen \ ready
    BY <1>2, <1>3, <2>1
  <2>3. PICK i \in 1..Len(plans) : s \in plans[i]
    BY <1>2, <1>3, <2>2 DEF Planned
  <2>4. i \in 1..Trained
    <3>1. Outstanding = 0
      BY DEF EndsInTurn
    <3>2. Len(plans) <= Trained
      BY <1>1, <3>1, Progress, SMT DEF Outstanding
    <3>3. i \in Nat /\ 1 <= i /\ i <= Len(plans)
      BY <2>3, SMT
    <3>. QED BY <1>1, <3>2, <3>3, Progress, SMT
  <2>5. model[s] > 0
    BY <2>3, <2>4 DEF LearnedPlans
  <2>6. s \in Samples
    BY <1>1, <2>2 DEF TypeOK, SchedulerTypeOK
  <2>7. model[s] <= 1
    BY <1>1, <1>3, <2>6 DEF ExactlyOnce, TrainedOnce
  <2>8. model[s] \in Nat
    BY <1>1, <2>6 DEF TypeOK, ConsumerTypeOK
  <2>. QED BY <2>5, <2>7, <2>8, SMT
<1>. QED BY <1>2, <1>3

(* When the driver stops, every sample that it was told of or that the     *)
(* store has is trained, or in a tail short of a batch, unless the budget  *)
(* ended the run.                                                          *)
THEOREM StandaloneEndIsAccounted == Spec => []EndIsAccounted
<1>. DEFINE Inv == EndsInTurn /\ LearnedPlans /\ NothingForgotten
<1>1. Inv /\ Base /\ [Next]_vars => Inv'
  BY EndsStep, LearnedStep, ForgottenStep
<1>2. Init => Inv
  BY EndsInit, ForgottenInit
<1>3. Inv /\ Base => EndIsAccounted
  BY Accounted
<1>. HIDE DEF Inv
<1>. QED BY <1>1, <1>2, <1>3, StandaloneBase, PTL DEF Spec

-----------------------------------------------------------------------------
(* What the driver counts as ready is there                                *)

(* Sets of samples are finite.                                             *)
LEMMA SampleSets ==
  ASSUME NEW S \in SUBSET Samples
  PROVE  IsFiniteSet(S) /\ Cardinality(S) \in Nat
<1>1. IsFiniteSet(Samples)
  <2>1. NumSamples \in Nat
    BY SizesAssumption
  <2>2. NumSamples - 1 \in Int /\ 0 \in Int
    BY <2>1, SMT
  <2>. QED BY <2>2, FS_Interval, Zenon DEF Samples
<1>2. IsFiniteSet(S)
  BY <1>1, FS_Subset
<1>. QED BY <1>2, FS_CardinalityType

(* A larger set counts more; disjoint sets add up.                         *)
LEMMA Counting ==
  ASSUME NEW S \in SUBSET Samples, NEW T \in SUBSET Samples
  PROVE  /\ S \subseteq T => Cardinality(S) <= Cardinality(T)
         /\ S \intersect T = {} => Cardinality(S \union T) = Cardinality(S) + Cardinality(T)
         /\ Cardinality(S) <= Cardinality(S \ T) + Cardinality(T)
<1>1. /\ IsFiniteSet(S) /\ Cardinality(S) \in Nat /\ IsFiniteSet(T) /\ Cardinality(T) \in Nat
      /\ IsFiniteSet(S \intersect T) /\ Cardinality(S \intersect T) \in Nat
      /\ Cardinality(S \ T) \in Nat
  <2>1. S \intersect T \in SUBSET Samples /\ S \ T \in SUBSET Samples
    OBVIOUS
  <2>. QED BY <2>1, SampleSets
<1>2. S \subseteq T => Cardinality(S) <= Cardinality(T)
  BY <1>1, FS_Subset
<1>3. ASSUME S \intersect T = {} PROVE Cardinality(S \union T) = Cardinality(S) + Cardinality(T)
  <2>1. Cardinality(S \union T) = Cardinality(S) + Cardinality(T) - Cardinality(S \intersect T)
    BY <1>1, FS_Union
  <2>2. Cardinality(S \intersect T) = 0
    BY <1>3, FS_EmptySet
  <2>. QED BY <1>1, <2>1, <2>2, SMT
<1>4. Cardinality(S) <= Cardinality(S \ T) + Cardinality(T)
  <2>1. Cardinality(S \ T) = Cardinality(S) - Cardinality(S \intersect T)
    BY <1>1, FS_Difference
  <2>2. Cardinality(S \intersect T) <= Cardinality(T)
    <3>1. S \intersect T \in SUBSET T
      OBVIOUS
    <3>. QED BY <1>1, <3>1, FS_Subset
  <2>. QED BY <1>1, <2>1, <2>2, SMT
<1>. QED BY <1>2, <1>3, <1>4

(* One sample more.                                                        *)
LEMMA CountOne ==
  ASSUME NEW S \in SUBSET Samples, NEW s \in Samples
  PROVE  Cardinality(S \union {s}) = IF s \in S THEN Cardinality(S) ELSE Cardinality(S) + 1
BY SampleSets, FS_AddElement

(* A plan more of batches.                                                 *)
LEMMA BatchMore ==
  ASSUME NEW n \in Nat
  PROVE  Batch * (n + 1) = Batch * n + Batch /\ Batch * n \in Nat
<1>1. Batch \in Nat
  BY SizesAssumption
<1>. QED BY <1>1, SMT

(* More plans, more samples.                                               *)
LEMMA BatchOrder ==
  ASSUME NEW m \in Nat, NEW n \in Nat, m <= n
  PROVE  Batch * m <= Batch * n
<1>1. Batch \in Nat
  BY SizesAssumption
<1>2. PICK k \in Nat : n = m + k
  <2>1. n - m \in Nat /\ n = m + (n - m)
    BY SMT
  <2>. QED BY <2>1
<1>3. Batch * (m + k) = Batch * m + Batch * k /\ Batch * k \in Nat /\ Batch * m \in Nat
  BY <1>1, <1>2, SMT
<1>. QED BY <1>2, <1>3, SMT

(* A plan is one batch.                                                    *)
LEMMA FullStep ==
  ASSUME TypeOK, PlansFull, [Next]_vars
  PROVE  PlansFull'
<1>1. CASE Dispatch
  <2>1. PICK keys \in SUBSET Confirmed : IsNextBatch(keys) /\ plans' = Append(plans, keys)
    BY <1>1 DEF Dispatch
  <2>2. keys \in SUBSET Samples /\ plans \in Seq(SUBSET Samples)
    BY ConfirmedTypes DEF TypeOK, SchedulerTypeOK
  <2>3. /\ Len(plans') = Len(plans) + 1 /\ Len(plans) \in Nat
        /\ plans'[Len(plans) + 1] = keys
        /\ \A i \in 1..Len(plans) : plans'[i] = plans[i]
    BY <2>1, <2>2, AppendProperties, LenProperties
  <2>4. Cardinality(keys) = Batch
    BY <2>1 DEF IsNextBatch
  <2>5. \A i \in 1..(Len(plans) + 1) : i = Len(plans) + 1 \/ i \in 1..Len(plans)
    BY <2>3, SMT
  <2>. QED BY <2>3, <2>4, <2>5 DEF PlansFull
<1>2. CASE Relaunch
  <2>1. plans' = <<>>
    BY <1>2 DEF Relaunch, SchedulerRelaunch
  <2>2. Len(plans') = 0
    BY <2>1, EmptySeq
  <2>3. \A i \in 1..0 : FALSE
    BY SMT
  <2>. QED BY <2>2, <2>3 DEF PlansFull
<1>3. CASE ~Dispatch /\ ~Relaunch
  <2>1. plans' = plans
    BY <1>3, Zenon DEF Next, vars, Produce, Consume, Schedule, SchedulerStep, StopAtBudget,
       StopAtTail, KeepWaiting, ProducerReturned, ProducerRaised, ConsumerRaised, Finish, OnReady,
       OnPublished, OnSamples, OnProducerDone, OnCompletedAgain, OnCompleted, ConsumerReturned,
       schedulerVars
  <2>. QED BY <2>1 DEF PlansFull
<1>. QED BY <1>1, <1>2, <1>3

(* Every publication is of a sample that is in the store for the first     *)
(* time, or was put there by an attempt not counted.                       *)
LEMMA PublishedStep ==
  ASSUME TypeOK, TypeOK', OneWay, PublishedOnce, [Next]_vars
  PROVE  PublishedOnce'
<1>1. /\ published \in Nat /\ handed \in SUBSET Samples /\ asked \in SUBSET Samples
      /\ handed' \in SUBSET Samples /\ asked' \in SUBSET Samples
  BY DEF TypeOK, ProducerTypeOK
<1>2. /\ handed \ asked \in SUBSET Samples /\ handed' \ asked' \in SUBSET Samples
  BY <1>1
<1>3. /\ Cardinality(handed \ asked) \in Nat /\ Cardinality(handed' \ asked') \in Nat
  BY <1>2, SampleSets
<1>4. ASSUME transport' = transport, published' = published, handed \ asked \subseteq handed' \ asked'
      PROVE  PublishedOnce'
  <2>1. Cardinality(handed \ asked) <= Cardinality(handed' \ asked')
    BY <1>2, <1>4, Counting
  <2>. QED BY <1>1, <1>3, <1>4, <2>1, SMT DEF PublishedOnce
<1>5. CASE Request
  <2>1. PICK s \in todo : asked' = asked \union {s}
    BY <1>5 DEF Request
  <2>2. UNCHANGED <<transport, published, handed>>
    BY <1>5 DEF Request, channelVars
  <2>3. s \notin handed
    BY DEF OneWay, AskedOnce
  <2>. QED BY <1>4, <2>1, <2>2, <2>3
<1>6. ASSUME NEW s \in Samples, Drop(s) \/ PublishAmbiguous(s) \/ PublishFails(s)
      PROVE  PublishedOnce'
  <2>1. UNCHANGED <<transport, published>>
    BY <1>6, Zenon DEF Drop, PublishAmbiguous, PublishFails
  <2>2. asked' \subseteq asked /\ handed \subseteq handed'
    BY <1>6 DEF Drop, PublishAmbiguous, PublishFails, Put
  <2>. QED BY <1>4, <2>1, <2>2
<1>7. ASSUME NEW s \in Samples, PublishOne(s)
      PROVE  PublishedOnce'
  <2>1. /\ transport' = transport /\ published' = published + 1 /\ transport = "tq"
        /\ s \in asked /\ asked' = asked \ {s} /\ handed' = handed \union {s}
    BY <1>7, Zenon DEF PublishOne, Publishing, Put
  <2>2. handed' \ asked' = (handed \ asked) \union {s} /\ s \notin handed \ asked
    BY <2>1
  <2>3. Cardinality(handed' \ asked') = Cardinality(handed \ asked) + 1
    BY <1>2, <2>2, CountOne
  <2>. QED BY <1>1, <1>3, <2>1, <2>3, SMT DEF PublishedOnce
<1>8. CASE SubmitReferences
  <2>1. transport = "reference" /\ transport' = transport
    BY <1>8, Zenon DEF SubmitReferences
  <2>. QED BY <2>1, Zenon DEF PublishedOnce
<1>9. CASE Relaunch
  <2>1. published' = 0
    BY <1>9, Zenon DEF Relaunch, ProducerRelaunch
  <2>. QED BY <1>3, <2>1, SMT DEF PublishedOnce
<1>10. CASE UNCHANGED <<transport, published, handed, asked>>
  BY <1>4, <1>10
<1>11. CASE Notify \/ Drained \/ DrainTimeout \/ ReturnReferences
  <2>1. UNCHANGED <<transport, published, handed, asked>>
    BY <1>11, Zenon DEF Notify, Drained, DrainTimeout, Return, ReturnReferences, producerVars
  <2>. QED BY <1>10, <2>1
<1>12. CASE Schedule \/ Consume \/ UNCHANGED vars
  <2>1. UNCHANGED producerVars
    BY <1>12 DEF Schedule, Consume, vars
  <2>2. UNCHANGED transport
    BY <1>12, Zenon DEF Schedule, SchedulerStep, Dispatch, StopAtBudget,
       StopAtTail, KeepWaiting, ProducerReturned, ProducerRaised, ConsumerRaised, Finish, OnReady,
       OnPublished, OnSamples, OnProducerDone, OnCompletedAgain, OnCompleted, ConsumerReturned,
       Take, Consume, ConsumerStep, Start, SkipCommand, Fetch, TakeStop,
       TakeCommand, Train, Fail, Account, Clear, Announce, Save, FinalizeSave, End, channelVars,
       vars
  <2>. QED BY <1>10, <2>1, <2>2 DEF producerVars
<1>. QED
  BY <1>5, <1>6, <1>7, <1>8, <1>9, <1>11, <1>12 DEF Next, Produce, ProducerStep

(* The driver does not come back from its end.                             *)
LEMMA StoppingStays ==
  ASSUME Schedule
  PROVE  /\ UNCHANGED transport
         /\ Stopping => Stopping'
         /\ StopAtTail => Stopping'
         /\ ~StopAtTail => tq' = tq
<1>1. CASE Dispatch \/ KeepWaiting
  BY <1>1, Zenon DEF Dispatch, KeepWaiting, Settled, Planning, Stopping, channelVars, StopAtTail
<1>2. CASE StopAtBudget \/ StopAtTail
  BY <1>2, Zenon DEF StopAtBudget, StopAtTail, Stopping
<1>3. CASE ProducerRaised \/ ConsumerRaised
  <2>1. drv' = drv /\ UNCHANGED <<transport, tq>>
    BY <1>3, Zenon DEF ProducerRaised, ConsumerRaised, schedulerVars
  <2>2. StopAtTail => Stopping'
    BY Zenon DEF StopAtTail, Stopping
  <2>. QED BY <2>1, <2>2 DEF Stopping
<1>4. CASE Finish
  <2>1. UNCHANGED <<transport, tq>> /\ Stopping'
    BY <1>4, Zenon DEF Finish, Stopping
  <2>. QED BY <2>1
<1>5. CASE \/ ProducerReturned \/ ConsumerReturned(optStep) \/ OnReady \/ OnPublished
           \/ OnSamples \/ OnProducerDone \/ OnCompletedAgain \/ OnCompleted
  <2>1. UNCHANGED <<transport, tq>> /\ ~Stopping
    BY <1>5, Zenon DEF ProducerReturned, ConsumerReturned, OnReady, OnPublished, OnSamples,
       OnProducerDone, OnCompletedAgain, OnCompleted, Take, Waiting, Stopping
  <2>2. ~StopAtTail
    <3>1. drv = "wait"
      BY <1>5, Zenon DEF ProducerReturned, ConsumerReturned, OnReady, OnPublished, OnSamples,
         OnProducerDone, OnCompletedAgain, OnCompleted, Take, Waiting
    <3>2. StopAtTail => drv = "plan"
      BY Zenon DEF StopAtTail, Settled, Planning
    <3>. QED BY <3>1, <3>2
  <2>. QED BY <2>1, <2>2
<1>. QED BY <1>1, <1>2, <1>3, <1>4, <1>5, Zenon DEF Schedule, SchedulerStep

(* How much is cleared is a number, before and after a step.               *)
LEMMA ClearedNat == TypeOK /\ InOrder => Cleared \in Nat
<1>. QED BY ClearedIs

LEMMA ClearedNatNext == (TypeOK /\ InOrder)' => (Cleared \in Nat)'
<1>. QED BY ClearedNat, PTL

(* What a put adds to the history it adds to the store; a batch that is    *)
(* cleared takes one batch from the store.                                 *)
LEMMA CoverStep ==
  ASSUME TypeOK, TypeOK', InOrder, InOrder', QueuesInOrder, OneWay, PlansFull, StoreCovers,
         [Next]_vars
  PROVE  StoreCovers'
<1>1. /\ handed \in SUBSET Samples /\ tq \in SUBSET Samples
      /\ handed' \in SUBSET Samples /\ tq' \in SUBSET Samples
      /\ Cleared \in Nat /\ Cleared' \in Nat
  <2>1. /\ handed \in SUBSET Samples /\ tq \in SUBSET Samples
        /\ handed' \in SUBSET Samples /\ tq' \in SUBSET Samples
    BY DEF TypeOK, ProducerTypeOK, ChannelsTypeOK
  <2>2. Cleared \in Nat
    BY ClearedIs
  <2>3. Cleared' \in Nat
    BY ClearedNatNext
  <2>. QED BY <2>1, <2>2, <2>3
<1>2. /\ Cardinality(handed) \in Nat /\ Cardinality(tq) \in Nat
      /\ Cardinality(handed') \in Nat /\ Cardinality(tq') \in Nat
      /\ Batch * Cleared \in Nat /\ Batch * Cleared' \in Nat
  BY <1>1, SampleSets, BatchMore
<1>3. ASSUME transport' = transport, Stopping => Stopping', handed' = handed, tq' = tq,
             Cleared <= Cleared'
      PROVE  StoreCovers'
  <2>1. Batch * Cleared <= Batch * Cleared'
    BY <1>1, <1>3, BatchOrder
  <2>2. transport = "tq" /\ ~Stopping => Cardinality(handed) <= Cardinality(tq) + Batch * Cleared
    BY DEF StoreCovers
  <2>3. transport = "tq" /\ ~Stopping =>
          Cardinality(handed') <= Cardinality(tq') + Batch * Cleared'
    BY <1>2, <1>3, <2>1, <2>2, SMT
  <2>. QED BY <1>3, <2>3 DEF StoreCovers
<1>4. CASE Produce
  <2>1. /\ Cleared' = Cleared /\ drv' = drv
    BY <1>4, CountersKept DEF Produce, schedulerVars
  <2>2. Stopping' = Stopping
    BY <2>1 DEF Stopping
  <2>3. transport' = transport
    BY <1>4, Zenon DEF Produce, ProducerStep, Request, Drop, PublishOne, PublishAmbiguous,
       PublishFails, Notify, SubmitReferences, Drained, DrainTimeout, Return, ReturnReferences,
       channelVars
  <2>4. ASSUME NEW s \in Samples, Put(s) PROVE StoreCovers'
    <3>1. tq' = tq \union {s} /\ handed' = handed \union {s}
      BY <2>4 DEF Put
    <3>2. CASE s \in handed
      <4>1. handed' = handed
        BY <3>1, <3>2
      <4>2. Cardinality(tq) <= Cardinality(tq')
        BY <1>1, <3>1, Counting
      <4>. QED BY <1>2, <2>1, <2>2, <2>3, <4>1, <4>2, SMT DEF StoreCovers
    <3>3. CASE s \notin handed
      <4>. s \notin tq
        BY <3>3 DEF OneWay, HandedOn
      <4>1. /\ Cardinality(handed') = Cardinality(handed) + 1
            /\ Cardinality(tq') = Cardinality(tq) + 1
        BY <1>1, <3>1, <3>3, CountOne
      <4>. QED BY <1>2, <2>1, <2>2, <2>3, <4>1, SMT DEF StoreCovers
    <3>. QED BY <3>2, <3>3
  <2>5. ASSUME UNCHANGED <<tq, handed>> PROVE StoreCovers'
    <3>1. Cleared <= Cleared'
      BY <1>1, <2>1, SMT
    <3>. QED BY <1>3, <2>2, <2>3, <2>5, <3>1
  <2>6. CASE SubmitReferences
    <3>1. transport = "reference"
      BY <2>6, Zenon DEF SubmitReferences
    <3>. QED BY <2>3, <3>1, Zenon DEF StoreCovers
  <2>7. CASE ~SubmitReferences
    <3>1. UNCHANGED <<tq, handed>> \/ \E s \in Samples : Put(s)
      BY <1>4, <2>7, Zenon DEF Produce, ProducerStep, Request, Drop, PublishOne, PublishAmbiguous,
         PublishFails, Notify, Drained, DrainTimeout, Return, ReturnReferences, channelVars,
         producerVars
    <3>. QED BY <2>4, <2>5, <3>1
  <2>. QED BY <2>6, <2>7
<1>5. CASE Schedule
  <2>1. Cleared' = Cleared /\ handed' = handed
    BY <1>5, CountersKept DEF Schedule, producerVars
  <2>2. Cleared <= Cleared'
    BY <1>1, <2>1, SMT
  <2>3. CASE StopAtTail
    BY <1>5, <2>3, StoppingStays, Zenon DEF StoreCovers
  <2>4. CASE ~StopAtTail
    BY <1>3, <1>5, <2>1, <2>2, <2>4, StoppingStays
  <2>. QED BY <2>3, <2>4
<1>6. CASE Consume
  <2>1. handed' = handed /\ drv' = drv
    BY <1>6 DEF Consume, producerVars, schedulerVars
  <2>2. Stopping' = Stopping
    BY <2>1 DEF Stopping
  <2>3. CASE Clear
    <3>1. /\ UNCHANGED <<transport, lastPlan, fetched, finals>>
          /\ finals # <<>> /\ ~cleared /\ cleared' /\ tq' = tq \ Head(finals).keys
      BY <2>3, Zenon DEF Clear
    <3>2. Cleared' = Cleared + 1
      <4>1. Announced' = Announced
        BY <3>1 DEF Announced, Trained
      <4>2. cleared' => Cleared' = Announced' + 1
        BY DEF Cleared
      <4>. QED BY <3>1, <4>1, <4>2, ClearedIs
    <3>3. Head(finals).keys \in SUBSET Samples /\ Cardinality(Head(finals).keys) = Batch
      <4>1. Head(finals) = finals[1] /\ Len(finals) \in Nat \ {0} /\ Head(finals) \in Message
        BY <3>1, Taken DEF TypeOK, ConsumerTypeOK
      <4>2. 1 \in 1..Len(finals)
        BY <4>1, SMT
      <4>3. Head(finals) = PlanMsg(Announced + 1)
        BY <4>1, <4>2 DEF InOrder
      <4>4. Announced + 1 \in 1..Len(plans)
        BY <4>1, Progress, SMT
      <4>5. Head(finals).keys = plans[Announced + 1]
        BY <4>3, PlanMsgIs
      <4>6. Head(finals).keys \in SUBSET Samples
        BY <4>1, SMT DEF Message
      <4>. QED BY <4>4, <4>5, <4>6 DEF PlansFull
    <3>4. Cardinality(tq) <= Cardinality(tq') + Batch
      BY <1>1, <3>1, <3>3, Counting
    <3>5. Batch * Cleared' = Batch * Cleared + Batch /\ Batch \in Nat
      BY <1>1, <3>2, BatchMore, SizesAssumption
    <3>. QED BY <1>2, <2>1, <2>2, <3>1, <3>4, <3>5, SMT DEF StoreCovers
  <2>4. CASE ~Clear
    <3>1. UNCHANGED <<transport, tq>>
      BY <1>6, <2>4, Zenon DEF Consume, ConsumerStep, Start, SkipCommand, Fetch, TakeStop,
         TakeCommand, Train, Fail, Account, Announce, Save, FinalizeSave, End, channelVars
    <3>2. Cleared <= Cleared'
      BY <1>6, ClearedForward
    <3>. QED BY <1>3, <2>1, <2>2, <3>1, <3>2
  <2>. QED BY <2>3, <2>4
<1>7. CASE Relaunch
  <2>1. handed' = {}
    BY <1>7, Zenon DEF Relaunch, ProducerRelaunch
  <2>2. Cardinality(handed') = 0
    BY <2>1, FS_EmptySet
  <2>. QED BY <1>2, <2>2, SMT DEF StoreCovers
<1>8. CASE UNCHANGED vars
  <2>1. UNCHANGED <<transport, tq, handed, drv>> /\ UNCHANGED consumerVars
    BY <1>8, Zenon DEF vars, channelVars, producerVars, schedulerVars
  <2>2. Stopping' = Stopping /\ Cleared <= Cleared'
    <3>1. Cleared' = Cleared
      BY <2>1, CountersKept
    <3>. QED BY <1>1, <2>1, <3>1, SMT DEF Stopping
  <2>. QED BY <1>3, <2>1, <2>2
<1>. QED BY <1>4, <1>5, <1>6, <1>7, <1>8 DEF Next

(* The driver only takes messages from the events.                         *)
LEMMA EventsTaken ==
  ASSUME TypeOK, Schedule, NEW kind
  PROVE  Among(events', kind) \subseteq Among(events, kind)
<1>1. events \in Seq(Message)
  BY DEF TypeOK, ChannelsTypeOK
<1>2. events' = events \/ (events # <<>> /\ events' = Tail(events))
  BY Zenon DEF Schedule, SchedulerStep, Dispatch, StopAtBudget, StopAtTail, KeepWaiting,
     ProducerReturned, ProducerRaised, ConsumerRaised, Finish, ConsumerReturned, PutCommand,
     OnReady, OnPublished, OnSamples, OnProducerDone, OnCompletedAgain, OnCompleted, Take,
     channelVars
<1>3. CASE events' = events
  BY <1>3
<1>4. CASE events # <<>> /\ events' = Tail(events)
  BY <1>1, <1>4, AmongTaken
<1>. QED BY <1>2, <1>3, <1>4

(* The consumer does not speak for the producer.                           *)
LEMMA ConsumedPublished ==
  ASSUME TypeOK, Consume
  PROVE  Among(events', "published") = Among(events, "published")
<1>1. events \in Seq(Message)
  BY DEF TypeOK, ChannelsTypeOK
<1>2. CASE Start
  <2>1. Send(events, Msg("ready", optStep, {}), events')
    BY <1>2 DEF Start, PutEvent
  <2>2. /\ Msg("ready", optStep, {}) \in Message
        /\ Msg("ready", optStep, {}).kind = "ready"
    BY MsgTypes DEF Kinds, TypeOK, ConsumerTypeOK
  <2>. QED BY <1>1, <2>1, <2>2, AmongSent
<1>3. CASE Announce
  <2>1. /\ finals # <<>>
        /\ Send(events, Msg("completed", Head(finals).id, Head(finals).keys), events')
    BY <1>3 DEF Announce, PutEvent
  <2>2. Head(finals) \in Message
    BY <2>1, Taken DEF TypeOK, ConsumerTypeOK
  <2>3. Head(finals).id \in Nat /\ Head(finals).keys \in SUBSET Samples
    BY <2>2, SMT DEF Message
  <2>4. /\ Msg("completed", Head(finals).id, Head(finals).keys) \in Message
        /\ Msg("completed", Head(finals).id, Head(finals).keys).kind = "completed"
    BY <2>3, MsgTypes DEF Kinds
  <2>. QED BY <1>1, <2>1, <2>4, AmongSent
<1>4. CASE ~Start /\ ~Announce
  <2>1. events' = events
    BY <1>4, Zenon DEF Consume, ConsumerStep, SkipCommand, Fetch, TakeStop, TakeCommand, Train,
       Fail, Account, Clear, Save, FinalizeSave, End, channelVars
  <2>. QED BY <2>1
<1>. QED BY <1>2, <1>3, <1>4

(* News that changes what the driver counts.                               *)
LEMMA CountingNews ==
  ASSUME Schedule
  PROVE  \/ UNCHANGED <<hint, lastTotal, completed, seen>>
         \/ OnPublished /\ ~(Head(events).id <= lastTotal)
         \/ OnSamples /\ ~(Head(events).id <= lastBatch)
         \/ OnCompleted
<1>1. CASE \/ Dispatch \/ StopAtBudget \/ StopAtTail \/ KeepWaiting \/ ProducerRaised
           \/ ConsumerRaised \/ Finish \/ ConsumerReturned(optStep) \/ OnCompletedAgain
  BY <1>1, Zenon DEF Dispatch, StopAtBudget, StopAtTail, KeepWaiting, ProducerRaised,
     ConsumerRaised, Finish, ConsumerReturned, OnCompletedAgain, newsVars, schedulerVars
<1>2. CASE OnReady \/ OnProducerDone
  BY <1>2, Zenon DEF OnReady, OnProducerDone, Reconcile, newsVars
<1>3. CASE ProducerReturned
  <2>1. hint' = hint
    BY <1>3, Zenon DEF ProducerReturned, Reconcile
  <2>. QED BY <1>3, <2>1, Zenon DEF ProducerReturned
<1>4. CASE OnPublished /\ Head(events).id <= lastTotal
  <2>1. UNCHANGED <<lastTotal, hint>>
    BY <1>4, Zenon DEF OnPublished
  <2>. QED BY <1>4, <2>1, Zenon DEF OnPublished
<1>5. CASE OnSamples /\ Head(events).id <= lastBatch
  <2>1. UNCHANGED <<seen, hint>>
    BY <1>5, Zenon DEF OnSamples
  <2>. QED BY <1>5, <2>1, Zenon DEF OnSamples
<1>. QED BY <1>1, <1>2, <1>3, <1>4, <1>5, Zenon DEF Schedule, SchedulerStep

(* A count that grows by what is new keeps its distance, and stays covered *)
(* by a count that grows as much.                                          *)
LEMMA Shifted ==
  ASSUME NEW h \in Int, NEW g \in Int, NEW s \in Int, NEW t \in Int, NEW a \in Int,
         h = s - a, g - h = t - s
  PROVE  g = t - a
BY SMT

LEMMA StillCovered ==
  ASSUME NEW s \in Int, NEW t \in Int, NEW r \in Int, NEW q \in Int, NEW b \in Int,
         s <= r + b, q - r = t - s
  PROVE  t <= q + b
BY SMT

(* With the store, the count is what was published less what was trained.  *)
LEMMA TotalsStep ==
  ASSUME TypeOK, TypeOK', OneWay, TotalsTold, [Next]_vars
  PROVE  TotalsTold'
<1>1. /\ hint \in Int /\ lastTotal \in Nat /\ completed \in Nat /\ told \in Nat
      /\ published \in Nat /\ events \in Seq(Message) /\ Batch \in Nat
      /\ \A kind : \A m \in Among(events, kind) : m.id \in Nat
  <2>1. events \in Seq(Message)
    BY DEF TypeOK, ChannelsTypeOK
  <2>2. \A i \in 1..Len(events) : events[i] \in Message
    BY <2>1, ElementOfSeq
  <2>3. \A m \in Message : m.id \in Nat
    BY SMT DEF Message
  <2>4. \A kind : \A m \in Among(events, kind) : m.id \in Nat
    BY <2>2, <2>3 DEF Among
  <2>. QED BY <2>1, <2>4, SizesAssumption DEF TypeOK, SchedulerTypeOK, ProducerTypeOK
<1>2. transport = "tq" => /\ hint = lastTotal - Batch * completed
                          /\ lastTotal <= told /\ told <= published
                          /\ \A m \in Among(events, "published") : m.id <= told
  BY DEF TotalsTold
<1>3. CASE Produce
  <2>1. UNCHANGED <<hint, lastTotal, completed>>
    BY <1>3 DEF Produce, schedulerVars
  <2>2. CASE Notify
    <3>1. /\ told' = published /\ published' = published /\ transport' = transport
          /\ Send(events, Msg("published", published, {}), events')
      BY <2>2, Zenon DEF Notify, PutEvent
    <3>2. /\ Msg("published", published, {}) \in Message
          /\ Msg("published", published, {}).kind = "published"
          /\ Msg("published", published, {}).id = published
      BY <1>1, MsgTypes DEF Kinds
    <3>3. Among(events', "published") =
            Among(events, "published") \union {Msg("published", published, {})}
      BY <1>1, <3>1, <3>2, AmongSent
    <3>4. transport = "tq" => \A m \in Among(events, "published") : m.id <= published
      BY <1>1, <1>2, SMT
    <3>5. transport = "tq" => \A m \in Among(events', "published") : m.id <= published
      BY <1>1, <3>2, <3>3, <3>4, SMT
    <3>6. transport = "tq" => lastTotal <= published
      BY <1>1, <1>2, SMT
    <3>7. published <= published
      BY <1>1, SMT
    <3>. QED BY <1>2, <2>1, <3>1, <3>5, <3>6, <3>7, Zenon DEF TotalsTold
  <2>3. CASE SubmitReferences \/ ReturnReferences
    <3>1. transport' = transport /\ transport = "reference"
      BY <2>3, Zenon DEF SubmitReferences, ReturnReferences
    <3>. QED BY <3>1, Zenon DEF TotalsTold
  <2>4. CASE ~Notify /\ ~SubmitReferences /\ ~ReturnReferences
    <3>1. /\ UNCHANGED <<events, told, transport>>
          /\ published' = published \/ published' = published + 1
      BY <1>3, <2>4, Zenon DEF Produce, ProducerStep, Request, Drop, PublishOne, PublishAmbiguous,
         PublishFails, Drained, DrainTimeout, Return, channelVars, producerVars
    <3>2. transport = "tq" => told <= published'
      BY <1>1, <1>2, <3>1, SMT
    <3>. QED BY <1>2, <2>1, <3>1, <3>2, Zenon DEF TotalsTold
  <2>. QED BY <2>2, <2>3, <2>4
<1>4. CASE Schedule
  <2>1. UNCHANGED <<told, published>> /\ transport' = transport
    BY <1>4, StoppingStays DEF Schedule, producerVars
  <2>2. transport = "tq" => \A m \in Among(events', "published") : m.id <= told
    BY <1>2, <1>4, EventsTaken
  <2>3. CASE UNCHANGED <<hint, lastTotal, completed, seen>>
    BY <1>2, <2>1, <2>2, <2>3, Zenon DEF TotalsTold
  <2>4. CASE OnPublished /\ ~(Head(events).id <= lastTotal)
    <3>1. /\ events # <<>> /\ Head(events).kind = "published"
          /\ lastTotal' = Head(events).id /\ completed' = completed
          /\ hint' = hint + (Head(events).id - lastTotal)
      BY <2>4 DEF OnPublished, Take, Reconcile
    <3>2. Head(events) \in Among(events, "published")
      BY <1>1, <3>1, AmongTaken
    <3>3. lastTotal' \in Nat /\ (transport = "tq" => lastTotal' <= told)
      BY <1>1, <1>2, <3>1, <3>2
    <3>4. Batch * completed \in Nat
      BY <1>1, BatchMore
    <3>5. transport = "tq" => hint' = lastTotal' - Batch * completed
      <4>1. hint' \in Int /\ hint' - hint = lastTotal' - lastTotal
        BY <1>1, <3>1, <3>3, SMT
      <4>2. /\ hint \in Int /\ lastTotal \in Int /\ lastTotal' \in Int
            /\ Batch * completed \in Int
        BY <1>1, <3>3, <3>4, SMT
      <4>3. hint = lastTotal - Batch * completed => hint' = lastTotal' - Batch * completed
        BY <4>1, <4>2, Shifted
      <4>. QED BY <1>2, <4>3
    <3>. QED BY <1>2, <2>1, <2>2, <3>1, <3>3, <3>5, Zenon DEF TotalsTold
  <2>5. CASE OnSamples /\ ~(Head(events).id <= lastBatch)
    <3>1. transport # "tq"
      BY <2>5, FreshIsReference
    <3>. QED BY <2>1, <3>1, Zenon DEF TotalsTold
  <2>6. CASE OnCompleted
    <3>1. completed' = completed + 1 /\ lastTotal' = lastTotal /\ hint' = hint - Batch
      BY <2>6 DEF OnCompleted, Reconcile, newsVars, HintAfterCompletion
    <3>2. Batch * completed' = Batch * completed + Batch /\ Batch * completed \in Nat
      BY <1>1, <3>1, BatchMore
    <3>3. transport = "tq" => hint' = lastTotal - Batch * completed'
      BY <1>1, <1>2, <3>1, <3>2, SMT
    <3>. QED BY <1>2, <2>1, <2>2, <3>1, <3>3, Zenon DEF TotalsTold
  <2>. QED BY <1>4, <2>3, <2>4, <2>5, <2>6, CountingNews
<1>5. CASE Consume
  <2>1. UNCHANGED <<hint, lastTotal, completed, told, published>>
    BY <1>5 DEF Consume, schedulerVars, producerVars
  <2>2. Among(events', "published") = Among(events, "published")
    BY <1>5, ConsumedPublished
  <2>3. transport' = transport
    BY <1>5, Zenon DEF Consume, ConsumerStep, Start, SkipCommand, Fetch, TakeStop, TakeCommand,
       Train, Fail, Account, Clear, Announce, Save, FinalizeSave, End, channelVars
  <2>. QED BY <1>2, <2>1, <2>2, <2>3, Zenon DEF TotalsTold
<1>6. CASE Relaunch
  <2>1. /\ hint' = 0 /\ lastTotal' = 0 /\ completed' = 0 /\ told' = 0 /\ published' = 0
        /\ events' = <<>>
    BY <1>6, Zenon DEF Relaunch, ChannelsRelaunch, SchedulerRelaunch, ProducerRelaunch
  <2>2. Among(events', "published") = {}
    <3>1. Len(events') = 0
      BY <2>1, EmptySeq
    <3>. QED BY <3>1, SMT DEF Among
  <2>3. hint' = lastTotal' - Batch * completed' /\ lastTotal' <= told' /\ told' <= published'
    BY <1>1, <2>1, SMT
  <2>. QED BY <2>2, <2>3, Zenon DEF TotalsTold
<1>7. CASE UNCHANGED vars
  <2>1. UNCHANGED <<transport, events, hint, lastTotal, completed, told, published>>
    BY <1>7, Zenon DEF vars, channelVars, schedulerVars, producerVars
  <2>. QED BY <1>2, <2>1, Zenon DEF TotalsTold
<1>. QED BY <1>3, <1>4, <1>5, <1>6, <1>7 DEF Next

(* With references no totals are sent.                                     *)
LEMMA FromStoreStep ==
  ASSUME TypeOK, TotalsFromStore, [Next]_vars
  PROVE  TotalsFromStore'
<1>1. events \in Seq(Message)
  BY DEF TypeOK, ChannelsTypeOK
<1>2. ASSUME transport' = transport,
             Among(events', "published") \subseteq Among(events, "published")
      PROVE  TotalsFromStore'
  BY <1>2 DEF TotalsFromStore
<1>3. CASE Produce
  <2>1. CASE Notify
    <3>1. transport' = transport /\ transport = "tq"
      BY <2>1, Zenon DEF Notify
    <3>. QED BY <3>1, Zenon DEF TotalsFromStore
  <2>2. CASE SubmitReferences
    <3>1. PICK keys \in SUBSET asked : Send(events, Msg("samples", batchId + 1, keys), events')
      BY <2>2 DEF SubmitReferences, PutEvent
    <3>2. batchId + 1 \in Nat /\ keys \in SUBSET Samples
      BY SMT DEF TypeOK, ProducerTypeOK
    <3>3. /\ Msg("samples", batchId + 1, keys) \in Message
          /\ Msg("samples", batchId + 1, keys).kind = "samples"
      BY <3>2, MsgTypes DEF Kinds
    <3>4. Among(events', "published") = Among(events, "published")
      BY <1>1, <3>1, <3>3, AmongSent
    <3>5. transport' = transport
      BY <2>2, Zenon DEF SubmitReferences
    <3>. QED BY <1>2, <3>4, <3>5
  <2>3. CASE ReturnReferences
    <3>1. Send(events, Msg("producer_done", 0, {}), events') /\ transport' = transport
      BY <2>3, Zenon DEF ReturnReferences, PutEvent
    <3>2. /\ Msg("producer_done", 0, {}) \in Message
          /\ Msg("producer_done", 0, {}).kind = "producer_done"
      BY MsgTypes DEF Kinds
    <3>3. Among(events', "published") = Among(events, "published")
      BY <1>1, <3>1, <3>2, AmongSent
    <3>. QED BY <1>2, <3>1, <3>3
  <2>4. CASE ~Notify /\ ~SubmitReferences /\ ~ReturnReferences
    <3>1. UNCHANGED <<events, transport>>
      BY <1>3, <2>4, Zenon DEF Produce, ProducerStep, Request, Drop, PublishOne, PublishAmbiguous,
         PublishFails, Drained, DrainTimeout, Return, channelVars
    <3>. QED BY <1>2, <3>1
  <2>. QED BY <2>1, <2>2, <2>3, <2>4
<1>4. CASE Schedule
  BY <1>2, <1>4, StoppingStays, EventsTaken
<1>5. CASE Consume
  <2>1. transport' = transport
    BY <1>5, Zenon DEF Consume, ConsumerStep, Start, SkipCommand, Fetch, TakeStop, TakeCommand,
       Train, Fail, Account, Clear, Announce, Save, FinalizeSave, End, channelVars
  <2>. QED BY <1>2, <1>5, <2>1, ConsumedPublished
<1>6. CASE Relaunch
  <2>1. events' = <<>>
    BY <1>6, Zenon DEF Relaunch, ChannelsRelaunch
  <2>2. Len(events') = 0
    BY <2>1, EmptySeq
  <2>3. Among(events', "published") = {}
    BY <2>2, SMT DEF Among
  <2>. QED BY <2>3 DEF TotalsFromStore
<1>7. CASE UNCHANGED vars
  BY <1>2, <1>7, Zenon DEF vars, channelVars
<1>. QED BY <1>3, <1>4, <1>5, <1>6, <1>7 DEF Next

(* What is ready, and what is planned, changes in these steps.             *)
LEMMA ReadySteps ==
  ASSUME Schedule
  PROVE  \/ UNCHANGED <<ready, plans>>
         \/ Dispatch \/ KeepWaiting \/ StopAtTail
         \/ OnSamples /\ ~(Head(events).id <= lastBatch)
<1>1. CASE \/ StopAtBudget \/ ProducerReturned \/ ProducerRaised \/ ConsumerRaised \/ Finish
           \/ ConsumerReturned(optStep) \/ OnReady \/ OnPublished \/ OnProducerDone
           \/ OnCompletedAgain \/ OnCompleted
  BY <1>1, Zenon DEF StopAtBudget, ProducerReturned, ProducerRaised, ConsumerRaised, Finish,
     ConsumerReturned, OnReady, OnPublished, OnProducerDone, OnCompletedAgain, OnCompleted,
     schedulerVars
<1>2. CASE OnSamples /\ Head(events).id <= lastBatch
  <2>1. ready' = ready
    BY <1>2, Zenon DEF OnSamples
  <2>. QED BY <1>2, <2>1, Zenon DEF OnSamples
<1>. QED BY <1>1, <1>2, Zenon DEF Schedule, SchedulerStep

(* New metadata adds to what is ready as much as to what was seen.         *)
LEMMA FreshCounts ==
  ASSUME TypeOK, TypeOK', InOrder, OneWay, StoreHolds, OnSamples, ~(Head(events).id <= lastBatch)
  PROVE  /\ hint' - hint = Cardinality(seen') - Cardinality(seen)
         /\ Cardinality(ready') - Cardinality(ready) = Cardinality(seen') - Cardinality(seen)
         /\ UNCHANGED <<plans, completed>>
<1>. DEFINE incoming == Head(events).keys \ seen
<1>1. /\ seen' = seen \union incoming /\ ready' = (ready \union incoming) \ Reserved
      /\ hint' = hint + Cardinality(incoming)
      /\ UNCHANGED <<plans, completed>>
      /\ events # <<>> /\ Head(events).kind = "samples"
  BY DEF OnSamples, Take, Reconcile
<1>2. Head(events) \in Message /\ Head(events) \in Among(events, "samples")
  BY <1>1, Taken, AmongTaken DEF TypeOK, ChannelsTypeOK
<1>3. Head(events).id \in Nat /\ Head(events).keys \in SUBSET Samples
  BY <1>2, SMT DEF Message
<1>4. Head(events) \in Untaken
  <2>1. Head(events).id > lastBatch
    BY <1>3, SMT DEF TypeOK, SchedulerTypeOK
  <2>. QED BY <1>2, <2>1 DEF Untaken
<1>5. \A s \in incoming : s \notin ready /\ ~Planned(s)
  BY <1>4 DEF OneWay, ToldOnce
<1>6. Reserved \intersect (ready \union incoming) = {}
  <2>1. \A i \in (completed + 1)..Len(plans) : i \in 1..Len(plans)
    BY Progress, SMT
  <2>2. \A i \in (completed + 1)..Len(plans) : ready \intersect plans[i] = {}
    BY DEF StoreHolds
  <2>. QED BY <1>5, <2>1, <2>2 DEF Reserved, Planned
<1>7. ready' = ready \union incoming /\ ready \intersect incoming = {} /\ seen \intersect incoming = {}
  BY <1>1, <1>5, <1>6
<1>8. seen \in SUBSET Samples /\ ready \in SUBSET Samples /\ incoming \in SUBSET Samples
  BY <1>3 DEF TypeOK, SchedulerTypeOK
<1>9. /\ Cardinality(seen') = Cardinality(seen) + Cardinality(incoming)
      /\ Cardinality(ready') = Cardinality(ready) + Cardinality(incoming)
  BY <1>1, <1>7, <1>8, Counting
<1>10. /\ Cardinality(seen) \in Nat /\ Cardinality(ready) \in Nat /\ Cardinality(incoming) \in Nat
       /\ hint \in Int
  BY <1>8, SampleSets DEF TypeOK, SchedulerTypeOK
<1>. HIDE DEF incoming
<1>. QED BY <1>1, <1>9, <1>10, SMT

(* With references, the count is what the driver was told of less what was *)
(* trained, and that is ready or planned.                                  *)
LEMMA ReferencesStep ==
  ASSUME TypeOK, TypeOK', InOrder, OneWay, StoreHolds, PlansFull, TotalsFromStore,
         ReferencesCovered, [Next]_vars
  PROVE  ReferencesCovered'
<1>1. /\ seen \in SUBSET Samples /\ ready \in SUBSET Samples
      /\ seen' \in SUBSET Samples /\ ready' \in SUBSET Samples
      /\ hint \in Int /\ completed \in Nat /\ Len(plans) \in Nat /\ Batch \in Nat
  BY Progress, SizesAssumption DEF TypeOK, SchedulerTypeOK
<1>2. /\ Cardinality(seen) \in Nat /\ Cardinality(ready) \in Nat
      /\ Cardinality(seen') \in Nat /\ Cardinality(ready') \in Nat
      /\ Batch * completed \in Nat /\ Batch * Len(plans) \in Nat
  BY <1>1, SampleSets, BatchMore
<1>3. transport = "reference" =>
        /\ hint = Cardinality(seen) - Batch * completed
        /\ ~Stopping => Cardinality(seen) <= Cardinality(ready) + Batch * Len(plans)
  BY DEF ReferencesCovered
<1>4. ASSUME transport' = transport, Stopping => Stopping',
             UNCHANGED <<hint, seen, completed, ready, plans>>
      PROVE  ReferencesCovered'
  BY <1>3, <1>4 DEF ReferencesCovered
<1>5. CASE Produce \/ Consume \/ UNCHANGED vars
  <2>1. UNCHANGED schedulerVars
    BY <1>5 DEF Produce, Consume, vars
  <2>2. UNCHANGED <<hint, seen, completed, ready, plans, drv>>
    BY <2>1 DEF schedulerVars
  <2>3. transport' = transport
    BY <1>5, Zenon DEF Produce, ProducerStep, Request, Drop, PublishOne, PublishAmbiguous,
       PublishFails, Notify, SubmitReferences, Drained, DrainTimeout, Return, ReturnReferences,
       Consume, ConsumerStep, Start, SkipCommand, Fetch, TakeStop, TakeCommand, Train, Fail,
       Account, Clear, Announce, Save, FinalizeSave, End, channelVars, vars
  <2>. QED BY <1>4, <2>2, <2>3 DEF Stopping
<1>6. CASE Relaunch
  <2>1. hint' = 0 /\ seen' = {} /\ completed' = 0
    BY <1>6, Zenon DEF Relaunch, SchedulerRelaunch
  <2>2. Cardinality(seen') = 0
    BY <2>1, FS_EmptySet
  <2>3. Batch * completed' = 0
    BY <1>1, <2>1, SMT
  <2>4. plans' = <<>>
    BY <1>6, Zenon DEF Relaunch, SchedulerRelaunch
  <2>5. Batch * Len(plans') = 0
    BY <1>1, <2>4, EmptySeq, SMT
  <2>6. /\ hint' = Cardinality(seen') - Batch * completed'
        /\ Cardinality(seen') <= Cardinality(ready') + Batch * Len(plans')
    BY <1>2, <2>1, <2>2, <2>3, <2>5, SMT
  <2>. QED BY <2>6 DEF ReferencesCovered
<1>7. CASE Schedule
  <2>1. transport' = transport /\ (Stopping => Stopping') /\ (StopAtTail => Stopping')
    BY <1>7, StoppingStays
  <2>2. CASE OnSamples /\ ~(Head(events).id <= lastBatch)
    <3>1. /\ hint' - hint = Cardinality(seen') - Cardinality(seen)
          /\ Cardinality(ready') - Cardinality(ready) = Cardinality(seen') - Cardinality(seen)
          /\ UNCHANGED <<plans, completed>>
      BY <2>2, FreshCounts
    <3>2. hint' \in Int
      BY DEF TypeOK, SchedulerTypeOK
    <3>3. transport = "reference" =>
            /\ hint' = Cardinality(seen') - Batch * completed
            /\ ~Stopping => Cardinality(seen') <= Cardinality(ready') + Batch * Len(plans)
      <4>1. /\ Cardinality(seen) \in Int /\ Cardinality(seen') \in Int
            /\ Cardinality(ready) \in Int /\ Cardinality(ready') \in Int
            /\ Batch * completed \in Int /\ Batch * Len(plans) \in Int
        BY <1>2, SMT
      <4>2. hint = Cardinality(seen) - Batch * completed =>
              hint' = Cardinality(seen') - Batch * completed
        <5>1. hint \in Int /\ hint' - hint = Cardinality(seen') - Cardinality(seen)
          BY <1>1, <3>1
        <5>. QED BY <3>2, <4>1, <5>1, Shifted, SMTT(30)
      <4>3. Cardinality(seen) <= Cardinality(ready) + Batch * Len(plans) =>
              Cardinality(seen') <= Cardinality(ready') + Batch * Len(plans)
        BY <3>1, <4>1, StillCovered
      <4>. QED BY <1>3, <4>2, <4>3
    <3>. QED BY <2>1, <3>1, <3>3 DEF ReferencesCovered
  <2>3. CASE OnCompleted
    <3>1. /\ UNCHANGED <<seen, ready, plans>>
          /\ completed' = completed + 1 /\ hint' = hint - Batch
      BY <2>3 DEF OnCompleted, Reconcile, newsVars, HintAfterCompletion
    <3>2. Batch * completed' = Batch * completed + Batch
      BY <1>1, <3>1, BatchMore
    <3>3. transport = "reference" => hint' = Cardinality(seen) - Batch * completed'
      BY <1>1, <1>2, <1>3, <3>1, <3>2, SMTT(30)
    <3>. QED BY <1>3, <2>1, <3>1, <3>3 DEF ReferencesCovered
  <2>4. CASE Dispatch
    <3>1. UNCHANGED <<hint, seen, completed>>
      BY <2>4, Zenon DEF Dispatch, newsVars
    <3>2. PICK keys \in SUBSET Confirmed :
            IsNextBatch(keys) /\ plans' = Append(plans, keys) /\ ready' = Confirmed \ keys
      BY <2>4 DEF Dispatch
    <3>3. keys \in SUBSET Samples /\ Cardinality(keys) = Batch
      BY <3>2, ConfirmedTypes DEF IsNextBatch
    <3>4. Len(plans') = Len(plans) + 1
      BY <3>2, <3>3, AppendProperties DEF TypeOK, SchedulerTypeOK
    <3>5. Batch * Len(plans') = Batch * Len(plans) + Batch
      BY <1>1, <3>4, BatchMore
    <3>6. transport = "reference" => Cardinality(ready) <= Cardinality(ready') + Batch
      <4>1. transport = "reference" => Confirmed = ready
        BY DEF Confirmed
      <4>2. Cardinality(ready) <= Cardinality(ready \ keys) + Cardinality(keys)
        BY <1>1, <3>3, Counting
      <4>. QED BY <3>2, <3>3, <4>1, <4>2
    <3>7. transport = "reference" /\ ~Stopping =>
            Cardinality(seen) <= Cardinality(ready') + Batch * Len(plans')
      BY <1>1, <1>2, <1>3, <3>5, <3>6, SMTT(30)
    <3>. QED BY <1>3, <2>1, <3>1, <3>7 DEF ReferencesCovered
  <2>5. CASE KeepWaiting
    <3>1. UNCHANGED <<hint, seen, completed, plans>> /\ ready' = Confirmed
      BY <2>5, Zenon DEF KeepWaiting, newsVars
    <3>2. transport = "reference" => Confirmed = ready
      BY DEF Confirmed
    <3>. QED BY <1>3, <2>1, <3>1, <3>2 DEF ReferencesCovered
  <2>6. CASE StopAtTail
    <3>1. UNCHANGED <<hint, seen, completed>>
      BY <2>6, Zenon DEF StopAtTail, newsVars
    <3>. QED BY <1>3, <2>1, <2>6, <3>1 DEF ReferencesCovered
  <2>7. CASE OnPublished /\ ~(Head(events).id <= lastTotal)
    <3>1. events # <<>> /\ Head(events).kind = "published"
      BY <2>7 DEF OnPublished, Take
    <3>2. Head(events) \in Among(events, "published")
      BY <3>1, AmongTaken DEF TypeOK, ChannelsTypeOK
    <3>3. transport # "reference"
      BY <3>2 DEF TotalsFromStore
    <3>. QED BY <2>1, <3>3 DEF ReferencesCovered
  <2>8. CASE UNCHANGED <<hint, lastTotal, completed, seen>> /\ UNCHANGED <<ready, plans>>
    BY <1>4, <2>1, <2>8
  <2>. QED BY <1>7, <2>2, <2>3, <2>4, <2>5, <2>6, <2>7, <2>8, CountingNews, ReadySteps
<1>. QED BY <1>5, <1>6, <1>7 DEF Next

-----------------------------------------------------------------------------
(* The gate opens before everybody waits                                   *)

(* A reconciliation leaves the gate shut only above the lower watermark.   *)
LEMMA ReconcileGate ==
  ASSUME NEW level \in Int, NEW done \in BOOLEAN, Reconcile(level, done)
  PROVE  drv' = "plan" /\ (~producerDone' /\ paused' => hint' > Low)
<1>. DEFINE counted == IF level > 0 THEN level ELSE 0
<1>1. /\ drv' = "plan" /\ hint' = level /\ producerDone' = done
      /\ paused' = Gate(counted, done)
  BY Zenon DEF Reconcile
<1>2. Low \in Nat /\ High \in Nat /\ Low < High
  BY SchedulerAssumption
<1>3. counted \in Int /\ (~(counted <= Low) => level > Low)
  BY <1>2, SMT
<1>. HIDE DEF counted
<1>4. ASSUME ~done, counted <= Low PROVE ~Gate(counted, done)
  <2>1. ~(counted >= High)
    BY <1>2, <1>3, <1>4, SMT
  <2>. QED BY <1>4, <2>1, Zenon DEF Gate
<1>. QED BY <1>1, <1>3, <1>4

(* How the driver's steps treat its gate.                                  *)
LEMMA GateSteps ==
  ASSUME TypeOK, Schedule
  PROVE  \/ \E level \in Int, done \in BOOLEAN : Reconcile(level, done)
         \/ KeepWaiting
         \/ UNCHANGED <<producerDone, paused, hint>> /\ drv' # "wait"
         \/ UNCHANGED <<producerDone, paused, hint, drv, plans, completed, consumerReady,
                        initialStep>>
<1>1. /\ hint \in Int /\ producerDone \in BOOLEAN /\ lastTotal \in Nat
      /\ TRUE \in BOOLEAN
  BY DEF TypeOK, SchedulerTypeOK
<1>2. CASE Dispatch \/ StopAtBudget \/ StopAtTail \/ Finish
  BY <1>2, Zenon DEF Dispatch, StopAtBudget, StopAtTail, Finish, Planning
<1>3. CASE ProducerRaised \/ ConsumerRaised \/ OnCompletedAgain
  BY <1>3, Zenon DEF ProducerRaised, ConsumerRaised, OnCompletedAgain, schedulerVars
<1>4. CASE ConsumerReturned(optStep)
  BY <1>4, Zenon DEF ConsumerReturned
<1>5. CASE OnReady \/ OnProducerDone
  BY <1>1, <1>5, Zenon DEF OnReady, OnProducerDone
<1>6. CASE ProducerReturned
  BY <1>1, <1>6, Zenon DEF ProducerReturned
<1>7. CASE OnPublished
  <2>1. CASE Head(events).id <= lastTotal
    BY <1>7, <2>1, Zenon DEF OnPublished
  <2>2. CASE ~(Head(events).id <= lastTotal)
    <3>1. events # <<>> /\ Reconcile(hint + (Head(events).id - lastTotal), producerDone)
      BY <1>7, <2>2 DEF OnPublished, Take
    <3>2. Head(events) \in Message
      BY <3>1, Taken DEF TypeOK, ChannelsTypeOK
    <3>3. Head(events).id \in Nat
      BY <3>2, SMT DEF Message
    <3>4. hint + (Head(events).id - lastTotal) \in Int
      BY <1>1, <3>3, SMT
    <3>. QED BY <1>1, <3>1, <3>4, Zenon
  <2>. QED BY <2>1, <2>2
<1>8. CASE OnSamples
  <2>1. CASE Head(events).id <= lastBatch
    BY <1>8, <2>1, Zenon DEF OnSamples
  <2>2. CASE ~(Head(events).id <= lastBatch)
    <3>1. /\ events # <<>>
          /\ Reconcile(hint + Cardinality(Head(events).keys \ seen), producerDone)
      BY <1>8, <2>2 DEF OnSamples, Take
    <3>2. Head(events) \in Message
      BY <3>1, Taken DEF TypeOK, ChannelsTypeOK
    <3>3. Head(events).keys \ seen \in SUBSET Samples
      BY <3>2, SMT DEF Message
    <3>4. hint + Cardinality(Head(events).keys \ seen) \in Int
      BY <1>1, <3>3, SampleSets, SMT
    <3>. QED BY <1>1, <3>1, <3>4, Zenon
  <2>. QED BY <2>1, <2>2
<1>9. CASE OnCompleted
  <2>1. Reconcile(hint - Batch, producerDone)
    BY <1>9 DEF OnCompleted, HintAfterCompletion
  <2>2. hint - Batch \in Int
    BY <1>1, SizesAssumption, SMT
  <2>. QED BY <1>1, <2>1, <2>2, Zenon
<1>. QED
  BY <1>2, <1>3, <1>4, <1>5, <1>6, <1>7, <1>8, <1>9, Zenon DEF Schedule, SchedulerStep

(* The driver goes to wait, without a plan outstanding, only when it       *)
(* counts less than a batch.                                               *)
LEMMA WaitsShort ==
  ASSUME Base, EndsInTurn, HintCovered, KeepWaiting, Outstanding = 0, consumerReady
  PROVE  hint < Batch
<1>1. TypeOK /\ InOrder
  BY DEF Base
<1>2. Settled /\ ~BudgetExhausted /\ drv = "plan"
  BY Zenon DEF KeepWaiting, Settled, Planning
<1>3. Cardinality(Confirmed) < Batch /\ (transport = "tq" => Confirmed = tq)
  BY <1>1, <1>2, ShortIsAll
<1>4. ~Stopping
  BY <1>2 DEF Stopping
<1>5. /\ tq \in SUBSET Samples /\ handed \in SUBSET Samples /\ handed \ asked \in SUBSET Samples
      /\ seen \in SUBSET Samples /\ ready \in SUBSET Samples
      /\ lastTotal \in Nat /\ told \in Nat /\ published \in Nat /\ hint \in Int
      /\ transport \in {"tq", "reference"}
  BY <1>1, TransportsAssumption DEF TypeOK, ChannelsTypeOK, ProducerTypeOK, SchedulerTypeOK
<1>6. /\ completed = Len(plans) /\ completed \in Nat /\ Cleared \in Nat /\ Cleared <= completed
  <2>1. completed \in Nat /\ Len(plans) \in Nat /\ completed = Len(plans)
    BY <1>1, Progress, SMT DEF Outstanding
  <2>2. Cleared \in Nat /\ Cleared <= Trained
    BY <1>1, ClearedIs
  <2>3. Trained \in Nat /\ Trained <= lastPlan /\ lastPlan <= Len(plans) /\ lastPlan \in Nat
    BY <1>1, Progress
  <2>. QED BY <2>1, <2>2, <2>3, SMT
<1>7. Batch * Cleared <= Batch * completed /\ Batch * completed \in Nat /\ Batch * Cleared \in Nat
  BY <1>6, BatchMore, BatchOrder
<1>8. /\ Cardinality(tq) \in Nat /\ Cardinality(handed) \in Nat
      /\ Cardinality(handed \ asked) \in Nat /\ Cardinality(handed \ asked) <= Cardinality(handed)
      /\ Cardinality(seen) \in Nat /\ Cardinality(ready) \in Nat /\ Batch \in Nat
  BY <1>5, SampleSets, Counting, SizesAssumption
<1>9. CASE transport = "tq"
  <2>1. /\ hint = lastTotal - Batch * completed
        /\ lastTotal <= told /\ told <= published
        /\ published <= Cardinality(handed \ asked)
        /\ Cardinality(handed) <= Cardinality(tq) + Batch * Cleared
    BY <1>4, <1>9 DEF HintCovered, TotalsTold, PublishedOnce, StoreCovers
  <2>2. Cardinality(tq) < Batch
    BY <1>3, <1>9
  <2>. QED BY <1>5, <1>7, <1>8, <2>1, <2>2, SMT
<1>10. CASE transport = "reference"
  <2>1. /\ hint = Cardinality(seen) - Batch * completed
        /\ Cardinality(seen) <= Cardinality(ready) + Batch * completed
    BY <1>4, <1>6, <1>10 DEF HintCovered, ReferencesCovered
  <2>2. Confirmed = ready
    BY <1>10 DEF Confirmed
  <2>3. Cardinality(ready) < Batch
    BY <1>3, <2>2
  <2>. QED BY <1>5, <1>7, <1>8, <2>1, <2>3, SMT
<1>. QED BY <1>5, <1>9, <1>10

(* Every step keeps the gate from standing in the way.                     *)
LEMMA GateStep ==
  ASSUME Base, EndsInTurn, HintCovered, GateFollows, [Next]_vars
  PROVE  GateFollows'
<1>1. TypeOK
  BY DEF Base
<1>2. /\ ~producerDone /\ paused => hint > Low
      /\ drv = "wait" => /\ ~AtTail
                         /\ Outstanding = 0 /\ consumerReady /\ ~producerDone => hint < Batch
  BY DEF GateFollows
<1>3. ASSUME UNCHANGED <<producerDone, paused, hint, drv, plans, completed, consumerReady,
                         initialStep>>
      PROVE  GateFollows'
  <2>1. AtTail' = AtTail /\ Outstanding' = Outstanding
    BY <1>3 DEF AtTail, BudgetExhausted, BudgetAbove, Outstanding
  <2>. QED BY <1>2, <1>3, <2>1 DEF GateFollows
<1>4. CASE Produce \/ Consume \/ UNCHANGED vars
  <2>1. UNCHANGED schedulerVars
    BY <1>4 DEF Produce, Consume, vars
  <2>2. paused' = paused
    BY <1>4, Zenon DEF Produce, ProducerStep, Request, Drop, PublishOne, PublishAmbiguous,
       PublishFails, Notify, SubmitReferences, Drained, DrainTimeout, Return, ReturnReferences,
       Consume, ConsumerStep, Start, SkipCommand, Fetch, TakeStop, TakeCommand, Train, Fail,
       Account, Clear, Announce, Save, FinalizeSave, End, channelVars, vars
  <2>. QED BY <1>3, <2>1, <2>2 DEF schedulerVars
<1>5. CASE Relaunch
  <2>1. drv' = "plan" /\ ~paused'
    BY <1>5, Zenon DEF Relaunch, ChannelsRelaunch, SchedulerRelaunch
  <2>. QED BY <2>1 DEF GateFollows
<1>6. CASE Schedule
  <2>1. ASSUME NEW level \in Int, NEW done \in BOOLEAN, Reconcile(level, done)
        PROVE  GateFollows'
    <3>1. drv' = "plan" /\ (~producerDone' /\ paused' => hint' > Low)
      BY <2>1, ReconcileGate
    <3>. QED BY <3>1 DEF GateFollows
  <2>2. CASE KeepWaiting
    <3>1. /\ UNCHANGED <<producerDone, paused, hint, plans, completed, consumerReady, initialStep>>
          /\ ~AtTail
      BY <2>2, Zenon DEF KeepWaiting, newsVars, channelVars
    <3>2. AtTail' = AtTail /\ Outstanding' = Outstanding
      BY <3>1 DEF AtTail, BudgetExhausted, BudgetAbove, Outstanding
    <3>3. Outstanding = 0 /\ consumerReady => hint < Batch
      BY <2>2, WaitsShort
    <3>. QED BY <1>2, <3>1, <3>2, <3>3 DEF GateFollows
  <2>3. CASE UNCHANGED <<producerDone, paused, hint>> /\ drv' # "wait"
    BY <1>2, <2>3 DEF GateFollows
  <2>. QED BY <1>1, <1>3, <1>6, <2>1, <2>2, <2>3, GateSteps
<1>. QED BY <1>4, <1>5, <1>6 DEF Next

-----------------------------------------------------------------------------
(* Whoever is gone is noticed                                              *)

(* Kinds of messages in a queue after one is sent, or taken.               *)
LEMMA KindsSent ==
  ASSUME NEW queue \in Seq(Message), NEW m \in Message, NEW after, Send(queue, m, after),
         NEW kinds, OfKinds(queue, kinds), m.kind \in kinds
  PROVE  OfKinds(after, kinds)
<1>1. /\ Len(after) \in Nat /\ Len(queue) \in Nat
      /\ \A i \in 1..Len(queue) : after[i] = queue[i]
      /\ \A i \in (Len(queue) + 1)..Len(after) : after[i] = m
  BY Sent, LenProperties
<1>2. \A i \in 1..Len(after) : i \in 1..Len(queue) \/ i \in (Len(queue) + 1)..Len(after)
  BY <1>1, SMT
<1>. QED BY <1>1, <1>2 DEF OfKinds

LEMMA KindsTaken ==
  ASSUME NEW queue \in Seq(Message), queue # <<>>, NEW kinds, OfKinds(queue, kinds)
  PROVE  OfKinds(Tail(queue), kinds)
<1>1. /\ Len(queue) \in Nat \ {0} /\ Len(Tail(queue)) = Len(queue) - 1
      /\ \A i \in 1..(Len(queue) - 1) : Tail(queue)[i] = queue[i + 1]
  BY Taken
<1>2. \A i \in 1..(Len(queue) - 1) : i + 1 \in 1..Len(queue)
  BY <1>1, SMT
<1>. QED BY <1>1, <1>2 DEF OfKinds

(* What a party puts on the events, and nobody else does.                  *)
LEMMA EventsStep ==
  ASSUME TypeOK, Produce \/ Schedule \/ Consume
  PROVE  \/ events' = events
         \/ Schedule /\ events # <<>> /\ events' = Tail(events)
         \/ \E m \in Message : m.kind \in EventKinds /\ Send(events, m, events')
<1>1. CASE Produce
  <2>1. CASE Notify
    <3>1. Send(events, Msg("published", published, {}), events')
      BY <2>1 DEF Notify, PutEvent
    <3>2. /\ Msg("published", published, {}) \in Message
          /\ Msg("published", published, {}).kind = "published"
      BY MsgTypes DEF Kinds, TypeOK, ProducerTypeOK
    <3>. QED BY <3>1, <3>2 DEF EventKinds
  <2>2. CASE SubmitReferences
    <3>1. PICK keys \in SUBSET asked : Send(events, Msg("samples", batchId + 1, keys), events')
      BY <2>2 DEF SubmitReferences, PutEvent
    <3>2. batchId + 1 \in Nat /\ keys \in SUBSET Samples
      BY SMT DEF TypeOK, ProducerTypeOK
    <3>3. /\ Msg("samples", batchId + 1, keys) \in Message
          /\ Msg("samples", batchId + 1, keys).kind = "samples"
      BY <3>2, MsgTypes DEF Kinds
    <3>. QED BY <3>1, <3>3 DEF EventKinds
  <2>3. CASE ReturnReferences
    <3>1. Send(events, Msg("producer_done", 0, {}), events')
      BY <2>3, Zenon DEF ReturnReferences, PutEvent
    <3>2. /\ Msg("producer_done", 0, {}) \in Message
          /\ Msg("producer_done", 0, {}).kind = "producer_done"
      BY MsgTypes DEF Kinds
    <3>. QED BY <3>1, <3>2 DEF EventKinds
  <2>4. CASE ~Notify /\ ~SubmitReferences /\ ~ReturnReferences
    BY <1>1, <2>4, Zenon DEF Produce, ProducerStep, Request, Drop, PublishOne, PublishAmbiguous,
       PublishFails, Drained, DrainTimeout, Return, channelVars
  <2>. QED BY <2>1, <2>2, <2>3, <2>4
<1>2. CASE Schedule
  BY <1>2, Zenon DEF Schedule, SchedulerStep, Dispatch, StopAtBudget, StopAtTail, KeepWaiting,
     ProducerReturned, ProducerRaised, ConsumerRaised, Finish, ConsumerReturned, PutCommand,
     OnReady, OnPublished, OnSamples, OnProducerDone, OnCompletedAgain, OnCompleted, Take,
     channelVars
<1>3. CASE Consume
  <2>1. CASE Start
    <3>1. Send(events, Msg("ready", optStep, {}), events')
      BY <2>1 DEF Start, PutEvent
    <3>2. /\ Msg("ready", optStep, {}) \in Message
          /\ Msg("ready", optStep, {}).kind = "ready"
      BY MsgTypes DEF Kinds, TypeOK, ConsumerTypeOK
    <3>. QED BY <3>1, <3>2 DEF EventKinds
  <2>2. CASE Announce
    <3>1. /\ finals # <<>>
          /\ Send(events, Msg("completed", Head(finals).id, Head(finals).keys), events')
      BY <2>2 DEF Announce, PutEvent
    <3>2. Head(finals) \in Message
      BY <3>1, Taken DEF TypeOK, ConsumerTypeOK
    <3>3. Head(finals).id \in Nat /\ Head(finals).keys \in SUBSET Samples
      BY <3>2, SMT DEF Message
    <3>4. /\ Msg("completed", Head(finals).id, Head(finals).keys) \in Message
          /\ Msg("completed", Head(finals).id, Head(finals).keys).kind = "completed"
      BY <3>3, MsgTypes DEF Kinds
    <3>. QED BY <3>1, <3>4 DEF EventKinds
  <2>3. CASE ~Start /\ ~Announce
    BY <1>3, <2>3, Zenon DEF Consume, ConsumerStep, SkipCommand, Fetch, TakeStop, TakeCommand,
       Train, Fail, Account, Clear, Save, FinalizeSave, End, channelVars
  <2>. QED BY <2>1, <2>2, <2>3
<1>. QED BY <1>1, <1>2, <1>3

(* What happens to the commands.                                           *)
LEMMA CommandsChange ==
  ASSUME TypeOK, Produce \/ Schedule \/ Consume
  PROVE  \/ commands' = commands
         \/ commands # <<>> /\ commands' = Tail(commands)
         \/ \E m \in Message : m.kind \in CommandKinds /\ Send(commands, m, commands')
<1>1. CASE Produce
  BY <1>1, Zenon DEF Produce, ProducerStep, Request, Drop, PublishOne, PublishAmbiguous,
     PublishFails, Notify, SubmitReferences, Drained, DrainTimeout, Return, ReturnReferences,
     PutEvent, channelVars
<1>2. CASE Schedule
  <2>1. CASE StopAtBudget \/ StopAtTail
    <3>1. Send(commands, Msg("stop", 0, {}), commands')
      BY <2>1, Zenon DEF StopAtBudget, StopAtTail, PutCommand
    <3>2. Msg("stop", 0, {}) \in Message /\ Msg("stop", 0, {}).kind = "stop"
      BY MsgTypes DEF Kinds
    <3>. QED BY <3>1, <3>2 DEF CommandKinds
  <2>2. CASE Dispatch
    <3>1. PICK keys \in SUBSET Confirmed :
            Send(commands, Msg("batch", Len(plans) + 1, keys), commands')
      BY <2>2 DEF Dispatch, PutCommand
    <3>2. keys \in SUBSET Samples /\ Len(plans) + 1 \in Nat
      <4>1. Len(plans) \in Nat
        BY LenProperties DEF TypeOK, SchedulerTypeOK
      <4>. QED BY <4>1, ConfirmedTypes, SMT
    <3>3. /\ Msg("batch", Len(plans) + 1, keys) \in Message
          /\ Msg("batch", Len(plans) + 1, keys).kind = "batch"
      BY <3>2, MsgTypes DEF Kinds
    <3>. QED BY <3>1, <3>3 DEF CommandKinds
  <2>3. CASE ~StopAtBudget /\ ~StopAtTail /\ ~Dispatch
    BY <1>2, <2>3, Zenon DEF Schedule, SchedulerStep, KeepWaiting,
       ProducerReturned, ProducerRaised, ConsumerRaised, Finish, ConsumerReturned,
       OnReady, OnPublished, OnSamples, OnProducerDone, OnCompletedAgain, OnCompleted, Take,
       channelVars
  <2>. QED BY <2>1, <2>2, <2>3
<1>3. CASE Consume
  BY <1>3, Zenon DEF Consume, ConsumerStep, Start, SkipCommand, Fetch, TakeStop, TakeCommand,
     Train, Fail, Account, Clear, Announce, Save, FinalizeSave, End, PutEvent, channelVars
<1>. QED BY <1>1, <1>2, <1>3

(* The consumer takes commands, and remembers a stop.                      *)
LEMMA CommandsTaken ==
  ASSUME Consume
  PROVE  \/ commands' = commands /\ sourceDone' = sourceDone
         \/ /\ commands # <<>> /\ commands' = Tail(commands)
            /\ Head(commands).kind = "batch" /\ sourceDone' = sourceDone
         \/ sourceDone'
<1>1. CASE SkipCommand \/ Fetch
  BY <1>1, Zenon DEF SkipCommand, Fetch, TakeCommand
<1>2. CASE TakeStop
  BY <1>2, Zenon DEF TakeStop
<1>3. CASE ~SkipCommand /\ ~Fetch /\ ~TakeStop
  BY <1>3, Zenon DEF Consume, ConsumerStep, Start, Train, Fail, Account, Clear, Announce,
     Save, FinalizeSave, End, PutEvent, channelVars, consumerVars
<1>. QED BY <1>1, <1>2, <1>3

(* The driver's view of the producer, and the producer, in its steps.      *)
LEMMA ProducerSeen ==
  ASSUME Schedule
  PROVE  /\ drv # "done"
         /\ producer' = producer \/ (producer' = "stopped" /\ drv' = "done")
         /\ producerDone => producerDone'
         /\ transport = "tq" /\ producerGone' => producerGone \/ producerDone'
         /\ OnProducerDone => producerDone'
         /\ Stopping' => Stopping \/ StopAtBudget \/ StopAtTail
<1>1. CASE Dispatch \/ StopAtBudget \/ StopAtTail \/ KeepWaiting
  <2>1. /\ drv = "plan" /\ UNCHANGED <<producer, producerDone, producerGone>> /\ ~OnProducerDone
    BY <1>1, Zenon DEF Dispatch, StopAtBudget, StopAtTail, KeepWaiting, Settled, Planning, newsVars,
       channelVars, OnProducerDone, Take, Waiting
  <2>2. drv' \in {"plan", "wait"} \/ StopAtBudget \/ StopAtTail
    BY <1>1, <2>1, Zenon DEF Dispatch, KeepWaiting
  <2>. QED BY <2>1, <2>2 DEF Stopping
<1>2. CASE ProducerRaised \/ ConsumerRaised \/ ConsumerReturned(optStep) \/ OnCompletedAgain
  <2>1. /\ drv # "done" /\ UNCHANGED <<drv, producer, producerDone, producerGone>>
    BY <1>2, Zenon DEF ProducerRaised, ConsumerRaised, ConsumerReturned, OnCompletedAgain, Take,
       Waiting, schedulerVars
  <2>2. OnProducerDone => producerDone'
    BY DEF OnProducerDone, Reconcile
  <2>. QED BY <2>1, <2>2 DEF Stopping
<1>3. CASE Finish
  <2>1. /\ drv = "finishing" /\ drv' = "done" /\ UNCHANGED <<producerDone, producerGone>>
        /\ producer' = producer \/ producer' = "stopped"
    BY <1>3, Zenon DEF Finish, newsVars
  <2>2. OnProducerDone => producerDone'
    BY DEF OnProducerDone, Reconcile
  <2>. QED BY <2>1, <2>2 DEF Stopping
<1>4. CASE ProducerReturned
  <2>1. drv = "wait" /\ producer' = producer
    BY <1>4, Zenon DEF ProducerReturned, Waiting
  <2>2. /\ drv' \in {"plan", "wait"} /\ (producerDone => producerDone')
        /\ transport = "tq" => producerDone'
    BY <1>4, <2>1, Zenon DEF ProducerReturned, Reconcile
  <2>3. OnProducerDone => producerDone'
    BY DEF OnProducerDone, Reconcile
  <2>. QED BY <2>1, <2>2, <2>3 DEF Stopping
<1>5. CASE OnReady \/ OnPublished \/ OnSamples \/ OnProducerDone \/ OnCompleted
  <2>1. drv = "wait" /\ UNCHANGED <<producer, producerGone>>
    BY <1>5, Zenon DEF OnReady, OnPublished, OnSamples, OnProducerDone, OnCompleted, Take, Waiting,
       newsVars
  <2>2. /\ drv' \in {"plan", "wait"} /\ (producerDone => producerDone')
    <3>1. CASE OnReady \/ OnProducerDone \/ OnCompleted
      <4>1. OnReady => drv' = "plan" /\ producerDone' = producerDone
        BY Zenon DEF OnReady, Reconcile
      <4>2. OnProducerDone => drv' = "plan" /\ producerDone'
        BY Zenon DEF OnProducerDone, Reconcile
      <4>3. OnCompleted => drv' = "plan" /\ producerDone' = producerDone
        BY Zenon DEF OnCompleted, Reconcile
      <4>. QED BY <3>1, <4>1, <4>2, <4>3
    <3>2. CASE OnPublished
      <4>1. CASE Head(events).id <= lastTotal
        BY <2>1, <3>2, <4>1, Zenon DEF OnPublished
      <4>2. CASE ~(Head(events).id <= lastTotal)
        BY <2>1, <3>2, <4>2, Zenon DEF OnPublished, Reconcile
      <4>. QED BY <4>1, <4>2
    <3>3. CASE OnSamples
      <4>1. CASE Head(events).id <= lastBatch
        BY <2>1, <3>3, <4>1, Zenon DEF OnSamples
      <4>2. CASE ~(Head(events).id <= lastBatch)
        BY <2>1, <3>3, <4>2, Zenon DEF OnSamples, Reconcile
      <4>. QED BY <4>1, <4>2
    <3>. QED BY <1>5, <3>1, <3>2, <3>3
  <2>3. OnProducerDone => producerDone'
    BY DEF OnProducerDone, Reconcile
  <2>. QED BY <2>1, <2>2, <2>3 DEF Stopping
<1>. QED BY <1>1, <1>2, <1>3, <1>4, <1>5, Zenon DEF Schedule, SchedulerStep

(* A producer returns once, and says so.                                   *)
LEMMA ProducerLeaves ==
  ASSUME TypeOK, Produce
  PROVE  /\ producer' # "stopped"
         /\ transport = "reference" /\ producer' = "done" => Among(events', "producer_done") # {}
         /\ transport' = transport
<1>1. producer = "running" /\ transport' = transport
  BY Zenon DEF Produce, ProducerStep, Request, Drop, PublishOne, PublishAmbiguous, PublishFails,
     Publishing, Notify, SubmitReferences, Drained, DrainTimeout, Return, ReturnReferences,
     Exhausted, Running, channelVars
<1>2. CASE ReturnReferences
  <2>1. producer' = "done" /\ Send(events, Msg("producer_done", 0, {}), events')
    BY <1>2, Zenon DEF ReturnReferences, PutEvent
  <2>2. /\ Msg("producer_done", 0, {}) \in Message
        /\ Msg("producer_done", 0, {}).kind = "producer_done"
    BY MsgTypes DEF Kinds
  <2>3. events \in Seq(Message)
    BY DEF TypeOK, ChannelsTypeOK
  <2>4. Msg("producer_done", 0, {}) \in Among(events', "producer_done")
    BY <2>1, <2>2, <2>3, AmongSent
  <2>. QED BY <1>1, <2>1, <2>4
<1>3. CASE Drained \/ DrainTimeout
  <2>1. producer' = "done" /\ transport = "tq"
    BY <1>3, Zenon DEF Drained, DrainTimeout, Return
  <2>. QED BY <1>1, <2>1
<1>4. CASE ~ReturnReferences /\ ~Drained /\ ~DrainTimeout
  <2>1. producer' = producer \/ producer' = "failed"
    BY <1>4, Zenon DEF Produce, ProducerStep, Request, Drop, PublishOne, PublishAmbiguous,
       PublishFails, Notify, SubmitReferences, channelVars
  <2>. QED BY <1>1, <2>1
<1>. QED BY <1>2, <1>3, <1>4

(* Every step is noticed, or leaves its notice.                            *)
LEMMA NoticedStep ==
  ASSUME TypeOK, Noticed, [Next]_vars
  PROVE  Noticed'
<1>1. events \in Seq(Message) /\ commands \in Seq(Message)
  BY DEF TypeOK, ChannelsTypeOK
<1>2. /\ OfKinds(commands, CommandKinds) /\ OfKinds(events, EventKinds)
      /\ producer = "stopped" => drv = "done"
      /\ transport = "tq" => (producerGone => producerDone)
      /\ transport = "reference" =>
           (producer = "done" => producerDone \/ Among(events, "producer_done") # {})
      /\ Stopping => sourceDone \/ Among(commands, "stop") # {}
  BY DEF Noticed
<1>3. ASSUME Produce \/ Schedule \/ Consume
      PROVE  OfKinds(commands, CommandKinds)' /\ OfKinds(events, EventKinds)'
  <2>1. OfKinds(events', EventKinds)
    <3>1. CASE events' = events
      BY <1>2, <3>1
    <3>2. CASE events # <<>> /\ events' = Tail(events)
      BY <1>1, <1>2, <3>2, KindsTaken
    <3>3. CASE \E m \in Message : m.kind \in EventKinds /\ Send(events, m, events')
      BY <1>1, <1>2, <3>3, KindsSent
    <3>. QED BY <1>3, <3>1, <3>2, <3>3, EventsStep
  <2>2. OfKinds(commands', CommandKinds)
    <3>1. CASE commands' = commands
      BY <1>2, <3>1
    <3>2. CASE commands # <<>> /\ commands' = Tail(commands)
      BY <1>1, <1>2, <3>2, KindsTaken
    <3>3. CASE \E m \in Message : m.kind \in CommandKinds /\ Send(commands, m, commands')
      BY <1>1, <1>2, <3>3, KindsSent
    <3>. QED BY <1>3, <3>1, <3>2, <3>3, CommandsChange
  <2>3. (\A i \in 1..Len(commands') : commands'[i].kind \in CommandKinds')
          /\ (\A i \in 1..Len(events') : events'[i].kind \in EventKinds')
    BY <2>1, <2>2 DEF OfKinds, CommandKinds, EventKinds
  <2>. QED BY <2>3 DEF OfKinds
<1>4. CASE Produce
  <2>1. /\ UNCHANGED <<schedulerVars, consumerVars>>
    BY <1>4 DEF Produce
  <2>2. UNCHANGED <<drv, producerDone, producerGone, sourceDone>>
    BY <2>1 DEF schedulerVars, consumerVars
  <2>3. commands' = commands
    BY <1>4, Zenon DEF Produce, ProducerStep, Request, Drop, PublishOne, PublishAmbiguous,
       PublishFails, Notify, SubmitReferences, Drained, DrainTimeout, Return, ReturnReferences,
       PutEvent, channelVars
  <2>. QED BY <1>2, <1>3, <1>4, <2>2, <2>3, ProducerLeaves, Zenon DEF Noticed, Stopping
<1>5. CASE Schedule
  <2>1. /\ drv # "done"
        /\ producer' = producer \/ (producer' = "stopped" /\ drv' = "done")
        /\ producerDone => producerDone'
        /\ transport = "tq" /\ producerGone' => producerGone \/ producerDone'
        /\ OnProducerDone => producerDone'
        /\ Stopping' => Stopping \/ StopAtBudget \/ StopAtTail
        /\ transport' = transport
    BY <1>5, ProducerSeen, StoppingStays
  <2>2. producerDone' \/ Among(events', "producer_done") = Among(events, "producer_done")
    <3>1. CASE OnProducerDone
      BY <2>1, <3>1
    <3>2. CASE OnReady \/ OnPublished \/ OnSamples \/ OnCompletedAgain \/ OnCompleted
      <4>1. \E kind \in {"ready", "published", "samples", "completed"} : Take(kind)
        BY <3>2 DEF OnReady, OnPublished, OnSamples, OnCompletedAgain, OnCompleted
      <4>2. /\ events # <<>> /\ events' = Tail(events)
            /\ Head(events).kind # "producer_done"
        BY <4>1 DEF Take
      <4>. QED BY <1>1, <4>2, AmongTaken
    <3>3. CASE \/ Dispatch \/ StopAtBudget \/ StopAtTail \/ KeepWaiting \/ ProducerReturned
               \/ ProducerRaised \/ ConsumerRaised \/ Finish \/ ConsumerReturned(optStep)
      <4>1. events' = events
        BY <3>3, Zenon DEF Dispatch, StopAtBudget, StopAtTail, KeepWaiting, ProducerReturned,
           ProducerRaised, ConsumerRaised, Finish, ConsumerReturned, PutCommand, channelVars
      <4>. QED BY <4>1
    <3>. QED BY <1>5, <3>1, <3>2, <3>3 DEF Schedule, SchedulerStep
  <2>3. Stopping' => sourceDone' \/ Among(commands', "stop") # {}
    <3>1. sourceDone' = sourceDone
      BY <1>5 DEF Schedule, consumerVars
    <3>2. CASE StopAtBudget \/ StopAtTail
      <4>1. Send(commands, Msg("stop", 0, {}), commands')
        BY <3>2, Zenon DEF StopAtBudget, StopAtTail, PutCommand
      <4>2. Msg("stop", 0, {}) \in Message /\ Msg("stop", 0, {}).kind = "stop"
        BY MsgTypes DEF Kinds
      <4>3. Msg("stop", 0, {}) \in Among(commands', "stop")
        BY <1>1, <4>1, <4>2, AmongSent
      <4>. QED BY <4>3
    <3>3. CASE Stopping
      <4>1. ~StopAtBudget /\ ~StopAtTail /\ ~Dispatch
        BY <3>3, Zenon DEF StopAtBudget, StopAtTail, Dispatch, Settled, Planning, Stopping
      <4>2. commands' = commands
        BY <1>5, <4>1, Zenon DEF Schedule, SchedulerStep, KeepWaiting,
           ProducerReturned, ProducerRaised, ConsumerRaised, Finish, ConsumerReturned,
           OnReady, OnPublished, OnSamples, OnProducerDone, OnCompletedAgain, OnCompleted, Take,
           channelVars
      <4>. QED BY <1>2, <3>1, <3>3, <4>2
    <3>. QED BY <2>1, <3>2, <3>3
  <2>4. producer' = "stopped" => drv' = "done"
    BY <1>2, <2>1
  <2>5. transport' = "tq" => (producerGone' => producerDone')
    BY <1>2, <2>1
  <2>6. transport' = "reference" =>
          (producer' = "done" => producerDone' \/ Among(events', "producer_done") # {})
    BY <1>2, <2>1, <2>2
  <2>. QED BY <1>3, <1>5, <2>3, <2>4, <2>5, <2>6, Zenon DEF Noticed
<1>6. CASE Consume
  <2>1. UNCHANGED schedulerVars
    BY <1>6 DEF Consume
  <2>2. UNCHANGED <<drv, producerDone, producerGone>>
    BY <2>1 DEF schedulerVars
  <2>3. UNCHANGED <<transport, producer>>
    BY <1>6, Zenon DEF Consume, ConsumerStep, Start, SkipCommand, Fetch, TakeStop, TakeCommand,
       Train, Fail, Account, Clear, Announce, Save, FinalizeSave, End, channelVars
  <2>4. Among(events', "producer_done") = Among(events, "producer_done")
    BY <1>6, ConsumedAmong
  <2>5. Stopping' => sourceDone' \/ Among(commands', "stop") # {}
    <3>1. CASE commands' = commands /\ sourceDone' = sourceDone
      BY <1>2, <2>2, <3>1 DEF Stopping
    <3>2. CASE /\ commands # <<>> /\ commands' = Tail(commands)
               /\ Head(commands).kind = "batch" /\ sourceDone' = sourceDone
      <4>1. Among(commands', "stop") = Among(commands, "stop")
        BY <1>1, <3>2, AmongTaken
      <4>. QED BY <1>2, <2>2, <3>2, <4>1 DEF Stopping
    <3>3. CASE sourceDone'
      BY <3>3
    <3>. QED BY <1>6, <3>1, <3>2, <3>3, CommandsTaken
  <2>. QED BY <1>2, <1>3, <1>6, <2>2, <2>3, <2>4, <2>5, Zenon DEF Noticed
<1>7. CASE Relaunch
  <2>1. /\ drv' = "plan" /\ producer' = "running" /\ ~producerGone'
        /\ events' = <<>> /\ commands' = <<>>
    BY <1>7, Zenon DEF Relaunch, ChannelsRelaunch, SchedulerRelaunch
  <2>2. Len(events') = 0 /\ Len(commands') = 0
    BY <2>1, EmptySeq
  <2>3. \A i \in 1..0 : FALSE
    BY SMT
  <2>4. OfKinds(commands, CommandKinds)' /\ OfKinds(events, EventKinds)'
    BY <2>2, <2>3 DEF OfKinds
  <2>. QED BY <2>1, <2>4 DEF Noticed, Stopping
<1>8. CASE UNCHANGED vars
  <2>1. UNCHANGED <<events, commands, producer, drv, transport, producerGone, producerDone, sourceDone>>
    BY <1>8, Zenon DEF vars, channelVars, schedulerVars, consumerVars
  <2>. QED BY <1>2, <2>1 DEF Noticed, Stopping, OfKinds, CommandKinds, EventKinds, Among
<1>. QED BY <1>4, <1>5, <1>6, <1>7, <1>8 DEF Next


-----------------------------------------------------------------------------
(* Nobody waits for ever                                                   *)

LEMMA StuckInit == Init => HintCovered /\ GateFollows /\ Noticed
<1>. SUFFICES ASSUME Init PROVE HintCovered /\ GateFollows /\ Noticed
  OBVIOUS
<1>1. /\ events = <<>> /\ commands = <<>> /\ plans = <<>> /\ completed = 0 /\ hint = 0
      /\ lastTotal = 0 /\ seen = {} /\ ready = {} /\ tq = {} /\ ~producerDone /\ ~producerGone
      /\ drv = "plan" /\ producer = "running" /\ ~paused
      /\ asked = {} /\ published = 0 /\ told = 0 /\ handed = {}
  BY Zenon DEF Init, ChannelsInit, ProducerInit, SchedulerInit
<1>2. Len(events) = 0 /\ Len(commands) = 0 /\ Len(plans) = 0
  BY <1>1, EmptySeq
<1>3. \A i \in 1..0 : FALSE
  BY SMT
<1>4. \A kind : Among(events, kind) = {} /\ Among(commands, kind) = {}
  BY <1>2, <1>3 DEF Among
<1>5. Cardinality({}) = 0 /\ {} \ {} = {} /\ Batch * 0 = 0 /\ Batch \in Nat
  <2>1. Batch \in Nat
    BY SizesAssumption
  <2>. QED BY <2>1, FS_EmptySet, SMT
<1>6. Cleared \in Nat
  BY TypeInit, OrderInit, ClearedNat
<1>7. HintCovered
  <2>1. PlansFull
    BY <1>2, <1>3 DEF PlansFull
  <2>2. TotalsTold
    <3>1. hint = lastTotal - Batch * completed /\ lastTotal <= told /\ told <= published
      BY <1>1, <1>5, SMT
    <3>. QED BY <1>4, <3>1 DEF TotalsTold
  <2>3. TotalsFromStore
    BY <1>4 DEF TotalsFromStore
  <2>4. PublishedOnce
    <3>1. published <= Cardinality(handed \ asked)
      BY <1>1, <1>5, SMT
    <3>. QED BY <3>1 DEF PublishedOnce
  <2>5. StoreCovers
    <3>1. 0 <= 0 + Batch * Cleared
      BY <1>5, <1>6, BatchMore, SMT
    <3>. QED BY <1>1, <1>5, <3>1 DEF StoreCovers
  <2>6. ReferencesCovered
    <3>1. hint = Cardinality(seen) - Batch * completed
      BY <1>1, <1>5, SMT
    <3>2. Cardinality(seen) <= Cardinality(ready) + Batch * Len(plans)
      BY <1>1, <1>2, <1>5, SMT
    <3>. QED BY <3>1, <3>2 DEF ReferencesCovered
  <2>. QED BY <2>1, <2>2, <2>3, <2>4, <2>5, <2>6 DEF HintCovered
<1>8. GateFollows
  BY <1>1 DEF GateFollows
<1>9. Noticed
  <2>1. OfKinds(commands, CommandKinds) /\ OfKinds(events, EventKinds)
    BY <1>2, <1>3 DEF OfKinds
  <2>. QED BY <1>1, <2>1 DEF Noticed, Stopping
<1>. QED BY <1>7, <1>8, <1>9

(* A consumer with nothing at hand and no stop to come has trained,        *)
(* announced and been told all plans; with no news on the way the driver   *)
(* knows it, has the consumer's step, and has the budget for more.         *)
LEMMA AllSettled ==
  ASSUME Base, BudgetKept, EndsInTurn, drv = "wait", consumer # "starting",
         events = <<>>, commands = <<>>, fetched = <<>>, finals = <<>>
  PROVE  Outstanding = 0 /\ consumerReady /\ ~BudgetExhausted
<1>1. TypeOK /\ InOrder /\ QueuesInOrder
  BY DEF Base
<1>2. Len(events) = 0 /\ Len(commands) = 0 /\ Len(fetched) = 0 /\ Len(finals) = 0
  BY EmptySeq
<1>3. \A i \in 1..0 : FALSE
  BY SMT
<1>4. /\ lastPlan \in Nat /\ completed \in Nat /\ Len(plans) \in Nat
      /\ completed <= Announced /\ lastPlan <= Len(plans)
      /\ Trained = lastPlan /\ Announced = lastPlan
  BY <1>1, <1>2, Progress, SMT
<1>5. lastPlan = Len(plans)
  <2>1. \A n \in (lastPlan + 1)..Len(plans) :
          \E i \in 1..Len(commands) : commands[i].kind = "batch" /\ commands[i].id = n
    BY <1>1 DEF QueuesInOrder, Carries
  <2>2. lastPlan + 1 \notin (lastPlan + 1)..Len(plans)
    BY <1>2, <1>3, <2>1
  <2>. QED BY <1>4, <2>2, SMT
<1>6. completed = Announced
  <2>1. \A n \in (completed + 1)..Announced :
          \E i \in 1..Len(events) : events[i].kind = "completed" /\ events[i].id = n
    BY <1>1 DEF QueuesInOrder, Carries
  <2>2. completed + 1 \notin (completed + 1)..Announced
    BY <1>2, <1>3, <2>1
  <2>. QED BY <1>4, <2>2, SMT
<1>7. Outstanding = 0
  BY <1>4, <1>5, <1>6, SMT DEF Outstanding
<1>8. consumerReady
  <2>1. Among(events, "ready") = {}
    BY <1>2, <1>3 DEF Among
  <2>. QED BY <2>1 DEF BudgetKept
<1>. QED BY <1>7, <1>8 DEF EndsInTurn

(* The driver that waits with all settled waits for a producer that can go.*)
LEMMA ProducerGoes ==
  ASSUME Base, GateFollows, Noticed, drv = "wait", events = <<>>,
         Outstanding = 0, consumerReady, ~BudgetExhausted
  PROVE  \/ ProducerCanGo
         \/ producer = "failed" \/ (producer = "done" /\ ~producerGone)
<1>1. /\ hint \in Int /\ producer \in {"running", "done", "failed", "stopped"}
      /\ transport \in {"tq", "reference"}
  BY TransportsAssumption, Zenon DEF Base, TypeOK, ChannelsTypeOK, SchedulerTypeOK
<1>2. ~producerDone
  BY DEF GateFollows, AtTail
<1>3. hint < Batch
  BY <1>2 DEF GateFollows
<1>4. ~paused
  <2>1. paused => hint > Low
    BY <1>2 DEF GateFollows
  <2>2. Low \in Nat /\ Batch <= Low /\ Batch \in Nat
    BY SchedulerAssumption, SizesAssumption
  <2>. QED BY <1>1, <1>3, <2>1, <2>2, SMT
<1>5. producer # "stopped"
  BY DEF Noticed
<1>6. producer = "done" => ~producerGone
  <2>1. Len(events) = 0
    BY EmptySeq
  <2>2. \A i \in 1..0 : FALSE
    BY SMT
  <2>3. Among(events, "producer_done") = {}
    BY <2>1, <2>2 DEF Among
  <2>. QED BY <1>1, <1>2, <2>3 DEF Noticed
<1>. QED BY <1>1, <1>4, <1>5, <1>6 DEF ProducerCanGo

LEMMA NobodyStuck ==
  ASSUME Base, BudgetKept, EndsInTurn, NoContradiction, GateFollows, Noticed
  PROVE  NeverStuck
<1>. SUFFICES ASSUME run = "up", drv # "done", ~ProducerCanGo, ~ConsumerCanGo, ~DriverCanGo
              PROVE  FALSE
  BY DEF NeverStuck
<1>1. /\ drv \in {"plan", "wait", "finishing", "done"}
      /\ consumer \in {"starting", "running", "ended", "failed", "lost"}
  BY Zenon DEF Base, TypeOK, ChannelsTypeOK, SchedulerTypeOK
<1>2. drv \in {"wait", "finishing"} /\ consumer \notin {"starting", "failed", "lost"}
  BY <1>1, Zenon DEF ConsumerCanGo, DriverCanGo, NoContradiction
<1>3. CASE consumer = "ended"
  <2>1. drv = "wait" /\ events = <<>> /\ consumerGone
    BY <1>2, <1>3, Zenon DEF DriverCanGo
  <2>. QED BY <2>1, NeverAlone DEF Waiting
<1>4. CASE consumer = "running"
  <2>1. /\ finals = <<>> /\ fetched = <<>> /\ commands = <<>> /\ ~sourceDone
    BY <1>4, Zenon DEF ConsumerCanGo
  <2>2. drv = "wait"
    <3>1. Len(commands) = 0
      BY <2>1, EmptySeq
    <3>2. \A i \in 1..0 : FALSE
      BY SMT
    <3>3. Among(commands, "stop") = {}
      BY <3>1, <3>2 DEF Among
    <3>4. ~Stopping
      BY <2>1, <3>3 DEF Noticed
    <3>. QED BY <1>2, <3>4 DEF Stopping
  <2>3. events = <<>> /\ producer # "failed" /\ ~(producer = "done" /\ ~producerGone)
    BY <2>2, Zenon DEF DriverCanGo
  <2>4. Outstanding = 0 /\ consumerReady /\ ~BudgetExhausted
    BY <1>4, <2>1, <2>2, <2>3, AllSettled
  <2>. QED BY <2>2, <2>3, <2>4, ProducerGoes
<1>. QED BY <1>1, <1>2, <1>3, <1>4

(* A launch that is not over always has a party that can go on: the gate's *)
(* hysteresis, the skipped notifications, the prefetch slots, the budget   *)
(* and the tail never leave all three waiting for each other.              *)
THEOREM StandaloneNeverStuck == Spec => []NeverStuck
<1>. DEFINE Inv == /\ StoreHolds /\ BudgetKept /\ EndsInTurn /\ NoContradiction
                   /\ HintCovered /\ GateFollows /\ Noticed
<1>1. Inv /\ Base /\ Base' /\ [Next]_vars => Inv'
  <2>. SUFFICES ASSUME Inv, Base, Base', [Next]_vars PROVE Inv'
    OBVIOUS
  <2>1. /\ TypeOK /\ InOrder /\ QueuesInOrder /\ OneWay
        /\ TypeOK' /\ InOrder'
    BY DEF Base
  <2>2. (StoreHolds /\ BudgetKept /\ EndsInTurn /\ NoContradiction)'
    BY StoreStep, BudgetStep, EndsStep, ContradictionStep
  <2>3. HintCovered'
    <3>1. /\ PlansFull /\ TotalsTold /\ TotalsFromStore /\ PublishedOnce /\ StoreCovers
          /\ ReferencesCovered
      BY DEF HintCovered
    <3>2. PlansFull' /\ TotalsFromStore'
      BY <2>1, <3>1, FullStep, FromStoreStep
    <3>3. TotalsTold' /\ PublishedOnce'
      BY <2>1, <3>1, TotalsStep, PublishedStep
    <3>4. StoreCovers'
      BY <2>1, <3>1, CoverStep
    <3>5. ReferencesCovered'
      BY <2>1, <3>1, ReferencesStep
    <3>. QED BY <3>2, <3>3, <3>4, <3>5 DEF HintCovered
  <2>4. GateFollows'
    BY GateStep
  <2>5. Noticed'
    BY <2>1, NoticedStep
  <2>. QED BY <2>2, <2>3, <2>4, <2>5
<1>2. Init => Inv
  BY EndsInit, StuckInit
<1>3. Inv /\ Base => NeverStuck
  BY NobodyStuck
<1>. HIDE DEF Inv
<1>. QED BY <1>1, <1>2, <1>3, StandaloneBase, PTL DEF Spec
=============================================================================
