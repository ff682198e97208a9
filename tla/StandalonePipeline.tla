------------------------- MODULE StandalonePipeline -------------------------
(***************************************************************************)
(* Standalone training as a whole: producer, driver and consumer beside    *)
(* each other, the loss of all of them at any moment, and the next launch, *)
(* which starts with an empty store from the latest complete checkpoint.   *)
(***************************************************************************)
EXTENDS StandaloneProducer, StandaloneScheduler, StandaloneConsumer

vars == <<channelVars, producerVars, schedulerVars, consumerVars>>

TypeOK == ChannelsTypeOK /\ ProducerTypeOK /\ SchedulerTypeOK /\ ConsumerTypeOK

Init ==
  /\ transport \in Transports /\ faults = 0
  /\ ChannelsInit /\ ProducerInit /\ SchedulerInit /\ ConsumerInit

(* The next launch, after a failure or after everything was killed.        *)
Relaunch ==
  /\ \/ run = "down" /\ UNCHANGED faults
     \/ run = "up" /\ drv # "done" /\ Fault("crash")
  /\ ChannelsRelaunch
  /\ ProducerRelaunch(ckpt.consumed)
  /\ SchedulerRelaunch
  /\ ConsumerRelaunch

Produce == ProducerStep /\ UNCHANGED <<schedulerVars, consumerVars>>
Schedule ==
  /\ SchedulerStep \/ ConsumerReturned(optStep)
  /\ UNCHANGED <<producerVars, consumerVars>>
Consume == ConsumerStep /\ UNCHANGED <<producerVars, schedulerVars>>
Next == Produce \/ Schedule \/ Consume \/ Relaunch

Spec == Init /\ [][Next]_vars

-----------------------------------------------------------------------------
(* Fairness: while the driver or an actor has something to do, something   *)
(* is done: none of them halts for good.  That is enough, as no step of    *)
(* theirs can be repeated forever.  Nobody has to relaunch a failed run.   *)
FairSpec == Spec /\ WF_vars(Produce \/ Schedule \/ Consume)
=============================================================================
