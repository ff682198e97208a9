------------------------- MODULE StandaloneScheduler -------------------------
(***************************************************************************)
(* The driver of standalone training: one loop that follows the two actors *)
(* and the event queue and, after each news, reconciles: it opens or shuts *)
(* the producer's gate, dispatches every complete batch there is room for, *)
(* and ends the run when the training budget or the data are exhausted.    *)
(*                                                                         *)
(* Plans are numbered from 1 and batches of metadata likewise (0 in the    *)
(* code); plans[i] holds the keys of plan i, in the order of their         *)
(* sequence numbers.                                                       *)
(***************************************************************************)
EXTENDS StandaloneChannels

CONSTANTS
  Low, High     \* watermarks of ready samples

ASSUME SchedulerAssumption ==
  {Low, High} \subseteq Nat /\ Batch <= Low /\ Low < High

VARIABLES
  drv,           \* what the driver is doing
  refreshed,     \* the store was listed in this reconciliation
  ready,         \* StandaloneQueueState.ready
  plans,         \* keys of every plan reserved so far
  completed,     \* completed_id, and completed_steps
  hint,          \* ready_hint
  lastTotal,     \* last_published_total
  lastBatch,     \* last_reference_batch_id
  seen,          \* seen_file_keys
  producerGone,  \* producer_ref is None
  consumerGone,  \* consumer_refs is empty
  producerDone,  \* producer_done
  consumerReady, \* consumer_ready
  initialStep,   \* initial_optimizer_step
  dropped        \* tail_dropped

schedulerVars == <<drv, refreshed, ready, plans, completed, hint, lastTotal,
                   lastBatch, seen, producerGone, consumerGone, producerDone,
                   consumerReady, initialStep, dropped>>

newsVars == <<lastTotal, lastBatch, seen, producerGone, consumerGone,
              consumerReady, initialStep>>

SchedulerTypeOK ==
  /\ drv \in {"plan", "wait", "finishing", "done"}
  /\ refreshed \in BOOLEAN /\ producerGone \in BOOLEAN /\ consumerGone \in BOOLEAN
  /\ producerDone \in BOOLEAN /\ consumerReady \in BOOLEAN
  /\ {ready, seen, dropped} \subseteq SUBSET Samples
  /\ plans \in Seq(SUBSET Samples)
  /\ hint \in Int
  /\ {completed, lastTotal, lastBatch, initialStep} \subseteq Nat

(* The initial listing finds nothing: every launch has its own run id.     *)
SchedulerInit ==
  /\ drv = "plan" /\ refreshed = FALSE
  /\ ready = {} /\ plans = <<>> /\ completed = 0
  /\ hint = 0 /\ lastTotal = 0 /\ lastBatch = 0 /\ seen = {}
  /\ producerGone = FALSE /\ consumerGone = FALSE /\ producerDone = FALSE
  /\ consumerReady = (Depth = 0 /\ MaxSteps = 0)
  /\ initialStep = 0
  /\ dropped = {}

SchedulerRelaunch ==
  /\ drv' = "plan" /\ refreshed' = FALSE
  /\ ready' = {} /\ plans' = <<>> /\ completed' = 0
  /\ hint' = 0 /\ lastTotal' = 0 /\ lastBatch' = 0 /\ seen' = {}
  /\ producerGone' = FALSE /\ consumerGone' = FALSE /\ producerDone' = FALSE
  /\ consumerReady' = (Depth = 0 /\ MaxSteps = 0)
  /\ initialStep' = 0
  /\ dropped' = {}

Capacity == Depth + 1
Outstanding == Len(plans) - completed
Reserved == UNION {plans[i] : i \in (completed + 1)..Len(plans)}

(* max(0, max_steps - initial_optimizer_step - completed_steps) is above n *)
BudgetAbove(n) == MaxSteps > 0 => MaxSteps - initialStep - completed > n

-----------------------------------------------------------------------------
(* One reconciliation *)

(* plan_queue_collection and the calls to the producer's gate, with the    *)
(* hysteresis between the watermarks.                                      *)
Gate(level, done) ==
  CASE done          -> paused
    [] level >= High -> TRUE
    [] level <= Low  -> FALSE
    [] OTHER         -> paused

Reconcile(level, done) ==
  /\ hint' = level
  /\ producerDone' = done
  /\ paused' = Gate(IF level > 0 THEN level ELSE 0, done)
  /\ drv' = "plan" /\ refreshed' = FALSE

Planning == run = "up" /\ drv = "plan"

MayPlan == consumerReady /\ BudgetAbove(Outstanding) /\ Outstanding < Capacity

(* Short of a batch, the driver once replaces its cache by a listing of    *)
(* the store (StandaloneQueueState.refresh); references have no store.     *)
Short == Cardinality(ready) < Batch

(* Mutant: what plans have reserved is listed again.                       *)
ConfirmedAgain ==
  IF transport = "tq" /\ MayPlan /\ Short /\ ~refreshed THEN tq ELSE ready

Confirmed ==
  IF transport = "tq" /\ MayPlan /\ Short /\ ~refreshed THEN tq \ Reserved ELSE ready

IsNextBatch(keys) ==
  /\ keys \subseteq Confirmed /\ Cardinality(keys) = Batch
  /\ \A s \in keys, t \in Confirmed \ keys : s < t

(* reserve and submit_training_command; without a consumer the driver      *)
(* raises.                                                                 *)
Dispatch ==
  /\ Planning /\ MayPlan
  /\ run' = IF consumerGone THEN "confused" ELSE run
  /\ \E keys \in SUBSET Confirmed :
       /\ IsNextBatch(keys)
       /\ plans' = Append(plans, keys)
       /\ ready' = Confirmed \ keys
       /\ PutCommand(Msg("batch", Len(plans) + 1, keys))
  /\ refreshed' = (refreshed \/ Short)
  /\ UNCHANGED <<transport, producer, consumer, paused, tq, newsVars, drv,
                 completed, hint, producerDone, dropped>>

(* Mutant: the driver ends without a listing of the store.                 *)
SettledUnlisted == Planning /\ (MayPlan => Short)

Settled == Planning /\ (MayPlan => Cardinality(Confirmed) < Batch)

BudgetExhausted ==
  consumerReady /\ ~BudgetAbove(0) /\ Outstanding = 0

AtTail == producerDone /\ Outstanding = 0 /\ consumerReady /\ ~BudgetExhausted

StopAtBudget ==
  /\ Settled /\ BudgetExhausted
  /\ PutCommand(Msg("stop", 0, {}))
  /\ drv' = "finishing"
  /\ UNCHANGED <<transport, run, producer, consumer, paused, tq, newsVars,
                 refreshed, ready, plans, completed, hint, producerDone,
                 dropped>>

(* What is left is no complete batch: it is cleared untrained.             *)
StopAtTail ==
  /\ Settled /\ AtTail
  /\ dropped' = Confirmed
  /\ tq' = tq \ Confirmed
  /\ ready' = {}
  /\ PutCommand(Msg("stop", 0, {}))
  /\ drv' = "finishing"
  /\ UNCHANGED <<transport, run, producer, consumer, paused, newsVars,
                 refreshed, plans, completed, hint, producerDone>>

KeepWaiting ==
  /\ Settled /\ ~BudgetExhausted /\ ~AtTail
  /\ drv' = "wait"
  /\ ready' = Confirmed /\ refreshed' = FALSE
  /\ UNCHANGED <<channelVars, newsVars, plans, completed, hint, producerDone,
                 dropped>>

-----------------------------------------------------------------------------
(* News of the actors *)

Waiting == run = "up" /\ drv = "wait"

ProducerReturned ==
  /\ Waiting /\ ~producerGone /\ producer = "done"
  /\ producerGone' = TRUE
  /\ IF transport = "tq"
       THEN Reconcile(hint, TRUE)
       ELSE UNCHANGED <<hint, producerDone, paused, drv, refreshed>>
  /\ UNCHANGED <<transport, run, producer, consumer, tq, events, commands,
                 faults, ready, plans, completed, lastTotal, lastBatch, seen,
                 consumerGone, consumerReady, initialStep, dropped>>

ProducerRaised ==
  /\ Waiting /\ producer = "failed"
  /\ run' = "down"
  /\ UNCHANGED <<transport, producer, consumer, paused, tq, events, commands,
                 faults, schedulerVars>>

ConsumerRaised ==
  /\ run = "up" /\ drv \in {"wait", "finishing"}
  /\ consumer \in {"failed", "lost"}
  /\ run' = "down"
  /\ UNCHANGED <<transport, producer, consumer, paused, tq, events, commands,
                 faults, schedulerVars>>

(* Before the stop command a consumer may only return with the whole       *)
(* budget trained.                                                         *)
ConsumerReturned(steps) ==
  /\ Waiting /\ ~consumerGone /\ consumer = "ended"
  /\ IF MaxSteps > 0 /\ steps >= MaxSteps
       THEN consumerGone' = TRUE /\ UNCHANGED run
       ELSE run' = "confused" /\ UNCHANGED consumerGone
  /\ UNCHANGED <<transport, producer, consumer, paused, tq, events, commands,
                 faults, drv, refreshed, ready, plans, completed, hint,
                 lastTotal, lastBatch, seen, producerGone, producerDone,
                 consumerReady, initialStep, dropped>>

(* On the way out the producer is stopped if it still runs.                *)
Finish ==
  /\ run = "up" /\ drv = "finishing" /\ consumer = "ended"
  /\ drv' = "done"
  /\ producer' = IF producerGone THEN producer ELSE "stopped"
  /\ UNCHANGED <<transport, run, consumer, paused, tq, events, commands,
                 faults, newsVars, refreshed, ready, plans, completed, hint,
                 producerDone, dropped>>

-----------------------------------------------------------------------------
(* Events *)

Take(kind) ==
  /\ Waiting /\ events # <<>> /\ Head(events).kind = kind
  /\ events' = Tail(events)
  /\ UNCHANGED <<transport, producer, consumer, tq, commands, faults>>

OnReady ==
  /\ Take("ready")
  /\ initialStep' = Head(events).id
  /\ consumerReady' = TRUE
  /\ Reconcile(hint, producerDone)
  /\ UNCHANGED <<run, ready, plans, completed, lastTotal, lastBatch, seen,
                 producerGone, consumerGone, dropped>>

(* A total the driver already knows is skipped.                            *)
OnPublished ==
  /\ Take("published")
  /\ LET total == Head(events).id IN
       IF total <= lastTotal
         THEN UNCHANGED <<lastTotal, hint, producerDone, paused, drv,
                          refreshed>>
         ELSE /\ lastTotal' = total
              /\ Reconcile(hint + (total - lastTotal), producerDone)
  /\ UNCHANGED <<run, ready, plans, completed, lastBatch, seen, producerGone,
                 consumerGone, consumerReady, initialStep, dropped>>

(* A batch of metadata is taken once, in order, and a key once.            *)
OnSamples ==
  /\ Take("samples")
  /\ LET id == Head(events).id
         incoming == Head(events).keys \ seen IN
       IF id <= lastBatch
         THEN UNCHANGED <<run, lastBatch, seen, ready, hint, producerDone,
                          paused, drv, refreshed>>
         ELSE /\ run' = IF id = lastBatch + 1 THEN run ELSE "confused"
              /\ lastBatch' = id
              /\ seen' = seen \union incoming
              /\ ready' = (ready \union incoming) \ Reserved
              /\ Reconcile(hint + Cardinality(incoming), producerDone)
  /\ UNCHANGED <<plans, completed, lastTotal, producerGone, consumerGone,
                 consumerReady, initialStep, dropped>>

OnProducerDone ==
  /\ Take("producer_done")
  /\ Reconcile(hint, TRUE)
  /\ UNCHANGED <<run, ready, plans, completed, newsVars, dropped>>

(* A completion seen before must not differ from it.                       *)
OnCompletedAgain ==
  /\ Take("completed") /\ Head(events).id <= completed
  /\ run' = IF Head(events).id = completed /\ Head(events).keys # plans[completed]
              THEN "confused" ELSE run
  /\ UNCHANGED <<paused, schedulerVars>>

(* Mutant: trained samples still count as ready.                           *)
HintKept == hint

HintAfterCompletion == hint - Batch

(* Otherwise it must be the completion of the oldest plan outstanding.     *)
OnCompleted ==
  /\ Take("completed") /\ Head(events).id > completed
  /\ run' = IF /\ Outstanding > 0
               /\ Head(events).id = completed + 1
               /\ Head(events).keys = plans[completed + 1]
              THEN run ELSE "confused"
  /\ completed' = completed + 1
  /\ Reconcile(HintAfterCompletion, producerDone)
  /\ UNCHANGED <<ready, plans, newsVars, dropped>>

SchedulerStep ==
  \/ Dispatch
  \/ StopAtBudget \/ StopAtTail \/ KeepWaiting
  \/ ProducerReturned \/ ProducerRaised \/ ConsumerRaised
  \/ Finish
  \/ OnReady \/ OnPublished \/ OnSamples \/ OnProducerDone
  \/ OnCompletedAgain \/ OnCompleted
=============================================================================
