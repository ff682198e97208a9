------------------------ MODULE StandaloneProperties ------------------------
(***************************************************************************)
(* Correctness of standalone training.                                     *)
(***************************************************************************)
EXTENDS StandalonePipeline

(* The model, in memory and in every checkpoint, was trained exactly once  *)
(* on each sample recorded as consumed, whatever was delivered twice and   *)
(* however often the run was lost and resumed.  The exception is a sample  *)
(* whose put raised after it took effect and whose retry came only after   *)
(* the consumer had trained and cleared it.                                *)
TrainedOnce(m, s) == m[s] <= 1 \/ s \in twice

InTraining(s) == cur # None /\ s \in cur.keys

CheckpointExact(c) ==
  \A s \in Samples : TrainedOnce(c.model, s) /\ (c.model[s] > 0 <=> s \in c.consumed)

ExactlyOnce ==
  /\ \A s \in Samples :
       /\ TrainedOnce(model, s)
       /\ model[s] > 0 <=> s \in consumed \/ InTraining(s)
  /\ CheckpointExact(ckpt)

(* The parties never contradict each other: no completion out of turn or   *)
(* of other keys, no gap between batches of metadata, no consumer gone     *)
(* before its time, and no sample missing from the store when its batch is *)
(* fetched.                                                                *)
NoInternalError ==
  /\ run # "confused"
  /\ consumer # "lost"
  /\ Waiting /\ producerGone /\ consumerGone => events # <<>>

(* At the end of the data every sample the driver was told of, or finds in *)
(* the store, is trained or in the tail, and the tail is short of a batch. *)
EndIsAccounted ==
  run = "up" /\ drv \in {"finishing", "done"} =>
    /\ Cardinality(dropped) < Batch
    /\ ready = {} \/ BudgetExhausted
    /\ \A s \in (tq \union seen) \ (twice \union dropped) :
         BudgetExhausted \/ model[s] = 1

(* A launch ends: neither the producer's gate, nor its drain, nor the      *)
(* prefetch slots keep everybody waiting for everybody.                    *)
PipelineEnds == run = "up" ~> drv = "done" \/ run = "down"
-----------------------------------------------------------------------------
(* The argument for the first three.                                       *)

(* Plans the consumer has trained, announced and cleared in this launch,   *)
(* and the step it started from.                                           *)
Trained == lastPlan - Len(fetched)
Announced == Trained - Len(finals)
Cleared == Announced + (IF cleared THEN 1 ELSE 0)
StartStep == optStep + (IF cur = None THEN 0 ELSE 1) - Trained

PlanMsg(n) == Msg("batch", n, plans[n])

(* What the consumer holds is a stretch of the plans, in their order.      *)
InOrder ==
  /\ lastPlan <= Len(plans)
  /\ completed <= Announced
  /\ cleared => finals # <<>>
  /\ \A i \in 1..Len(fetched) : fetched[i] = PlanMsg(Trained + i)
  /\ \A i \in 1..Len(finals) : finals[i] = PlanMsg(Announced + i)
  /\ cur # None => Trained > 0 /\ cur = PlanMsg(Trained)

(* A queue carries the numbers from 'from' to 'to', each after the one     *)
(* before it, and perhaps older ones again.                                *)
Carries(queue, kind, from, to) ==
  /\ \A i \in 1..Len(queue) : queue[i].kind = kind =>
       /\ queue[i].id \in 1..to
       /\ queue[i].id > from + 1 =>
            \E j \in 1..(i - 1) : queue[j].kind = kind /\ queue[j].id = queue[i].id - 1
  /\ \A n \in (from + 1)..to :
       \E i \in 1..Len(queue) : queue[i].kind = kind /\ queue[i].id = n

OfPlans(queue, kind) ==
  \A i \in 1..Len(queue) : queue[i].kind = kind => queue[i].keys = plans[queue[i].id]

QueuesInOrder ==
  /\ Carries(commands, "batch", lastPlan, Len(plans))
  /\ OfPlans(commands, "batch")
  /\ Carries(events, "completed", completed, Announced)
  /\ OfPlans(events, "completed")
  /\ lastBatch <= batchId
  /\ Carries(events, "samples", lastBatch, batchId)

(* Messages of a kind in a queue.                                          *)
Among(queue, kind) == {m \in {queue[i] : i \in 1..Len(queue)} : m.kind = kind}

(* The driver learns the step the consumer started from, and plans no more *)
(* than the budget leaves.                                                 *)
BudgetKept ==
  /\ consumer = "starting" => lastPlan = 0
  /\ consumer # "starting" => consumerReady \/ Among(events, "ready") # {}
  /\ \A m \in Among(events, "ready") : consumer # "starting" /\ m.id = StartStep
  /\ consumerReady =>
       MaxSteps = 0 \/ (consumer # "starting" /\ initialStep = StartStep)
  /\ ~consumerReady => plans = <<>>
  /\ MaxSteps > 0 => plans = <<>> \/ initialStep + Len(plans) <= MaxSteps

Stopping == drv \in {"finishing", "done"}

(* Who ends, and when.                                                     *)
EndsInTurn ==
  /\ sourceDone => Stopping
  /\ Among(commands, "stop") # {} => Stopping
  /\ consumer = "ended" =>
       /\ MoreSteps => sourceDone
       /\ cur = None
       /\ finals = <<>>
  /\ consumerGone => consumer = "ended" /\ ~MoreSteps
  /\ drv = "wait" => ~BudgetExhausted
  /\ drv = "plan" /\ refreshed => Outstanding > 0
  /\ Stopping => Outstanding = 0

(* The samples of the plans, and those to be planned next, are in the      *)
(* store until they are cleared.                                           *)
StoreHolds ==
  /\ transport = "tq" =>
       /\ ready \subseteq tq
       /\ \A i \in (Cleared + 1)..Len(plans) : plans[i] \subseteq tq
  /\ \A i \in (completed + 1)..Len(plans) : ready \intersect plans[i] = {}
  /\ \A i, j \in (completed + 1)..Len(plans) : i # j => plans[i] \intersect plans[j] = {}

Planned(s) == \E i \in 1..Len(plans) : s \in plans[i]

(* Metadata the driver has not taken yet.                                  *)
Untaken == {m \in Among(events, "samples") : m.id > lastBatch}

(* What is to be asked for, or asked for and not handed on, is untrained.  *)
AskedOnce ==
  /\ todo \intersect (asked \union handed) = {}
  /\ transport = "reference" => asked \intersect handed = {}
  /\ \A s \in todo \union (asked \ handed) : model[s] = 0

(* What the driver plans was handed on by the producer, on one path.       *)
HandedOn ==
  /\ ready \union tq \union seen \subseteq handed
  /\ \A s \in Samples : Planned(s) => s \in handed
  /\ IF transport = "tq" THEN Untaken = {} ELSE tq = {}

(* A sample is in one plan, untrained until that plan is trained, and not  *)
(* in the store after that plan is cleared.                                *)
PlannedOnce ==
  /\ \A i \in 1..Len(plans) : \A s \in plans[i] \ twice :
       /\ i <= Cleared => s \notin tq
       /\ i > Trained => model[s] = 0
       /\ \A j \in 1..Len(plans) : j # i => s \notin plans[j]
  /\ \A s \in tq \ twice : Planned(s) \/ model[s] = 0
  /\ \A s \in ready \ twice : ~Planned(s) /\ model[s] = 0

(* Metadata on its way to the driver is about samples that are new to it.  *)
ToldOnce ==
  /\ \A m \in Untaken : m.keys \subseteq handed
  /\ \A m \in Untaken : \A s \in m.keys : s \notin ready /\ ~Planned(s) /\ model[s] = 0
  /\ \A m, n \in Untaken : m.id # n.id => m.keys \intersect n.keys = {}

(* A sample takes its way once: it is to be asked for, or on its way to    *)
(* the driver, or ready, or in one plan, and before that plan is trained   *)
(* the model has not seen it.                                              *)
OneWay == AskedOnce /\ HandedOn /\ PlannedOnce /\ ToldOnce

(* A checkpoint is exact when its writing starts, between two batches.     *)
DueIdle == due => cur = None

SavingExact == saving # NoSave => CheckpointExact(saving)

(* The model has seen every plan trained in this launch.                   *)
LearnedPlans == \A i \in 1..Trained : \A s \in plans[i] : model[s] > 0

(* What the driver was told of is ready, planned or dropped, and it stops  *)
(* with nothing left in the store and nobody to put more there.            *)
NothingForgotten ==
  /\ transport = "tq" =>
       /\ seen = {}
       /\ producerDone => producer # "running"
       /\ Among(events, "producer_done") = {}
  /\ ~Stopping => dropped = {}
  /\ Stopping =>
       /\ Cardinality(dropped) < Batch
       /\ \/ BudgetExhausted
          \/ ready = {} /\ (transport = "tq" => tq = {} /\ producer # "running")
  /\ \A s \in seen \ ready : Planned(s) \/ s \in dropped

PipelineInv ==
  /\ TypeOK
  /\ InOrder
  /\ QueuesInOrder
  /\ BudgetKept
  /\ EndsInTurn
  /\ StoreHolds
  /\ OneWay
  /\ DueIdle
  /\ SavingExact
  /\ LearnedPlans
  /\ NothingForgotten
  /\ ExactlyOnce
  /\ NoInternalError
  /\ EndIsAccounted

-----------------------------------------------------------------------------
(* Nobody waits for ever: the safety half of PipelineEnds.                 *)

(* What each party has to do now.  A producer that runs publishes what it  *)
(* asked for, asks for the next input unless its gate is shut, or returns. *)
ProducerCanGo == producer = "running" /\ (asked # {} \/ todo = {} \/ ~paused)

ConsumerCanGo ==
  \/ consumer = "starting"
  \/ /\ consumer = "running"
     /\ \/ cur # None \/ due \/ finals # <<>> \/ saving # NoSave
        \/ fetched # <<>> \/ commands # <<>> \/ sourceDone \/ ~MoreSteps

DriverCanGo ==
  \/ drv = "plan"
  \/ /\ drv = "wait"
     /\ \/ events # <<>>
        \/ producer = "failed" \/ (producer = "done" /\ ~producerGone)
        \/ consumer = "failed" \/ (consumer = "ended" /\ ~consumerGone)
  \/ drv = "finishing" /\ consumer \in {"ended", "failed"}

(* A launch that is not over has a party that can go on: no gate shut      *)
(* between the watermarks, no notification skipped, no tail and no budget  *)
(* leaves the driver waiting for a producer and a consumer that both wait  *)
(* for the driver.                                                         *)
NeverStuck == run = "up" => drv = "done" \/ ProducerCanGo \/ ConsumerCanGo \/ DriverCanGo

(* The driver's count of ready samples is never more than there are: every *)
(* sample published, or told of, is ready, or was in a plan (and, in the   *)
(* store, is not cleared yet).                                             *)
PlansFull == \A i \in 1..Len(plans) : Cardinality(plans[i]) = Batch

TotalsTold ==
  transport = "tq" =>
    /\ hint = lastTotal - Batch * completed
    /\ lastTotal <= told /\ told <= published
    /\ \A m \in Among(events, "published") : m.id <= told

TotalsFromStore == transport = "reference" => Among(events, "published") = {}

PublishedOnce == transport = "tq" => published <= Cardinality(handed \ asked)

StoreCovers ==
  transport = "tq" /\ ~Stopping => Cardinality(handed) <= Cardinality(tq) + Batch * Cleared

ReferencesCovered ==
  transport = "reference" =>
    /\ hint = Cardinality(seen) - Batch * completed
    /\ ~Stopping => Cardinality(seen) <= Cardinality(ready) + Batch * Len(plans)

HintCovered ==
  /\ PlansFull
  /\ TotalsTold /\ TotalsFromStore /\ PublishedOnce /\ StoreCovers
  /\ ReferencesCovered

(* The gate is shut only while more is counted than the lower watermark,   *)
(* and the driver waits without a plan outstanding only when less than a   *)
(* batch is counted: so it does not wait behind a shut gate.               *)
GateFollows ==
  /\ ~producerDone /\ paused => hint > Low
  /\ drv = "wait" =>
       /\ ~AtTail
       /\ Outstanding = 0 /\ consumerReady /\ ~producerDone => hint < Batch

(* Whoever is gone was noticed, or its notice is on its way.               *)
CommandKinds == {"batch", "stop"}
EventKinds == {"ready", "published", "samples", "producer_done", "completed"}
OfKinds(queue, kinds) == \A i \in 1..Len(queue) : queue[i].kind \in kinds

Noticed ==
  /\ OfKinds(commands, CommandKinds) /\ OfKinds(events, EventKinds)
  /\ producer = "stopped" => drv = "done"
  /\ transport = "tq" => (producerGone => producerDone)
  /\ transport = "reference" =>
       (producer = "done" => producerDone \/ Among(events, "producer_done") # {})
  /\ Stopping => sourceDone \/ Among(commands, "stop") # {}

StuckInv == HintCovered /\ GateFollows /\ Noticed
=============================================================================
