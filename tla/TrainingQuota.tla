---------------------------- MODULE TrainingQuota ----------------------------
(***************************************************************************)
(* The training quota of Bubble Time: every collection owes TargetSteps    *)
(* optimizer steps, which training in the idle windows of the rollouts     *)
(* and blocking top-ups before the actor update repay; the trained drafter *)
(* is then published, and only the acknowledged publication lets the next  *)
(* collection begin.                                                       *)
(*                                                                         *)
(* The quota is DrafterScheduler's; the steps of the training loop around  *)
(* it are SpecoRayPPOTrainer's hooks on generate_sequences, update_actor,  *)
(* _save_checkpoint and update_weights.  The idle event loop runs          *)
(* concurrently with a rollout, and with nothing else.                     *)
(***************************************************************************)
EXTENDS Naturals, Sequences

CONSTANTS
  LastStep,          \* total_training_steps
  TargetSteps,       \* training_quota_target_steps
  CollectInterval,   \* collect_interval_steps, 0 for never
  TrainInterval,     \* training_interval_steps, 0 for none
  PublishInterval,   \* publish_interval_steps, 0 for every step
  SaveInterval,      \* trainer.save_freq, 0 for the last step only
  MaxDebtAge,        \* training_quota_max_debt_age_steps
  MaxDebt,           \* training_quota_max_accumulated_debt, 0 for no limit
  MaxCompletionLag,  \* training_quota_max_completion_lag_steps
  MaxSyncTopup,      \* training_quota_max_sync_topup_steps
  MaxPublishLag,     \* idle_worker_max_publish_lag_steps
  MaxPendingPublish, \* idle_worker_max_pending_publish
  Fallback,          \* training_quota_allow_critical_path_fallback
  PublishAsync,      \* publish_async
  OneCollective,     \* every training group spans all workers
  Unready            \* steps in which a top-up may want a writer, its data or target head

ASSUME StepsAssumption == 
  /\ LastStep \in Nat \ {0}
  /\ TargetSteps \in Nat \ {0}
  /\ MaxPendingPublish \in Nat \ {0}
ASSUME IntervalsAssumption ==
  {CollectInterval, TrainInterval, PublishInterval, SaveInterval} \subseteq Nat
ASSUME LimitsAssumption ==
  {MaxDebtAge, MaxDebt, MaxCompletionLag, MaxSyncTopup, MaxPublishLag} \subseteq Nat
ASSUME SwitchesAssumption ==
  {Fallback, PublishAsync, OneCollective} \subseteq BOOLEAN
ASSUME InputsAssumption ==
  Unready \subseteq Nat

VARIABLES
  step,        \* global_steps
  stage,       \* where the training loop stands in this step
  error,       \* the exception that ended the run
  debt,        \* _training_quota_debt_steps
  claim,       \* _training_quota_collection_step, 0 for None
  registered,  \* _training_quota_last_registered_data_version, 0 for None
  cycle,       \* _training_quota_last_cycle_step, 0 for None
  oldest,      \* _training_quota_oldest_cycle_step, 0 for None
  version,     \* _training_quota_data_version, 0 for None
  plan,        \* the idle plan in execution (runtime_state.active_plan)
  writer,      \* _idle_worker_writer_state_version is not None
  initialized, \* _idle_optimizer_initialized_groups is not empty
  completed,   \* _speco_idle_completed_publications
  deferred,    \* pending_drafter_publishes
  staged,      \* _pending_drafter_publish_refs and its source step
  requested,   \* _speco_deferred_checkpoint_step, 0 for None
  saved,       \* _speco_last_checkpoint_saved_step, 0 for None
  quotas,      \* history: quotas registered
  worked,      \* idle and top-up optimizer steps, the scheduler's two totals
  served       \* history: optimizer steps in the weights the rollouts serve

loopVars    == <<step, stage, error>>
quotaVars   == <<debt, claim, registered, cycle, oldest, version, quotas>>
trainVars   == <<plan, writer, initialized, worked>>
publishVars == <<completed, deferred, staged, served>>
saveVars    == <<requested, saved>>
vars == <<loopVars, quotaVars, trainVars, publishVars, saveVars>>

Steps  == 1..LastStep
Stages == {"poll", "drain", "admit", "rollout", "reclaim", "learn", "settle",
           "save", "weights", "validate", "done", "failed"}
Errors == {"none", "collision", "training", "publication", "inputs",
           "final quota", "checkpoint"}

NoPlan   == [batches |-> 0, publish |-> FALSE]
Plans    == [batches : 1..TargetSteps, publish : BOOLEAN]
NoStage  == [step |-> 0, steps |-> 0]
Stagings == [step : Steps, steps : Nat]
Publications == [bubble : BOOLEAN, step : Steps]

TypeOK ==
  /\ step \in Steps
  /\ stage \in Stages
  /\ error \in Errors
  /\ debt \in 0..TargetSteps
  /\ {claim, registered, version, requested, saved} \subseteq {0} \union Steps
  /\ {cycle, oldest, quotas, worked, served} \subseteq Nat
  /\ plan \in Plans \union {NoPlan}
  /\ {writer, initialized} \subseteq BOOLEAN
  /\ completed \in Seq(Publications)
  /\ deferred \in Seq(Publications)
  /\ staged \in Stagings \union {NoStage}

Init ==
  /\ step = 1 /\ stage = "poll" /\ error = "none"
  /\ debt = 0 /\ claim = 0 /\ registered = 0
  /\ cycle = 0 /\ oldest = 0 /\ version = 0
  /\ plan = NoPlan /\ writer = FALSE /\ initialized = FALSE
  /\ completed = <<>> /\ deferred = <<>> /\ staged = NoStage
  /\ requested = 0 /\ saved = 0
  /\ quotas = 0 /\ worked = 0 /\ served = 0

Every(interval) == interval > 0 /\ step % interval = 0

-----------------------------------------------------------------------------
(* The quota.                                                              *)

(* Mutant: only outstanding training blocks, not the publication.          *)
BlockedByDebtOnly == debt > 0 /\ claim # step

(* An unpublished quota blocks collection; while its debt lasts, the step  *)
(* that collected it may add to its own data.                              *)
Blocked == IF claim = 0 THEN debt > 0 ELSE debt = 0 \/ claim # step

(* The synchronous training step by which the quota is due.                *)
CycleStep ==
  LET upcoming == ((step - 1) \div TrainInterval + 1) * TrainInterval IN
  IF TrainInterval = 0 THEN step
  ELSE IF upcoming <= cycle THEN cycle + TrainInterval
  ELSE upcoming

(* Collected data registers its quota, once per data version, and never on *)
(* top of a debt.                                                          *)
Register ==
  IF step <= registered \/ debt > 0
  THEN UNCHANGED <<debt, registered, cycle, oldest, version, quotas>>
  ELSE /\ debt' = TargetSteps
       /\ registered' = step
       /\ cycle' = CycleStep
       /\ oldest' = CycleStep
       /\ version' = step
       /\ quotas' = quotas + 1

Fail(why) == stage' = "failed" /\ error' = why

(* A durable collection, in the rollout or from the old log-probabilities. *)
Collect ==
  /\ stage \in {"rollout", "learn"}
  /\ Every(CollectInterval)
  /\ ~Blocked
  /\ IF claim \in {0, step}
     THEN claim' = step /\ Register /\ UNCHANGED loopVars
     ELSE Fail("collision") /\ UNCHANGED <<step, quotaVars>>
  /\ UNCHANGED <<trainVars, publishVars, saveVars>>

(* k optimizer steps are booked against the quota.                         *)
Repay(k) ==
  /\ worked' = worked + k
  /\ debt' = IF k > debt THEN 0 ELSE debt - k
  /\ IF k > 0 /\ debt' = 0
     THEN oldest' = 0 /\ version' = 0
     ELSE UNCHANGED <<oldest, version>>
  /\ UNCHANGED <<claim, registered, cycle, quotas>>

(* Mutant: an acknowledged publication keeps the claim.                    *)
ReleasedNever == claim

(* Publication releases the quota when nothing is owed.                    *)
Released == IF debt = 0 THEN 0 ELSE claim

-----------------------------------------------------------------------------
(* Publication.                                                            *)

Outstanding == deferred # <<>> \/ staged # NoStage

PublishIntervalMatched == PublishInterval = 0 \/ Every(PublishInterval)

(* Mutant: a bubble plan may publish before its quota is repaid.           *)
PublishableUnfinished(p, owed) == p.bubble \/ PublishIntervalMatched

(* plan_publish: a bubble plan publishes the quota it completed, any other *)
(* plan when the publish interval says so.                                 *)
Publishable(p, owed) ==
  IF p.bubble THEN owed = 0 ELSE PublishIntervalMatched

Defer(p, owed) ==
  deferred' = IF Publishable(p, owed) THEN Append(deferred, p) ELSE deferred

(* Mutant: the workers learn the new step before the boundary publishes.   *)
WorkerStepEarly == step

(* last_global_step of the workers: the driver announces a step after the  *)
(* publications at its boundary.                                           *)
WorkerStep == IF stage \in {"poll", "drain", "admit"} THEN step - 1 ELSE step

(* Publish the oldest deferred plan.  The workers hand out a snapshot only *)
(* if they trained in the step they know; without one the plan is dropped. *)
PublishNext ==
  /\ deferred # <<>>
  /\ staged = NoStage
  /\ deferred' = Tail(deferred)
  /\ LET p == Head(deferred) IN
     IF ~Publishable(p, debt) \/ p.step # WorkerStep
     THEN UNCHANGED <<staged, served, claim>>
     ELSE IF p.bubble \/ PublishAsync
     THEN staged' = [step |-> step, steps |-> worked] /\ UNCHANGED <<served, claim>>
     ELSE served' = worked /\ claim' = Released /\ UNCHANGED staged

(* Every rollout worker has applied the staged weights.                    *)
Acknowledge ==
  /\ staged # NoStage
  /\ staged' = NoStage
  /\ served' = staged.steps
  /\ claim' = Released
  /\ UNCHANGED deferred

KeepRest ==
  UNCHANGED <<step, error, debt, registered, cycle, oldest, version, quotas,
              trainVars, completed, saveVars>>

-----------------------------------------------------------------------------
(* The generation hook, before the rollout.                                *)

(* Look at the staged publication without waiting, until it lags too far.  *)
PollPublication ==
  /\ stage = "poll"
  /\ stage' = "drain"
  /\ \/ Acknowledge
     \/ /\ staged # NoStage => step - staged.step < MaxPublishLag
        /\ UNCHANGED <<deferred, staged, served, claim>>
  /\ KeepRest

(* Deferred plans are published at the boundary, at the update of the      *)
(* rollout weights, and wherever the trainer has to wait for them all.     *)
MustSettle ==
  /\ Outstanding
  /\ \/ stage = "admit" /\ Every(CollectInterval) /\ Blocked
     \/ stage \in {"settle", "validate"}

PublishDeferred ==
  /\ stage \in {"drain", "weights"} \/ MustSettle
  /\ PublishNext
  /\ UNCHANGED stage
  /\ KeepRest

AwaitPublication ==
  /\ MustSettle
  /\ Acknowledge
  /\ UNCHANGED stage
  /\ KeepRest

(* A worker refuses or misses the weights, the wrong version answers, or   *)
(* the snapshot of the next plan cannot be staged.                         *)
PublicationFails ==
  /\ \/ stage = "poll" /\ staged # NoStage
     \/ stage \in {"drain", "weights"} /\ staged = NoStage /\ deferred # <<>>
     \/ MustSettle
  /\ Fail("publication")
  /\ staged' = NoStage
  /\ deferred' = IF staged = NoStage THEN Tail(deferred) ELSE deferred
  /\ UNCHANGED <<step, quotaVars, trainVars, completed, served, saveVars>>

Goto(next) ==
  /\ stage' = next
  /\ UNCHANGED <<step, error, quotaVars, trainVars, publishVars, saveVars>>

Drained == stage = "drain" /\ (deferred = <<>> \/ staged # NoStage) /\ Goto("admit")
BeginRollout == stage = "admit" /\ ~MustSettle /\ Goto("rollout")

-----------------------------------------------------------------------------
(* The rollout and the idle event loop.                                    *)

PendingPublications ==
  Len(completed) + Len(deferred) + (IF staged = NoStage THEN 0 ELSE 1)

(* Mutant: the budget of an idle plan is not capped by the debt.           *)
IdleBudgetUncapped == 1..(debt + 1)

IdleBudget == 1..debt

(* No optimizer state exists yet: with the fallback a blocking top-up      *)
(* creates it; without, a single step does not pay, unless the reserve for *)
(* the snapshot took the second one away.                                  *)
Cold == ~initialized /\ ~writer
Worthwhile(batches) == Cold => ~Fallback /\ (batches > 1 \/ debt = 2)

(* Some complete writer group is idle for long enough, holds the data of   *)
(* the quota and its target head.                                          *)
LaunchIdle ==
  /\ stage = "rollout"
  /\ plan = NoPlan
  /\ PendingPublications < MaxPendingPublish
  /\ debt > 0
  /\ \E batches \in IdleBudget :
        /\ Worthwhile(batches)
        /\ plan' = [batches |-> batches, publish |-> batches = debt]
  /\ UNCHANGED <<loopVars, quotaVars, writer, initialized, worked, publishVars, saveVars>>

(* The plan ends after k of its batches: its deadline or a reclaim stopped *)
(* it, or it is done.                                                      *)
PlanEnds(k) ==
  /\ plan # NoPlan
  /\ plan' = NoPlan
  /\ Repay(k)
  /\ writer' = (writer \/ k > 0)
  /\ initialized' = (initialized \/ k > 0)
  /\ UNCHANGED <<loopVars, staged, served, saveVars>>

ThisPlan == [bubble |-> TRUE, step |-> step]

(* The event loop queues a completed final plan.                           *)
FinishIdle ==
  /\ stage = "rollout"
  /\ \E k \in 0..plan.batches :
        /\ PlanEnds(k)
        /\ completed' = IF plan.publish /\ k = plan.batches
                        THEN Append(completed, ThisPlan) ELSE completed
  /\ UNCHANGED deferred

(* The reclaim after the rollout hands every trained final plan to the     *)
(* deferral, however many batches it did.                                  *)
ReclaimIdle ==
  /\ stage = "reclaim"
  /\ \E k \in 0..plan.batches :
        /\ PlanEnds(k)
        /\ IF plan.publish /\ k > 0 THEN Defer(ThisPlan, debt') ELSE UNCHANGED deferred
  /\ UNCHANGED completed

(* The shards of the writer report different steps, or the future fails.   *)
IdleTrainingFails ==
  /\ stage \in {"rollout", "reclaim"}
  /\ plan # NoPlan
  /\ Fail("training")
  /\ plan' = NoPlan
  /\ UNCHANGED <<step, quotaVars, writer, initialized, worked, publishVars, saveVars>>

GenerationReturns == stage = "rollout" /\ Goto("reclaim")

FlushCompleted ==
  /\ stage = "reclaim"
  /\ plan = NoPlan
  /\ completed # <<>>
  /\ Defer(Head(completed), debt)
  /\ completed' = Tail(completed)
  /\ UNCHANGED <<loopVars, quotaVars, trainVars, staged, served, saveVars>>

BeginLearning ==
  stage = "reclaim" /\ plan = NoPlan /\ completed = <<>> /\ Goto("learn")

-----------------------------------------------------------------------------
(* The update_actor hook: blocking top-ups.                                *)

Age == IF oldest = 0 \/ step < oldest THEN 0 ELSE step - oldest

DeadlineReached == oldest = 0 \/ step >= oldest

Due ==
  /\ DeadlineReached
  /\ Age >= MaxDebtAge \/ (MaxDebt > 0 /\ debt > MaxDebt /\ Age > 0)

(* Mutant: the hard deadline is one step late.                             *)
OverdueLate == DeadlineReached /\ Age > MaxCompletionLag

(* The hard completion deadline.                                           *)
Overdue == DeadlineReached /\ Age >= MaxCompletionLag

(* needs_idle_optimizer_bootstrap: nothing was ever trained.               *)
Bootstrap == debt >= TargetSteps /\ version # 0 /\ Cold

Forced == Overdue \/ Bootstrap \/ step = LastStep

TopUpAllowed == stage = "learn" /\ Fallback /\ debt > 0 /\ ~Outstanding

(* The top-up does exactly its steps, or raises.                           *)
BlockingTraining(k) ==
  /\ stage' = IF step = LastStep THEN "settle" ELSE "save"
  /\ Repay(k)
  /\ UNCHANGED <<step, error, plan, completed, staged, served, saveVars>>

(* Help the writer that is already under way, but leave the last step, and *)
(* with it the publication, to an idle window.                             *)
SoftTopUp ==
  /\ TopUpAllowed /\ ~Forced
  /\ Due
  /\ debt < TargetSteps
  /\ LET k == IF debt - 1 < MaxSyncTopup THEN debt - 1 ELSE MaxSyncTopup IN
     k > 0 /\ BlockingTraining(k)
  /\ writer' = TRUE
  /\ initialized' = TRUE
  /\ UNCHANGED deferred

(* The writer group completes the quota.                                   *)
WriterTopUp ==
  /\ TopUpAllowed /\ Forced
  /\ BlockingTraining(debt)
  /\ writer' = TRUE
  /\ initialized' = TRUE
  /\ Defer(ThisPlan, debt')

(* Untouched by a writer, the quota can be run by all workers as a         *)
(* synchronous plan; the writer is elected later.                          *)
CollectiveTopUp ==
  /\ TopUpAllowed /\ Forced
  /\ OneCollective /\ debt >= TargetSteps /\ ~writer
  /\ BlockingTraining(debt)
  /\ writer' = FALSE
  /\ initialized' = TRUE
  /\ Defer([bubble |-> FALSE, step |-> step], debt')

TopUpFails ==
  /\ TopUpAllowed
  /\ Forced \/ (Due /\ debt < TargetSteps)
  /\ \/ Fail("training")
     \/ Overdue /\ step \in Unready /\ Fail("inputs")
  /\ UNCHANGED <<step, quotaVars, trainVars, publishVars, saveVars>>

(* A soft top-up may be put off for a hot writer; any top-up, for a target *)
(* head that is not ready.                                                 *)
SkipTopUp ==
  /\ stage = "learn"
  /\ TopUpAllowed /\ Forced => step \in Unready
  /\ Goto(IF step = LastStep THEN "settle" ELSE "save")

TopUp == SoftTopUp \/ WriterTopUp \/ CollectiveTopUp \/ TopUpFails

-----------------------------------------------------------------------------
(* The end of a step: final settlement, checkpoint, rollout weights.       *)

SettleFinal ==
  /\ stage = "settle"
  /\ IF debt > 0
     THEN /\ Fail("final quota")
          /\ UNCHANGED <<step, quotaVars, trainVars, publishVars, saveVars>>
     ELSE ~Outstanding /\ Goto("save")

(* Mutant: a checkpoint waits for the training only.                       *)
SavePendingIgnoringClaim == debt > 0

SavePending == debt > 0 \/ claim # 0

(* Mutant: the last step is saved only if the period says so.              *)
SaveDuePeriodic == Every(SaveInterval)

SaveDue == Every(SaveInterval) \/ step = LastStep

(* The retry of a deferred save, then the periodic one, which finds its    *)
(* work done if the retry saved.                                           *)
Save ==
  /\ stage = "save"
  /\ IF SavePending /\ SaveDue /\ step = LastStep
     THEN Fail("checkpoint") /\ UNCHANGED saveVars
     ELSE /\ stage' = "weights"
          /\ IF ~SavePending /\ (SaveDue \/ requested # 0)
             THEN saved' = step /\ requested' = 0
             ELSE /\ requested' = IF SaveDue /\ requested = 0 THEN step ELSE requested
                  /\ UNCHANGED saved
          /\ UNCHANGED error
  /\ UNCHANGED <<step, quotaVars, trainVars, publishVars>>

Validate == stage = "weights" /\ Goto("validate")

(* A runtime that updates its rollout weights past the hook leaves the     *)
(* deferred plans to the next boundary.                                    *)
NextStep ==
  /\ \/ stage = "weights"
     \/ stage = "validate" /\ ~Outstanding
  /\ IF step = LastStep
     THEN stage' = "done" /\ UNCHANGED step
     ELSE stage' = "poll" /\ step' = step + 1
  /\ UNCHANGED <<error, quotaVars, trainVars, publishVars, saveVars>>

-----------------------------------------------------------------------------
Boundary == 
  \/ PollPublication \/ PublishDeferred \/ AwaitPublication \/ PublicationFails
  \/ Drained \/ BeginRollout
IdleLoop == LaunchIdle \/ FinishIdle
Learning ==
  \/ GenerationReturns \/ ReclaimIdle \/ IdleTrainingFails \/ FlushCompleted
  \/ BeginLearning \/ TopUp \/ SkipTopUp
EndOfStep == SettleFinal \/ Save \/ Validate \/ NextStep

Next == Boundary \/ Collect \/ IdleLoop \/ Learning \/ EndOfStep

Spec == Init /\ [][Next]_vars

(* The training loop keeps running: every generation returns, every plan   *)
(* ends, every publication is answered.  Collections and idle launches are *)
(* up to the rollouts.                                                     *)
FairSpec == Spec /\ WF_vars(Boundary \/ Learning \/ EndOfStep)
=============================================================================
