----------------------------- MODULE QuotaProofs -----------------------------
(***************************************************************************)
(* Proofs about the training quota, for every schedule.                    *)
(***************************************************************************)
EXTENDS QuotaProperties, SequenceTheorems, TLAPS

-----------------------------------------------------------------------------
(* The publication queues.                                                 *)

(* A plan put into an empty queue is alone in it.                          *)
LEMMA AppendToEmpty ==
  ASSUME NEW p \in Publications
  PROVE  /\ Append(<<>>, p) \in Seq(Publications)
         /\ Append(<<>>, p) # <<>>
         /\ Len(Append(<<>>, p)) = 1
         /\ Append(<<>>, p)[1] = p
<1>1. <<>> \in Seq(Publications) /\ Len(<<>>) = 0
  BY EmptySeq
<1>. QED BY <1>1, AppendProperties

(* A queue of at most one plan is empty or becomes empty with its head.    *)
LEMMA ShortQueue ==
  ASSUME NEW q \in Seq(Publications), Len(q) <= 1
  PROVE  /\ Len(q) = 0 <=> q = <<>>
         /\ q # <<>> => /\ Len(q) = 1 /\ Tail(q) = <<>>
                        /\ Head(q) = q[1] /\ q[1] \in Publications
         /\ Len(<<>>) = 0 /\ <<>> \in Seq(Publications)
<1>1. Len(q) \in Nat /\ (Len(q) = 0 <=> q = <<>>)
  BY EmptySeq, LenProperties
<1>2. ASSUME q # <<>>
      PROVE  /\ Len(q) = 1 /\ Tail(q) = <<>>
             /\ Head(q) = q[1] /\ q[1] \in Publications
  <2>1. Len(q) = 1
    <3>1. Len(q) \in Nat \ {0}
      BY <1>2, EmptySeq
    <3>. QED BY <3>1
  <2>2. Tail(q) \in Seq(Publications) /\ Len(Tail(q)) = 0
    BY <1>2, <2>1, HeadTailProperties
  <2>3. Tail(q) = <<>>
    BY <2>2, EmptySeq
  <2>. QED BY <1>2, <2>1, <2>3, HeadTailProperties, ElementOfSeq
<1>. QED BY <1>1, <1>2, EmptySeq

(* Publication is single-flight: at most one plan waits, at one place.     *)
LEMMA OnePlanWaits ==
  ASSUME TypeOK, SingleFlight
  PROVE  /\ Len(completed) = 0 <=> completed = <<>>
         /\ Len(deferred) = 0 <=> deferred = <<>>
         /\ completed # <<>> =>
              /\ Tail(completed) = <<>> /\ Head(completed) = completed[1]
              /\ completed[1] \in Publications
              /\ deferred = <<>> /\ staged = NoStage
         /\ deferred # <<>> =>
              /\ Tail(deferred) = <<>> /\ Head(deferred) = deferred[1]
              /\ deferred[1] \in Publications
              /\ completed = <<>> /\ staged = NoStage
         /\ staged # NoStage => completed = <<>> /\ deferred = <<>>
         /\ completed # <<>> \/ Outstanding => claim # 0 /\ debt = 0
         /\ Len(<<>>) = 0 /\ <<>> \in Seq(Publications)
<1>1. Len(completed) \in Nat /\ Len(deferred) \in Nat
  BY LenProperties DEF TypeOK
<1>2. Len(completed) <= 1 /\ Len(deferred) <= 1
  BY <1>1 DEF SingleFlight, Waiting
<1>3. completed \in Seq(Publications) /\ deferred \in Seq(Publications)
  BY DEF TypeOK
<1>. QED BY <1>1, <1>2, <1>3, ShortQueue DEF SingleFlight, Waiting, Outstanding

(* Nothing waits exactly when both queues and the staging are empty.       *)
LEMMA NothingWaits ==
  ASSUME TypeOK, SingleFlight, completed = <<>>, deferred = <<>>, staged = NoStage
  PROVE  Waiting = 0
  BY OnePlanWaits DEF Waiting

-----------------------------------------------------------------------------
(* Every action preserves QuotaInv.                                        *)

(* The initial state satisfies it.                                         *)
LEMMA InitInv == Init => QuotaInv
<1>. SUFFICES ASSUME Init PROVE QuotaInv
  OBVIOUS
<1>1. TypeOK
  <2>1. <<>> \in Seq(Publications) /\ 1 \in Steps /\ 0 \in 0..TargetSteps
    BY EmptySeq, StepsAssumption DEF Steps
  <2>2. {writer, initialized} \subseteq BOOLEAN
    BY Zenon DEF Init
  <2>. QED BY <2>1, <2>2 DEF Init, TypeOK, Stages, Errors
<1>2. WorkMatchesQuota /\ OnlyWholeQuotasServed
  BY StepsAssumption DEF Init, WorkMatchesQuota, OnlyWholeQuotasServed, NoStage
<1>3. SingleFlight
  BY EmptySeq DEF Init, SingleFlight, Waiting
<1>. QED BY <1>1, <1>2, <1>3 DEF Init, QuotaInv, PlanFitsDebt, StillPublishable, OwnedByItsStep,
        ServedIsRepaid, LastStepClosed

(* Steps of the training loop that leave everything but the stage alone.   *)
LEMMA GotoInv ==
  ASSUME QuotaInv,
         Drained \/ BeginRollout \/ GenerationReturns \/ BeginLearning \/ SkipTopUp \/ Validate
         \/ (SettleFinal /\ stage' # "failed")
  PROVE  QuotaInv'
<1>. USE DEF QuotaInv, quotaVars, trainVars, publishVars, saveVars
<1>0. /\ UNCHANGED <<step, error, quotaVars, trainVars, publishVars, saveVars>>
      /\ \/ stage = "drain" /\ stage' = "admit" /\ deferred = <<>>
         \/ stage = "admit" /\ stage' = "rollout"
         \/ stage = "rollout" /\ stage' = "reclaim"
         \/ stage = "reclaim" /\ stage' = "learn" /\ plan = NoPlan /\ completed = <<>>
         \/ stage = "learn" /\ stage' \in {"settle", "save"}
         \/ stage = "settle" /\ stage' = "save"
         \/ stage = "weights" /\ stage' = "validate"
  BY OnePlanWaits DEF Drained, BeginRollout, GenerationReturns, BeginLearning, SkipTopUp,
     Validate, SettleFinal, Goto, Fail
<1>1. TypeOK'
  BY <1>0 DEF TypeOK, Stages
<1>2. WorkMatchesQuota' /\ OnlyWholeQuotasServed'
  BY <1>0 DEF WorkMatchesQuota, OnlyWholeQuotasServed
<1>3. SingleFlight'
  BY <1>0 DEF SingleFlight, Waiting
<1>4. PlanFitsDebt'
  BY <1>0 DEF PlanFitsDebt
<1>5. StillPublishable'
  BY <1>0 DEF StillPublishable, ThisPlan, WorkerStep
<1>6. OwnedByItsStep' /\ ServedIsRepaid' /\ LastStepClosed'
  BY <1>0 DEF OwnedByItsStep, ServedIsRepaid, LastStepClosed, TypeOK, Steps
<1>. QED BY <1>1, <1>2, <1>3, <1>4, <1>5, <1>6

(* So do the steps that end the run with an exception, which keep          *)
(* everything or drop what was under way.                                  *)
LEMMA FailInv ==
  ASSUME QuotaInv, stage # "done",
         UNCHANGED <<step, quotaVars, writer, initialized, worked, completed, served, saveVars>>,
         stage' = "failed", error' \in Errors,
         \/ UNCHANGED <<deferred, staged>>
         \/ deferred' = <<>> /\ staged' = NoStage
         \/ UNCHANGED deferred /\ staged' = NoStage,
         plan' = NoPlan
  PROVE  QuotaInv'
<1>. USE DEF QuotaInv, quotaVars, saveVars
<1>1. TypeOK'
  BY OnePlanWaits DEF TypeOK, Stages
<1>2. WorkMatchesQuota' /\ OnlyWholeQuotasServed'
  BY StepsAssumption DEF WorkMatchesQuota, OnlyWholeQuotasServed, TypeOK, NoStage
<1>3. SingleFlight'
  BY OnePlanWaits DEF SingleFlight, Waiting, TypeOK
<1>4. PlanFitsDebt' /\ StillPublishable' /\ OwnedByItsStep' /\ ServedIsRepaid' /\ LastStepClosed'
  BY DEF PlanFitsDebt, StillPublishable, ThisPlan, OwnedByItsStep, ServedIsRepaid, LastStepClosed
<1>. QED BY <1>1, <1>2, <1>3, <1>4

(* A publication moves from the queue to the staging, or from either to    *)
(* the rollouts.                                                           *)
LEMMA PublishInv ==
  ASSUME QuotaInv, KeepRest, PublishNext \/ Acknowledge,
         stage \notin {"rollout", "reclaim", "learn"},
         stage' = stage \/ (stage = "poll" /\ stage' = "drain")
  PROVE  QuotaInv'
<1>. USE DEF QuotaInv, trainVars, saveVars
<1>0. /\ claim # 0 /\ debt = 0 /\ completed = <<>>
      /\ deferred' = <<>>
      /\ \/ staged' = NoStage
         \/ staged' = [step |-> step, steps |-> worked]
      /\ \/ served' = served /\ claim' = claim
         \/ served' = worked /\ claim' = 0 /\ staged' = NoStage
  BY OnePlanWaits DEF PublishNext, Acknowledge, Released, Outstanding, ServedIsRepaid
<1>1. TypeOK'
  BY <1>0, OnePlanWaits DEF TypeOK, KeepRest, Stages, Stagings
<1>2. WorkMatchesQuota'
  BY DEF WorkMatchesQuota, KeepRest
<1>3. OnlyWholeQuotasServed'
  <2>1. worked = quotas * TargetSteps /\ quotas \in 0..quotas
    BY <1>0, StepsAssumption DEF TypeOK, WorkMatchesQuota
  <2>2. \E q \in 0..quotas : served' = q * TargetSteps
    BY <1>0, <2>1 DEF OnlyWholeQuotasServed
  <2>3. \E q \in 0..quotas : staged'.steps = q * TargetSteps
    <3>1. CASE staged' = NoStage
      BY <3>1, StepsAssumption DEF NoStage, TypeOK
    <3>2. CASE staged' = [step |-> step, steps |-> worked]
      BY <3>2, <2>1
    <3>. QED BY <1>0, <3>1, <3>2
  <2>. QED BY <2>2, <2>3 DEF OnlyWholeQuotasServed, KeepRest
<1>4. SingleFlight'
  BY <1>0, OnePlanWaits DEF SingleFlight, Waiting, KeepRest, PublishNext, Acknowledge
<1>5. PlanFitsDebt' /\ StillPublishable'
  BY <1>0 DEF PlanFitsDebt, StillPublishable, KeepRest
<1>6. OwnedByItsStep'
  BY <1>0, OnePlanWaits DEF OwnedByItsStep, KeepRest, TypeOK, Steps
<1>7. ServedIsRepaid' /\ LastStepClosed'
  BY <1>0 DEF ServedIsRepaid, LastStepClosed, KeepRest
<1>. QED BY <1>1, <1>2, <1>3, <1>4, <1>5, <1>6, <1>7

(* A collection registers the next quota.                                  *)
LEMMA CycleStepType == TypeOK => CycleStep \in Nat \ {0}
<1>. SUFFICES ASSUME TypeOK PROVE CycleStep \in Nat \ {0}
  OBVIOUS
<1>1. step \in Nat \ {0} /\ cycle \in Nat /\ TrainInterval \in Nat
  BY StepsAssumption, IntervalsAssumption DEF TypeOK, Steps
<1>2. ASSUME TrainInterval > 0
      PROVE  ((step - 1) \div TrainInterval + 1) * TrainInterval \in Nat \ {0}
  <2>1. (step - 1) \div TrainInterval \in Nat
    BY <1>1, <1>2
  <2>2. \A m, n \in Nat \ {0} : m * n \in Nat \ {0}
    OBVIOUS
  <2>. QED BY <1>1, <1>2, <2>1, <2>2
<1>. QED BY <1>1, <1>2 DEF CycleStep

LEMMA CollectInv == QuotaInv /\ Collect => QuotaInv'
<1>. SUFFICES ASSUME QuotaInv, Collect PROVE QuotaInv'
  OBVIOUS
<1>. USE DEF QuotaInv, quotaVars, trainVars, saveVars, publishVars, loopVars
<1>0. stage \in {"rollout", "learn"} /\ ~Blocked
  BY DEF Collect
<1>1. CASE claim \notin {0, step}
  BY <1>0, <1>1 DEF Blocked
<1>2. CASE claim \in {0, step} /\ (step <= registered \/ debt > 0)
  <2>1. UNCHANGED <<debt, registered, cycle, oldest, version, quotas>> /\ claim' = step
    BY <1>2 DEF Collect, Register
  <2>2. claim = step
    BY <1>0, <1>2 DEF OwnedByItsStep, SingleFlight, TypeOK, Steps
  <2>3. UNCHANGED vars
    BY <1>2, <2>1, <2>2 DEF Collect, vars
  <2>. QED BY <2>3 DEF vars, TypeOK, WorkMatchesQuota, OnlyWholeQuotasServed, SingleFlight, Waiting,
       PlanFitsDebt, StillPublishable, WorkerStep, ThisPlan, OwnedByItsStep, ServedIsRepaid,
       LastStepClosed
<1>3. CASE claim \in {0, step} /\ ~(step <= registered \/ debt > 0)
  <2>1. /\ debt' = TargetSteps /\ registered' = step /\ claim' = step
        /\ cycle' = CycleStep /\ oldest' = CycleStep /\ version' = step
        /\ quotas' = quotas + 1
        /\ UNCHANGED <<loopVars, trainVars, publishVars, saveVars>>
    BY <1>3 DEF Collect, Register
  <2>2. claim = 0 /\ debt = 0
    BY <1>3 DEF OwnedByItsStep, TypeOK, Steps
  <2>3. completed = <<>> /\ deferred = <<>> /\ staged = NoStage /\ plan = NoPlan
    BY <2>2, OnePlanWaits DEF PlanFitsDebt, Outstanding
  <2>4. TypeOK'
    BY <2>1, CycleStepType, StepsAssumption DEF TypeOK, Steps
  <2>5. WorkMatchesQuota'
    <3>1. (quotas + 1) * TargetSteps = quotas * TargetSteps + TargetSteps
      BY StepsAssumption DEF TypeOK
    <3>. QED BY <2>1, <2>2, <3>1, StepsAssumption DEF WorkMatchesQuota, TypeOK
  <2>6. OnlyWholeQuotasServed'
    BY <2>1 DEF OnlyWholeQuotasServed, TypeOK
  <2>7. SingleFlight'
    BY <2>1, <2>3, CycleStepType, OnePlanWaits DEF SingleFlight, Waiting, TypeOK, Steps
  <2>8. PlanFitsDebt' /\ StillPublishable'
    BY <2>1, <2>3 DEF PlanFitsDebt, StillPublishable
  <2>9. OwnedByItsStep'
    BY <1>0, <2>1 DEF OwnedByItsStep, TypeOK, Steps
  <2>10. ServedIsRepaid' /\ LastStepClosed'
    BY <1>0, <2>1, <2>3 DEF ServedIsRepaid, LastStepClosed, TypeOK, Steps
  <2>. QED BY <2>4, <2>5, <2>6, <2>7, <2>8, <2>9, <2>10
<1>. QED BY <1>1, <1>2, <1>3

(* The launch of an idle plan.                                             *)
LEMMA LaunchInv == QuotaInv /\ LaunchIdle => QuotaInv'
<1>. SUFFICES ASSUME QuotaInv, LaunchIdle PROVE QuotaInv'
  OBVIOUS
<1>. USE DEF QuotaInv, quotaVars, saveVars, publishVars, loopVars
<1>1. PICK batches \in 1..debt : plan' = [batches |-> batches, publish |-> batches = debt]
  BY DEF LaunchIdle, IdleBudget
<1>2. stage = "rollout" /\ debt > 0
      /\ UNCHANGED <<loopVars, quotaVars, writer, initialized, worked, publishVars, saveVars>>
  BY DEF LaunchIdle
<1>3. plan' \in Plans
  BY <1>1, <1>2, StepsAssumption DEF Plans, TypeOK
<1>4. TypeOK'
  BY <1>2, <1>3 DEF TypeOK
<1>5. WorkMatchesQuota' /\ OnlyWholeQuotasServed' /\ SingleFlight'
  BY <1>2 DEF WorkMatchesQuota, OnlyWholeQuotasServed, SingleFlight, Waiting
<1>6. PlanFitsDebt'
  <2>1. plan'.batches = batches /\ (plan'.publish <=> batches = debt)
    BY <1>1, Zenon
  <2>2. batches <= debt
    BY DEF TypeOK
  <2>. QED BY <1>2, <2>1, <2>2 DEF PlanFitsDebt
<1>7. StillPublishable' /\ OwnedByItsStep' /\ ServedIsRepaid' /\ LastStepClosed'
  BY <1>2 DEF StillPublishable, WorkerStep, ThisPlan, OwnedByItsStep, ServedIsRepaid, LastStepClosed
<1>. QED BY <1>4, <1>5, <1>6, <1>7

(* Booking k steps, of no more than the debt, keeps the count of the work. *)
LEMMA RepayFacts ==
  ASSUME QuotaInv, debt > 0, NEW k \in 0..debt, Repay(k)
  PROVE  /\ debt' = debt - k /\ debt' \in 0..TargetSteps
         /\ worked' = worked + k /\ worked' \in Nat
         /\ oldest' \in {0, oldest} /\ version' \in {0, version}
         /\ debt' > 0 => oldest' = oldest
         /\ UNCHANGED <<claim, registered, cycle, quotas>>
         /\ worked' + debt' = quotas * TargetSteps
<1>1. k \in Nat /\ debt \in Nat /\ k <= debt /\ worked \in Nat
  BY DEF QuotaInv, TypeOK
<1>2. debt' = debt - k /\ worked' = worked + k
  BY <1>1 DEF Repay
<1>3. worked' + debt' = worked + debt
  BY <1>1, <1>2
<1>4. debt' > 0 => oldest' = oldest
  BY DEF Repay
<1>. QED BY <1>1, <1>2, <1>3, <1>4, StepsAssumption DEF QuotaInv, TypeOK, WorkMatchesQuota, Repay

(* The end of an idle plan: a plan that completed the quota is queued, in  *)
(* the rollout for the reclaim, in the reclaim for the next boundary.      *)
LEMMA PlanEndsInv ==
  ASSUME QuotaInv, NEW k \in 0..plan.batches, PlanEnds(k),
         stage \in {"rollout", "reclaim"},
         \/ UNCHANGED <<completed, deferred>>
         \/ /\ plan.publish /\ debt' = 0
            /\ \/ completed' = Append(completed, ThisPlan) /\ UNCHANGED deferred
               \/ stage = "reclaim" /\ deferred' = Append(deferred, ThisPlan) /\ UNCHANGED completed
  PROVE  QuotaInv'
<1>. USE DEF QuotaInv, saveVars, loopVars
<1>1. debt > 0 /\ k \in 0..debt /\ plan' = NoPlan
      /\ Repay(k) /\ UNCHANGED <<loopVars, staged, served, saveVars>>
      /\ writer' \in BOOLEAN /\ initialized' \in BOOLEAN
  BY DEF PlanEnds, PlanFitsDebt, TypeOK, Plans
<1>2. /\ debt' \in 0..TargetSteps /\ worked' \in Nat
      /\ oldest' \in {0, oldest} /\ version' \in {0, version}
      /\ debt' > 0 => oldest' = oldest
      /\ UNCHANGED <<claim, registered, cycle, quotas>>
      /\ worked' + debt' = quotas * TargetSteps
  BY <1>1, RepayFacts
<1>3. completed = <<>> /\ deferred = <<>> /\ staged = NoStage /\ claim # 0
  BY <1>1, OnePlanWaits DEF Outstanding, SingleFlight
<1>4. ThisPlan \in Publications /\ ThisPlan.bubble /\ ThisPlan.step = step
  BY DEF ThisPlan, Publications, TypeOK
<1>5. /\ completed' \in Seq(Publications) /\ deferred' \in Seq(Publications)
      /\ \/ completed' = <<>> /\ deferred' = <<>>
         \/ /\ debt' = 0 /\ Len(completed') = 1 /\ completed'[1] = ThisPlan /\ deferred' = <<>>
         \/ /\ debt' = 0 /\ Len(deferred') = 1 /\ deferred'[1] = ThisPlan /\ completed' = <<>>
            /\ stage = "reclaim"
  BY <1>3, <1>4, AppendToEmpty DEF TypeOK
<1>6. TypeOK'
  <2>1. step' \in Steps /\ stage' \in Stages /\ error' \in Errors
    BY <1>1 DEF TypeOK
  <2>2. {claim, registered, version, requested, saved}' \subseteq {0} \union Steps
    <3>1. {claim, registered, version, requested, saved} \subseteq {0} \union Steps
      BY DEF TypeOK
    <3>2. UNCHANGED <<claim, registered, requested, saved>> /\ version' \in {0, version}
      BY <1>1, <1>2
    <3>. QED BY <3>1, <3>2
  <2>3. {cycle, oldest, quotas, worked, served}' \subseteq Nat
    <3>1. {cycle, oldest, quotas, worked, served} \subseteq Nat
      BY DEF TypeOK
    <3>2. UNCHANGED <<cycle, quotas, served>> /\ oldest' \in {0, oldest} /\ worked' \in Nat
      BY <1>1, <1>2
    <3>. QED BY <3>1, <3>2
  <2>4. staged' \in Stagings \union {NoStage} /\ plan' \in Plans \union {NoPlan}
    BY <1>1 DEF TypeOK
  <2>. QED BY <1>1, <1>2, <1>5, <2>1, <2>2, <2>3, <2>4 DEF TypeOK
<1>7. WorkMatchesQuota' /\ OnlyWholeQuotasServed'
  BY <1>1, <1>2 DEF WorkMatchesQuota, OnlyWholeQuotasServed
<1>8. SingleFlight'
  <2>1. Waiting' = Len(completed') + Len(deferred')
    <3>1. Len(completed') \in Nat /\ Len(deferred') \in Nat
      BY <1>5, LenProperties
    <3>. QED BY <1>1, <1>3, <3>1 DEF Waiting
  <2>2. Len(<<>>) = 0
    BY OnePlanWaits
  <2>3. Waiting' \in {0, 1} /\ (Waiting' = 1 => debt' = 0)
    <3>1. CASE completed' = <<>> /\ deferred' = <<>>
      <4>. Waiting' = 0
        BY <2>1, <2>2, <3>1
      <4>. QED OBVIOUS
    <3>2. CASE debt' = 0 /\ Len(completed') = 1 /\ deferred' = <<>>
      <4>. Waiting' = 1
        BY <2>1, <2>2, <3>2
      <4>. QED BY <3>2
    <3>3. CASE debt' = 0 /\ Len(deferred') = 1 /\ completed' = <<>>
      <4>. Waiting' = 1
        BY <2>1, <2>2, <3>3
      <4>. QED BY <3>3
    <3>. QED BY <1>5, <3>1, <3>2, <3>3
  <2>4. claim' # 0 /\ (debt' > 0 => oldest' # 0)
    BY <1>1, <1>2, <1>3 DEF SingleFlight
  <2>. QED BY <2>3, <2>4 DEF SingleFlight
<1>9. PlanFitsDebt'
  BY <1>1 DEF PlanFitsDebt
<1>10. StillPublishable'
  BY <1>1, <1>4, <1>5 DEF StillPublishable, WorkerStep, ThisPlan
<1>11. OwnedByItsStep' /\ ServedIsRepaid' /\ LastStepClosed'
  BY <1>1, <1>2, <1>3 DEF OwnedByItsStep, ServedIsRepaid, LastStepClosed
<1>. QED BY <1>6, <1>7, <1>8, <1>9, <1>10, <1>11

(* In the rollout or at its reclaim, a plan that reports k steps and is to *)
(* be published has repaid the quota exactly when k is all its batches.    *)
LEMMA FinalPlanRepays ==
  ASSUME QuotaInv, NEW k \in 0..plan.batches, PlanEnds(k)
  PROVE  plan.publish => (debt' = 0 <=> k = plan.batches)
<1>1. debt > 0 /\ plan.batches <= debt /\ (plan.publish <=> plan.batches = debt)
  BY DEF QuotaInv, PlanEnds, PlanFitsDebt
<1>2. k \in 0..debt /\ Repay(k) /\ plan.batches \in Nat
  BY <1>1 DEF PlanEnds, QuotaInv, TypeOK, Plans
<1>3. debt' = debt - k
  BY <1>1, <1>2, RepayFacts
<1>4. debt \in Nat
  BY DEF QuotaInv, TypeOK
<1>. QED BY <1>1, <1>2, <1>3, <1>4

LEMMA FinishIdleInv == QuotaInv /\ FinishIdle => QuotaInv'
<1>. SUFFICES ASSUME QuotaInv, FinishIdle PROVE QuotaInv'
  OBVIOUS
<1>1. PICK k \in 0..plan.batches :
        /\ PlanEnds(k)
        /\ completed' = IF plan.publish /\ k = plan.batches
                        THEN Append(completed, ThisPlan) ELSE completed
  BY DEF FinishIdle
<1>2. stage = "rollout" /\ UNCHANGED deferred
  BY DEF FinishIdle
<1>. QED BY <1>1, <1>2, FinalPlanRepays, PlanEndsInv

LEMMA ReclaimIdleInv == QuotaInv /\ ReclaimIdle => QuotaInv'
<1>. SUFFICES ASSUME QuotaInv, ReclaimIdle PROVE QuotaInv'
  OBVIOUS
<1>1. PICK k \in 0..plan.batches :
        /\ PlanEnds(k)
        /\ IF plan.publish /\ k > 0 THEN Defer(ThisPlan, debt') ELSE UNCHANGED deferred
  BY DEF ReclaimIdle
<1>2. stage = "reclaim" /\ UNCHANGED completed
  BY DEF ReclaimIdle
<1>3. deferred' # deferred => plan.publish /\ debt' = 0 /\ deferred' = Append(deferred, ThisPlan)
  BY <1>1 DEF Defer, Publishable, ThisPlan
<1>. QED BY <1>1, <1>2, <1>3, PlanEndsInv

(* The reclaim hands the completed plan of the event loop to the boundary. *)
LEMMA FlushInv == QuotaInv /\ FlushCompleted => QuotaInv'
<1>. SUFFICES ASSUME QuotaInv, FlushCompleted PROVE QuotaInv'
  OBVIOUS
<1>. USE DEF QuotaInv, loopVars, quotaVars, trainVars, saveVars
<1>1. /\ stage = "reclaim" /\ plan = NoPlan /\ completed # <<>>
      /\ Defer(Head(completed), debt) /\ completed' = Tail(completed)
      /\ UNCHANGED <<loopVars, quotaVars, trainVars, staged, served, saveVars>>
  BY DEF FlushCompleted
<1>2. /\ completed' = <<>> /\ deferred = <<>> /\ staged = NoStage
      /\ claim # 0 /\ debt = 0 /\ Head(completed) = ThisPlan
  BY <1>1, OnePlanWaits DEF StillPublishable
<1>3. ThisPlan \in Publications /\ ThisPlan.bubble /\ ThisPlan.step = step
  BY DEF ThisPlan, Publications, TypeOK
<1>4. deferred' \in Seq(Publications) /\ Len(deferred') <= 1 /\ Len(deferred') \in Nat
      /\ (deferred' # <<>> => deferred'[1] = ThisPlan)
  BY <1>1, <1>2, <1>3, AppendToEmpty, OnePlanWaits DEF Defer, TypeOK
<1>5. TypeOK'
  BY <1>1, <1>2, <1>4, OnePlanWaits DEF TypeOK
<1>6. WorkMatchesQuota' /\ OnlyWholeQuotasServed'
  BY <1>1 DEF WorkMatchesQuota, OnlyWholeQuotasServed
<1>7. SingleFlight'
  BY <1>1, <1>2, <1>4, OnePlanWaits DEF SingleFlight, Waiting
<1>8. PlanFitsDebt' /\ StillPublishable'
  BY <1>1, <1>2, <1>3, <1>4 DEF PlanFitsDebt, StillPublishable, WorkerStep
<1>9. OwnedByItsStep' /\ ServedIsRepaid' /\ LastStepClosed'
  BY <1>1 DEF OwnedByItsStep, ServedIsRepaid, LastStepClosed
<1>. QED BY <1>5, <1>6, <1>7, <1>8, <1>9

(* A blocking top-up books its steps, of no more than the debt, and queues *)
(* its plan only if it completed the quota.                                *)
LEMMA BlockingInv ==
  ASSUME QuotaInv, NEW k \in 0..debt, BlockingTraining(k), stage = "learn", debt > 0,
         writer' \in BOOLEAN, initialized' \in BOOLEAN,
         NEW p \in Publications, p.step = step, p.bubble \/ OneCollective,
         \/ UNCHANGED deferred
         \/ debt' = 0 /\ deferred' = Append(deferred, p)
  PROVE  QuotaInv'
<1>. USE DEF QuotaInv, saveVars
<1>1. /\ stage' \in {"settle", "save"} /\ Repay(k)
      /\ UNCHANGED <<step, error, plan, completed, staged, served, saveVars>>
  BY DEF BlockingTraining
<1>2. /\ debt' \in 0..TargetSteps /\ worked' \in Nat
      /\ oldest' \in {0, oldest} /\ version' \in {0, version}
      /\ debt' > 0 => oldest' = oldest
      /\ UNCHANGED <<claim, registered, cycle, quotas>>
      /\ worked' + debt' = quotas * TargetSteps
  BY <1>1, RepayFacts
<1>3. completed = <<>> /\ deferred = <<>> /\ staged = NoStage /\ claim # 0 /\ plan = NoPlan
  BY <1>1, OnePlanWaits DEF Outstanding, SingleFlight, PlanFitsDebt
<1>4. /\ deferred' \in Seq(Publications)
      /\ \/ deferred' = <<>>
         \/ debt' = 0 /\ Len(deferred') = 1 /\ deferred'[1] = p
  BY <1>3, AppendToEmpty DEF TypeOK
<1>5. TypeOK'
  <2>1. step' \in Steps /\ stage' \in Stages /\ error' \in Errors
    BY <1>1 DEF TypeOK, Stages
  <2>2. {claim, registered, version, requested, saved}' \subseteq {0} \union Steps
    <3>1. {claim, registered, version, requested, saved} \subseteq {0} \union Steps
      BY DEF TypeOK
    <3>2. UNCHANGED <<claim, registered, requested, saved>> /\ version' \in {0, version}
      BY <1>1, <1>2
    <3>. QED BY <3>1, <3>2
  <2>3. {cycle, oldest, quotas, worked, served}' \subseteq Nat
    <3>1. {cycle, oldest, quotas, worked, served} \subseteq Nat
      BY DEF TypeOK
    <3>2. UNCHANGED <<cycle, quotas, served>> /\ oldest' \in {0, oldest} /\ worked' \in Nat
      BY <1>1, <1>2
    <3>. QED BY <3>1, <3>2
  <2>4. staged' \in Stagings \union {NoStage} /\ plan' \in Plans \union {NoPlan}
    BY <1>1 DEF TypeOK
  <2>5. completed' \in Seq(Publications)
    BY <1>1 DEF TypeOK
  <2>. QED BY <1>2, <1>4, <2>1, <2>2, <2>3, <2>4, <2>5 DEF TypeOK
<1>6. WorkMatchesQuota' /\ OnlyWholeQuotasServed'
  BY <1>1, <1>2 DEF WorkMatchesQuota, OnlyWholeQuotasServed
<1>7. SingleFlight'
  <2>1. Waiting' \in {0, 1} /\ (Waiting' = 1 => debt' = 0)
    BY <1>1, <1>3, <1>4, OnePlanWaits DEF Waiting
  <2>2. claim' # 0 /\ (debt' > 0 => oldest' # 0)
    BY <1>2, <1>3 DEF SingleFlight
  <2>. QED BY <2>1, <2>2 DEF SingleFlight
<1>8. PlanFitsDebt' /\ StillPublishable'
  BY <1>1, <1>3, <1>4 DEF PlanFitsDebt, StillPublishable, WorkerStep
<1>9. OwnedByItsStep' /\ ServedIsRepaid' /\ LastStepClosed'
  BY <1>1, <1>2, <1>3 DEF OwnedByItsStep, ServedIsRepaid, LastStepClosed
<1>. QED BY <1>5, <1>6, <1>7, <1>8, <1>9

LEMMA TopUpInv == QuotaInv /\ TopUp => QuotaInv'
<1>. SUFFICES ASSUME QuotaInv, TopUp PROVE QuotaInv'
  OBVIOUS
<1>1. debt \in Nat /\ MaxSyncTopup \in Nat
  BY LimitsAssumption DEF QuotaInv, TypeOK
<1>2. /\ ThisPlan \in Publications /\ ThisPlan.step = step /\ ThisPlan.bubble
      /\ [bubble |-> FALSE, step |-> step] \in Publications
  BY DEF ThisPlan, Publications, QuotaInv, TypeOK
<1>3. CASE SoftTopUp
  <2>1. PICK k \in 0..debt : k > 0 /\ BlockingTraining(k)
    BY <1>1, <1>3 DEF SoftTopUp, TopUpAllowed
  <2>2. /\ stage = "learn" /\ debt > 0 /\ UNCHANGED deferred
        /\ writer' \in BOOLEAN /\ initialized' \in BOOLEAN
    BY <1>3 DEF SoftTopUp, TopUpAllowed
  <2>. QED BY <1>2, <2>1, <2>2, BlockingInv
<1>4. CASE WriterTopUp
  <2>1. /\ stage = "learn" /\ debt > 0 /\ BlockingTraining(debt)
        /\ writer' \in BOOLEAN /\ initialized' \in BOOLEAN /\ Defer(ThisPlan, debt')
    BY <1>4 DEF WriterTopUp, TopUpAllowed
  <2>2. deferred' # deferred => debt' = 0 /\ deferred' = Append(deferred, ThisPlan)
    BY <1>2, <2>1 DEF Defer, Publishable
  <2>. QED BY <1>1, <1>2, <2>1, <2>2, BlockingInv
<1>5. CASE CollectiveTopUp
  <2>1. /\ stage = "learn" /\ debt > 0 /\ BlockingTraining(debt) /\ OneCollective
        /\ writer' \in BOOLEAN /\ initialized' \in BOOLEAN
        /\ Defer([bubble |-> FALSE, step |-> step], debt')
    BY <1>5 DEF CollectiveTopUp, TopUpAllowed
  <2>2. debt' = 0
    BY <1>1, <2>1 DEF BlockingTraining, Repay
  <2>3. deferred' # deferred => deferred' = Append(deferred, [bubble |-> FALSE, step |-> step])
    BY <2>1 DEF Defer
  <2>4. [bubble |-> FALSE, step |-> step].step = step
    OBVIOUS
  <2>. QED BY <1>1, <1>2, <2>1, <2>2, <2>3, <2>4, BlockingInv
<1>6. CASE TopUpFails
  <2>1. /\ stage = "learn" /\ stage' = "failed" /\ error' \in Errors
        /\ UNCHANGED <<step, quotaVars, trainVars, publishVars, saveVars>>
    BY <1>6 DEF TopUpFails, TopUpAllowed, Fail, Errors
  <2>2. plan = NoPlan
    BY <2>1 DEF QuotaInv, PlanFitsDebt
  <2>. QED BY <2>1, <2>2, FailInv DEF trainVars, publishVars
<1>. QED BY <1>3, <1>4, <1>5, <1>6 DEF TopUp

(* The end of a step.                                                      *)
LEMMA SaveInv == QuotaInv /\ Save => QuotaInv'
<1>. SUFFICES ASSUME QuotaInv, Save PROVE QuotaInv'
  OBVIOUS
<1>1. stage = "save" /\ UNCHANGED <<step, quotaVars, trainVars, publishVars>>
  BY DEF Save
<1>2. plan = NoPlan
  BY <1>1 DEF QuotaInv, PlanFitsDebt
<1>3. CASE SavePending /\ SaveDue /\ step = LastStep
  <2>1. stage' = "failed" /\ error' \in Errors /\ UNCHANGED saveVars
    BY <1>3 DEF Save, Fail, Errors
  <2>. QED BY <1>1, <1>2, <2>1, FailInv DEF trainVars, publishVars
<1>4. CASE ~(SavePending /\ SaveDue /\ step = LastStep)
  <2>. USE DEF QuotaInv, quotaVars, trainVars, publishVars
  <2>1. /\ stage' = "weights" /\ UNCHANGED error
        /\ requested' \in {0, step, requested} /\ saved' \in {step, saved}
        /\ step = LastStep => claim = 0 /\ saved' = LastStep
    BY <1>4 DEF Save, SaveDue, SavePending
  <2>2. TypeOK'
    BY <1>1, <2>1 DEF TypeOK, Stages
  <2>3. WorkMatchesQuota' /\ OnlyWholeQuotasServed' /\ SingleFlight'
    BY <1>1 DEF WorkMatchesQuota, OnlyWholeQuotasServed, SingleFlight, Waiting
  <2>4. PlanFitsDebt' /\ StillPublishable'
    BY <1>1, <1>2, <2>1 DEF PlanFitsDebt, StillPublishable, WorkerStep
  <2>5. OwnedByItsStep' /\ ServedIsRepaid' /\ LastStepClosed'
    BY <1>1, <2>1 DEF OwnedByItsStep, ServedIsRepaid, LastStepClosed
  <2>. QED BY <2>2, <2>3, <2>4, <2>5
<1>. QED BY <1>3, <1>4

LEMMA NextStepInv == QuotaInv /\ NextStep => QuotaInv'
<1>. SUFFICES ASSUME QuotaInv, NextStep PROVE QuotaInv'
  OBVIOUS
<1>. USE DEF QuotaInv, quotaVars, trainVars, publishVars, saveVars
<1>1. /\ stage \in {"weights", "validate"}
      /\ \/ step = LastStep /\ stage' = "done" /\ step' = step
         \/ step # LastStep /\ stage' = "poll" /\ step' = step + 1
      /\ UNCHANGED <<error, quotaVars, trainVars, publishVars, saveVars>>
  BY DEF NextStep
<1>2. step \in Nat /\ LastStep \in Nat /\ 1 <= step /\ step <= LastStep
  BY StepsAssumption DEF TypeOK, Steps
<1>3. step' \in Steps /\ step <= step'
  BY <1>1, <1>2 DEF Steps
<1>4. TypeOK'
  BY <1>1, <1>3 DEF TypeOK, Stages
<1>5. WorkMatchesQuota' /\ OnlyWholeQuotasServed' /\ SingleFlight'
  BY <1>1 DEF WorkMatchesQuota, OnlyWholeQuotasServed, SingleFlight, Waiting
<1>6. PlanFitsDebt'
  BY <1>1 DEF PlanFitsDebt
<1>7. StillPublishable'
  BY <1>1, <1>2 DEF StillPublishable, WorkerStep
<1>8. OwnedByItsStep'
  BY <1>1, <1>2 DEF OwnedByItsStep, TypeOK, Steps
<1>9. ServedIsRepaid' /\ LastStepClosed'
  BY <1>1, <1>2 DEF ServedIsRepaid, LastStepClosed
<1>. QED BY <1>4, <1>5, <1>6, <1>7, <1>8, <1>9

(* A step of the publication boundary.                                     *)
LEMMA BoundaryInv == QuotaInv /\ Boundary => QuotaInv'
<1>. SUFFICES ASSUME QuotaInv, Boundary PROVE QuotaInv'
  OBVIOUS
<1>1. CASE PollPublication
  <2>1. CASE Acknowledge
    BY <1>1, <2>1, PublishInv DEF PollPublication
  <2>2. CASE UNCHANGED <<deferred, staged, served, claim>>
    <3>. USE DEF QuotaInv, trainVars, saveVars
    <3>1. /\ stage = "poll" /\ stage' = "drain" /\ KeepRest
          /\ UNCHANGED <<deferred, staged, served, claim>>
      BY <1>1, <2>2 DEF PollPublication
    <3>2. TypeOK'
      BY <3>1 DEF TypeOK, KeepRest, Stages
    <3>3. WorkMatchesQuota' /\ OnlyWholeQuotasServed' /\ SingleFlight'
      BY <3>1 DEF WorkMatchesQuota, OnlyWholeQuotasServed, SingleFlight, Waiting, KeepRest
    <3>4. PlanFitsDebt' /\ StillPublishable'
      BY <3>1 DEF PlanFitsDebt, StillPublishable, WorkerStep, KeepRest
    <3>5. OwnedByItsStep' /\ ServedIsRepaid' /\ LastStepClosed'
      BY <3>1 DEF OwnedByItsStep, ServedIsRepaid, LastStepClosed, KeepRest
    <3>. QED BY <3>2, <3>3, <3>4, <3>5
  <2>. QED BY <1>1, <2>1, <2>2 DEF PollPublication
<1>2. CASE PublishDeferred
  BY <1>2, PublishInv DEF PublishDeferred, MustSettle
<1>3. CASE AwaitPublication
  BY <1>3, PublishInv DEF AwaitPublication, MustSettle
<1>4. CASE PublicationFails
  <2>1. /\ stage \in {"poll", "drain", "weights", "admit", "settle", "validate"}
        /\ stage' = "failed" /\ error' \in Errors /\ staged' = NoStage
        /\ UNCHANGED <<step, quotaVars, trainVars, completed, served, saveVars>>
    BY <1>4 DEF PublicationFails, MustSettle, Fail, Errors
  <2>2. deferred' = deferred \/ deferred' = <<>>
    <3>1. deferred = <<>> => staged # NoStage
      BY <1>4 DEF PublicationFails, MustSettle, Outstanding
    <3>2. deferred # <<>> => Tail(deferred) = <<>>
      BY OnePlanWaits DEF QuotaInv
    <3>. QED BY <1>4, <3>1, <3>2 DEF PublicationFails
  <2>3. plan = NoPlan
    BY <2>1 DEF QuotaInv, PlanFitsDebt
  <2>. QED BY <2>1, <2>2, <2>3, FailInv DEF trainVars
<1>5. CASE Drained \/ BeginRollout
  BY <1>5, GotoInv
<1>. QED BY <1>1, <1>2, <1>3, <1>4, <1>5 DEF Boundary

(* A step of the learning phase.                                           *)
LEMMA LearningInv == QuotaInv /\ Learning => QuotaInv'
<1>. SUFFICES ASSUME QuotaInv, Learning PROVE QuotaInv'
  OBVIOUS
<1>1. CASE IdleTrainingFails
  <2>1. /\ stage \in {"rollout", "reclaim"} /\ plan' = NoPlan
        /\ stage' = "failed" /\ error' \in Errors
        /\ UNCHANGED <<step, quotaVars, writer, initialized, worked, publishVars, saveVars>>
    BY <1>1 DEF IdleTrainingFails, Fail, Errors
  <2>. QED BY <2>1, FailInv DEF publishVars
<1>. QED BY <1>1, GotoInv, ReclaimIdleInv, FlushInv, TopUpInv DEF Learning

(* A step of the end of the training step.                                 *)
LEMMA EndOfStepInv == QuotaInv /\ EndOfStep => QuotaInv'
<1>. SUFFICES ASSUME QuotaInv, EndOfStep PROVE QuotaInv'
  OBVIOUS
<1>1. CASE SettleFinal /\ stage' = "failed"
  <2>1. /\ stage = "settle" /\ error' \in Errors
        /\ UNCHANGED <<step, quotaVars, trainVars, publishVars, saveVars>>
    BY <1>1 DEF SettleFinal, Fail, Errors, Goto
  <2>2. plan = NoPlan
    BY <2>1 DEF QuotaInv, PlanFitsDebt
  <2>. QED BY <1>1, <2>1, <2>2, FailInv DEF trainVars, publishVars
<1>. QED BY <1>1, GotoInv, SaveInv, NextStepInv DEF EndOfStep

LEMMA NextInv == QuotaInv /\ [Next]_vars => QuotaInv'
<1>. SUFFICES ASSUME QuotaInv, [Next]_vars PROVE QuotaInv'
  OBVIOUS
<1>1. CASE UNCHANGED vars
  BY <1>1 DEF vars, loopVars, quotaVars, trainVars, publishVars, saveVars,
     QuotaInv, TypeOK, WorkMatchesQuota, OnlyWholeQuotasServed, SingleFlight, Waiting,
     PlanFitsDebt, StillPublishable, WorkerStep, ThisPlan, OwnedByItsStep, ServedIsRepaid,
     LastStepClosed
<1>. QED BY <1>1, BoundaryInv, CollectInv, LaunchInv, FinishIdleInv, LearningInv, EndOfStepInv
     DEF Next, IdleLoop

-----------------------------------------------------------------------------
(* The theorems.                                                           *)

(* Whatever the intervals, limits and switches, and whatever the rollouts  *)
(* leave for training, the inductive invariant of the quota holds.         *)
THEOREM QuotaInvariant == Spec => []QuotaInv
  BY InitInv, NextInv, PTL DEF Spec

(* The scheduler never loses or repeats an optimizer step of a quota: what *)
(* it booked and what it owes are the quotas it registered.                *)
THEOREM QuotaConserved == Spec => []WorkMatchesQuota
<1>1. QuotaInv => WorkMatchesQuota
  BY DEF QuotaInv
<1>. QED BY <1>1, QuotaInvariant, PTL

(* The rollouts are only ever served, and only ever sent, a drafter that   *)
(* has finished every quota it began.                                      *)
THEOREM ServesWholeQuotas == Spec => []OnlyWholeQuotasServed
<1>1. QuotaInv => OnlyWholeQuotasServed
  BY DEF QuotaInv
<1>. QED BY <1>1, QuotaInvariant, PTL

(* Nothing is owed, and everything trained is served, when a checkpoint is *)
(* taken.                                                                  *)
THEOREM CheckpointsWhole == Spec => CheckpointIsWhole
<1>1. ASSUME QuotaInv, Next, saved' # saved
      PROVE  served = quotas * TargetSteps
  <2>1. Save
    BY <1>1 DEF Next, Boundary, Collect, IdleLoop, LaunchIdle, FinishIdle, Learning, EndOfStep,
       PollPublication, PublishDeferred, AwaitPublication, PublicationFails, Drained,
       BeginRollout, KeepRest, Goto, GenerationReturns, ReclaimIdle, PlanEnds,
       IdleTrainingFails, FlushCompleted, BeginLearning, TopUp, SoftTopUp, WriterTopUp,
       CollectiveTopUp, BlockingTraining, TopUpFails, SkipTopUp, SettleFinal, Validate,
       NextStep, saveVars
  <2>2. debt = 0 /\ claim = 0
    BY <1>1, <2>1 DEF Save, SavePending, saveVars, QuotaInv, TypeOK
  <2>. QED BY <1>1, <2>2 DEF QuotaInv, ServedIsRepaid, WorkMatchesQuota, TypeOK
<1>2. QuotaInv /\ [Next]_vars => [saved' # saved => served = quotas * TargetSteps]_vars
  BY <1>1
<1>. QED BY <1>2, QuotaInvariant, PTL DEF Spec, CheckpointIsWhole

(* A run that comes to its end has published and saved all of its training.*)
THEOREM EndComplete == Spec => []EndIsComplete
<1>1. QuotaInv => EndIsComplete
  BY DEF QuotaInv, EndIsComplete, LastStepClosed, SingleFlight, ServedIsRepaid,
     WorkMatchesQuota, TypeOK
<1>. QED BY <1>1, QuotaInvariant, PTL

-----------------------------------------------------------------------------
(* The deadline.                                                           *)

(* A debt that is not overdue has a deadline that is still ahead.          *)
LEMMA NotOverdue ==
  ASSUME QuotaInv, debt > 0, ~Overdue
  PROVE  step < oldest + MaxCompletionLag
<1>1. step \in Nat /\ oldest \in Nat /\ MaxCompletionLag \in Nat /\ oldest # 0
  BY LimitsAssumption DEF QuotaInv, TypeOK, Steps, SingleFlight
<1>. QED BY <1>1 DEF Overdue, DeadlineReached, Age

(* A quota whose hard deadline has come is not left unfinished by the      *)
(* actor update, when blocking top-ups are on and their inputs there.      *)
THEOREM DeadlinesKept == Spec => []DeadlineKept
<1>1. Init => DeadlineKept
  BY DEF Init, DeadlineKept
<1>2. ASSUME QuotaInv, DeadlineKept, [Next]_vars PROVE DeadlineKept'
  <2>. SUFFICES ASSUME Fallback, step' \notin Unready, stage' = "save", debt' > 0
                PROVE  step' < oldest' + MaxCompletionLag
    BY DEF DeadlineKept
  <2>1. CASE UNCHANGED vars
    BY <1>2, <2>1 DEF DeadlineKept, vars, loopVars, quotaVars
  <2>2. debt > 0 => ~Outstanding
    BY <1>2, OnePlanWaits DEF QuotaInv, TypeOK
  <2>3. CASE SoftTopUp
    <3>1. debt > 0 /\ ~Overdue /\ step' = step
      BY <2>3 DEF SoftTopUp, TopUpAllowed, Forced, BlockingTraining
    <3>2. oldest' = oldest
      BY <2>3 DEF SoftTopUp, BlockingTraining, Repay
    <3>. QED BY <1>2, <3>1, <3>2, NotOverdue
  <2>4. CASE WriterTopUp \/ CollectiveTopUp
    BY <1>2, <2>4 DEF WriterTopUp, CollectiveTopUp, BlockingTraining, Repay, QuotaInv, TypeOK
  <2>5. CASE SkipTopUp
    <3>1. stage = "learn" /\ UNCHANGED <<step, debt, oldest>>
      BY <2>5 DEF SkipTopUp, Goto, quotaVars
    <3>2. ~Overdue
      BY <2>2, <2>5, <3>1 DEF SkipTopUp, TopUpAllowed, Forced
    <3>. QED BY <1>2, <3>1, <3>2, NotOverdue
  <2>6. CASE SettleFinal
    BY <2>6 DEF SettleFinal, Fail, Goto, quotaVars
  <2>. QED BY <1>2, <2>1, <2>3, <2>4, <2>5, <2>6 DEF Next, Boundary, Collect, IdleLoop, LaunchIdle,
       FinishIdle, Learning, EndOfStep, PollPublication, PublishDeferred, AwaitPublication,
       PublicationFails, Drained, BeginRollout, MustSettle, Fail, Goto, GenerationReturns,
       ReclaimIdle, PlanEnds, IdleTrainingFails, FlushCompleted, BeginLearning, TopUp,
       TopUpFails, TopUpAllowed, Save, Validate, NextStep, loopVars
<1>. QED BY <1>1, <1>2, QuotaInvariant, PTL DEF Spec

-----------------------------------------------------------------------------
(* Where the publish interval never holds back a full-collective top-up.   *)

(* The publication of a repaid quota is always accepted when its turn      *)
(* comes.                                                                  *)
LEMMA NextIsPublishable ==
  ASSUME NothingSkipped, QuotaInv, stage # "failed", NEW p \in Publications,
         p.bubble \/ OneCollective
  PROVE  Publishable(p, 0)
<1>1. CASE p.bubble
  BY <1>1 DEF Publishable
<1>2. CASE ~p.bubble
  <2>1. PublishInterval \in {0, 1} /\ step \in Nat
    BY <1>2 DEF NothingSkipped, QuotaInv, TypeOK, Steps
  <2>2. step % 1 = 0
    BY <2>1
  <2>. QED BY <1>2, <2>1, <2>2 DEF Publishable, PublishIntervalMatched, Every
<1>. QED BY <1>1, <1>2

(* Publishing leaves the quota staged, or released.                        *)
LEMMA PublishKeepsUnderWay ==
  ASSUME NothingSkipped, QuotaInv, stage # "failed", PublishNext \/ Acknowledge
  PROVE  claim' = 0 \/ staged' # NoStage
<1>1. debt = 0
  BY OnePlanWaits DEF QuotaInv, PublishNext, Acknowledge, Outstanding
<1>2. CASE Acknowledge
  BY <1>1, <1>2 DEF Acknowledge, Released
<1>3. CASE PublishNext
  <2>1. deferred # <<>> /\ deferred[1] \in Publications /\ Head(deferred) = deferred[1]
    BY <1>3, OnePlanWaits DEF QuotaInv, PublishNext
  <2>2. deferred[1].step = WorkerStep /\ (deferred[1].bubble \/ OneCollective)
    BY <2>1 DEF QuotaInv, StillPublishable
  <2>3. Publishable(deferred[1], 0)
    BY <2>1, <2>2, NextIsPublishable
  <2>4. [step |-> step, steps |-> worked] # NoStage
    BY DEF NoStage, QuotaInv, TypeOK, Steps
  <2>. QED BY <1>1, <1>3, <2>1, <2>2, <2>3, <2>4 DEF PublishNext, Released
<1>. QED BY <1>2, <1>3

(* Neither does any other step lose a repaid quota's publication.          *)
LEMMA StrandedStep ==
  ASSUME NothingSkipped, QuotaInv, NeverStranded, [Next]_vars
  PROVE  NeverStranded'
<1>. SUFFICES ASSUME claim' # 0, debt' = 0, stage' # "failed"
              PROVE  completed' # <<>> \/ Outstanding'
  BY DEF NeverStranded
<1>. USE DEF loopVars, quotaVars, trainVars, publishVars, saveVars
<1>1. ASSUME UNCHANGED <<debt, claim, completed, deferred, staged>>, stage # "failed"
      PROVE  completed' # <<>> \/ Outstanding'
  BY <1>1 DEF NeverStranded, Outstanding
<1>2. ASSUME NEW p \in Publications, p.bubble \/ OneCollective, Defer(p, 0)
      PROVE  deferred' # <<>>
  <2>1. Publishable(p, 0)
    <3>1. CASE p.bubble
      BY <3>1 DEF Publishable
    <3>2. CASE stage # "failed"
      BY <1>2, <3>2, NextIsPublishable
    <3>3. CASE ~p.bubble /\ stage = "failed"
      BY <3>3 DEF Next, Boundary, Collect, IdleLoop, LaunchIdle, FinishIdle, Learning, EndOfStep,
         PollPublication, PublishDeferred, AwaitPublication, PublicationFails, Drained,
         BeginRollout, MustSettle, Fail, Goto, GenerationReturns, ReclaimIdle,
         IdleTrainingFails, FlushCompleted, BeginLearning, TopUp, SoftTopUp, WriterTopUp,
         CollectiveTopUp, TopUpFails, TopUpAllowed, SkipTopUp, SettleFinal, Save, Validate,
         NextStep, vars
    <3>. QED BY <3>1, <3>2, <3>3
  <2>2. deferred' = Append(deferred, p) /\ deferred \in Seq(Publications)
    BY <1>2, <2>1 DEF Defer, QuotaInv, TypeOK
  <2>. QED BY <2>2, AppendProperties, EmptySeq
<1>3. /\ ThisPlan \in Publications /\ ThisPlan.bubble
      /\ [bubble |-> FALSE, step |-> step] \in Publications
  BY DEF ThisPlan, Publications, QuotaInv, TypeOK
<1>4. CASE UNCHANGED vars
  BY <1>1, <1>4 DEF vars
<1>5. CASE PollPublication \/ PublishDeferred \/ AwaitPublication
  <2>1. CASE PublishNext \/ Acknowledge
    BY <1>5, <2>1, PublishKeepsUnderWay
       DEF PollPublication, PublishDeferred, AwaitPublication, MustSettle, Outstanding
  <2>2. CASE PollPublication /\ UNCHANGED <<deferred, staged, claim>>
    BY <1>1, <2>2 DEF PollPublication, KeepRest
  <2>. QED BY <1>5, <2>1, <2>2 DEF PollPublication, PublishDeferred, AwaitPublication
<1>6. CASE Collect
  <2>1. claim \in {0, step} /\ claim' = step /\ Register /\ UNCHANGED <<publishVars, stage>>
    BY <1>6 DEF Collect, Fail
  <2>2. claim = 0 => step > registered /\ debt = 0
    BY <1>6 DEF Collect, QuotaInv, OwnedByItsStep, SingleFlight, TypeOK, Steps
  <2>3. CASE claim = 0
    BY <2>1, <2>2, <2>3, StepsAssumption DEF Register, QuotaInv, TypeOK, Steps
  <2>4. CASE claim # 0
    <3>1. claim = step /\ debt # 0
      BY <1>6, <2>1, <2>4 DEF Collect, Blocked
    <3>2. debt' # 0
      BY <2>1, <3>1, StepsAssumption DEF Register
    <3>. QED BY <3>2
  <2>. QED BY <2>3, <2>4
<1>7. CASE FinishIdle
  <2>1. PICK k \in 0..plan.batches :
          /\ PlanEnds(k)
          /\ completed' = IF plan.publish /\ k = plan.batches
                          THEN Append(completed, ThisPlan) ELSE completed
    BY <1>7 DEF FinishIdle
  <2>2. /\ debt > 0 /\ plan.batches <= debt /\ plan.batches \in Nat /\ debt \in Nat
        /\ (plan.publish <=> plan.batches = debt)
    BY <2>1 DEF PlanEnds, QuotaInv, PlanFitsDebt, TypeOK, Plans
  <2>3. debt' = debt - k
    BY <2>1, <2>2, RepayFacts DEF PlanEnds
  <2>4. k = plan.batches /\ plan.batches = debt
    BY <2>2, <2>3
  <2>5. plan.publish
    BY <2>2, <2>4
  <2>6. completed' = Append(completed, ThisPlan) /\ completed \in Seq(Publications)
    BY <2>1, <2>4, <2>5 DEF QuotaInv, TypeOK
  <2>. QED BY <1>3, <2>6, AppendProperties, EmptySeq
<1>8. CASE ReclaimIdle
  <2>1. PICK k \in 0..plan.batches :
          /\ PlanEnds(k)
          /\ IF plan.publish /\ k > 0 THEN Defer(ThisPlan, debt') ELSE UNCHANGED deferred
    BY <1>8 DEF ReclaimIdle
  <2>2. /\ debt > 0 /\ plan.batches <= debt /\ plan.batches \in Nat /\ debt \in Nat
        /\ (plan.publish <=> plan.batches = debt)
    BY <2>1 DEF PlanEnds, QuotaInv, PlanFitsDebt, TypeOK, Plans
  <2>3. debt' = debt - k
    BY <2>1, <2>2, RepayFacts DEF PlanEnds
  <2>4. k = plan.batches /\ plan.batches = debt /\ k > 0
    BY <2>2, <2>3
  <2>5. plan.publish
    BY <2>2, <2>4
  <2>. QED BY <1>2, <1>3, <2>1, <2>4, <2>5 DEF Outstanding
<1>9. CASE FlushCompleted
  <2>1. /\ debt = 0 /\ Head(completed) = ThisPlan
        /\ Defer(Head(completed), debt)
    BY <1>9, OnePlanWaits DEF FlushCompleted, QuotaInv, StillPublishable
  <2>. QED BY <1>2, <1>3, <2>1 DEF Outstanding
<1>10. CASE SoftTopUp
  <2>1. PICK k \in Nat : BlockingTraining(k) /\ k <= debt - 1
    BY <1>10, LimitsAssumption DEF SoftTopUp, TopUpAllowed, QuotaInv, TypeOK
  <2>2. debt > 0 /\ debt \in Nat
    BY <1>10 DEF SoftTopUp, TopUpAllowed, QuotaInv, TypeOK
  <2>3. Repay(k) /\ debt' = debt - k
    BY <2>1, <2>2 DEF BlockingTraining, Repay
  <2>4. debt' > 0
    BY <2>1, <2>2, <2>3
  <2>. QED BY <2>4
<1>11. CASE WriterTopUp
  BY <1>2, <1>3, <1>11 DEF WriterTopUp, Outstanding
<1>12. CASE CollectiveTopUp
  BY <1>2, <1>3, <1>12 DEF CollectiveTopUp, Outstanding
<1>13. QED
  BY <1>1, <1>4, <1>5, <1>6, <1>7, <1>8, <1>9, <1>10, <1>11, <1>12
     DEF Next, Boundary, IdleLoop, LaunchIdle, Learning, EndOfStep, PublicationFails,
         Drained, BeginRollout, Fail, Goto, GenerationReturns, IdleTrainingFails,
         BeginLearning, TopUp, TopUpFails, SkipTopUp, SettleFinal, Save, Validate, NextStep

(* Once its training is done, a quota is never left without a publication  *)
(* under way: collection cannot stay blocked by it forever.                *)
THEOREM NotStranded == Spec => [](NothingSkipped => NeverStranded)
<1>1. Init => NeverStranded
  BY DEF Init, NeverStranded
<1>2. QuotaInv /\ (NothingSkipped => NeverStranded) /\ [Next]_vars
        => (NothingSkipped => NeverStranded)'
  BY StrandedStep DEF NothingSkipped
<1>. QED BY <1>1, <1>2, QuotaInvariant, PTL DEF Spec

-----------------------------------------------------------------------------
(* The end of the run.                                                     *)

(* The last step reaches its checkpoint with nothing owed or claimed.      *)
LEMMA EndStep ==
  ASSUME NothingSkipped, QuotaInv, NeverStranded, EndInv, [Next]_vars
  PROVE  EndInv'
<1>. USE DEF loopVars, quotaVars, publishVars
<1>1. debt > 0 => ~Outstanding
  BY OnePlanWaits DEF QuotaInv, TypeOK
<1>2. CASE UNCHANGED vars
  BY <1>2 DEF EndInv, vars
<1>3. CASE SkipTopUp
  BY <1>1, <1>3 DEF SkipTopUp, Goto, EndInv, TopUpAllowed, Forced, QuotaInv, OwnedByItsStep
<1>4. CASE WriterTopUp \/ CollectiveTopUp
  BY <1>4 DEF WriterTopUp, CollectiveTopUp, BlockingTraining, Repay, EndInv, QuotaInv, TypeOK
<1>5. CASE SoftTopUp
  BY <1>5 DEF SoftTopUp, BlockingTraining, Forced, EndInv
<1>6. CASE SettleFinal
  <2>1. /\ stage = "settle" /\ UNCHANGED <<step, claim, debt>>
        /\ \/ stage' = "failed"
           \/ stage' = "save" /\ ~(debt > 0) /\ ~Outstanding
    BY <1>6 DEF SettleFinal, Goto, Fail
  <2>2. completed = <<>>
    BY <2>1 DEF QuotaInv, StillPublishable
  <2>3. stage' = "save" => claim = 0
    BY <2>1, <2>2 DEF NeverStranded, QuotaInv, TypeOK
  <2>. QED BY <2>1, <2>3 DEF EndInv
<1>7. CASE PublishDeferred \/ AwaitPublication
  BY <1>7 DEF PublishDeferred, AwaitPublication, MustSettle, KeepRest, EndInv
<1>. QED BY <1>2, <1>3, <1>4, <1>5, <1>6, <1>7
     DEF EndInv, Next, Boundary, Collect, IdleLoop, LaunchIdle,
         FinishIdle, Learning, EndOfStep, PollPublication, PublicationFails, Drained,
         BeginRollout, Fail, Goto, GenerationReturns, ReclaimIdle, PlanEnds, IdleTrainingFails,
         FlushCompleted, BeginLearning, TopUp, TopUpFails, Save, Validate, NextStep

(* The internal checks raise nothing: collections do not collide, and the  *)
(* final checkpoint does not meet a quota under way.                       *)
LEMMA ErrorStep ==
  ASSUME QuotaInv, EndInv, NoInternalError, [Next]_vars
  PROVE  NoInternalError'
<1>1. CASE Collect
  <2>1. claim \in {0, step}
    BY <1>1 DEF Collect, Blocked
  <2>. QED BY <1>1, <2>1 DEF Collect, NoInternalError, loopVars
<1>2. CASE Save
  <2>1. stage = "save" /\ step = LastStep => ~SavePending
    BY DEF EndInv, SavePending, QuotaInv, TypeOK, SingleFlight
  <2>. QED BY <1>2, <2>1 DEF Save, NoInternalError
<1>3. CASE SettleFinal
  BY <1>3 DEF SettleFinal, Goto, Fail, EndInv, NoInternalError
<1>4. CASE TopUpFails \/ PublicationFails \/ IdleTrainingFails
  BY <1>4 DEF TopUpFails, PublicationFails, IdleTrainingFails, Fail, NoInternalError
<1>5. CASE UNCHANGED error
  BY <1>5 DEF NoInternalError
<1>. QED BY <1>1, <1>2, <1>3, <1>4, <1>5
     DEF Next, Boundary, IdleLoop, LaunchIdle, FinishIdle, Learning, EndOfStep, PollPublication,
         PublishDeferred, AwaitPublication, Drained, BeginRollout, KeepRest, Goto,
         GenerationReturns, ReclaimIdle, PlanEnds, FlushCompleted, BeginLearning, TopUp,
         SoftTopUp, WriterTopUp, CollectiveTopUp, BlockingTraining, SkipTopUp, Validate,
         NextStep, loopVars, vars

(* The consistency checks of the scheduler and the trainer never raise,    *)
(* and with blocking top-ups that find their inputs every quota is repaid  *)
(* by the end of the run.                                                  *)
THEOREM NoInternalErrors == Spec => [](NothingSkipped => NoInternalError)
<1>1. Init => NeverStranded /\ EndInv /\ NoInternalError
  BY DEF Init, NeverStranded, EndInv, NoInternalError
<1>2. QuotaInv /\ (NothingSkipped => NeverStranded /\ EndInv /\ NoInternalError) /\ [Next]_vars
        => (NothingSkipped => NeverStranded /\ EndInv /\ NoInternalError)'
  BY StrandedStep, EndStep, ErrorStep DEF NothingSkipped
<1>. QED BY <1>1, <1>2, QuotaInvariant, PTL DEF Spec

(* The variables keep their types.                                         *)
THEOREM QuotaTypes == Spec => []TypeOK
<1>1. QuotaInv => TypeOK
  BY DEF QuotaInv
<1>. QED BY <1>1, QuotaInvariant, PTL

-----------------------------------------------------------------------------
(* A quota settles in bounded time                                         *)

(* A number lies before the end of its interval.                           *)
LEMMA IntervalEnds ==
  ASSUME NEW n \in Nat, NEW interval \in Nat \ {0}
  PROVE  n < (n \div interval + 1) * interval
  BY SMT

(* A quota is never due before the step that collects it.                  *)
LEMMA DueLater == TypeOK => CycleStep >= step
<1>. SUFFICES ASSUME TypeOK PROVE CycleStep >= step
  OBVIOUS
<1>1. step \in Nat \ {0} /\ cycle \in Nat /\ TrainInterval \in Nat
  BY StepsAssumption, IntervalsAssumption DEF TypeOK, Steps
<1>2. ASSUME TrainInterval > 0
      PROVE  ((step - 1) \div TrainInterval + 1) * TrainInterval >= step
  <2>1. step - 1 \in Nat /\ TrainInterval \in Nat \ {0}
    BY <1>1, <1>2
  <2>2. step - 1 < ((step - 1) \div TrainInterval + 1) * TrainInterval
    BY <2>1, IntervalEnds
  <2>3. ((step - 1) \div TrainInterval + 1) * TrainInterval \in Int
    BY <2>1
  <2>. QED BY <1>1, <2>2, <2>3
<1>3. CASE TrainInterval = 0
  BY <1>1, <1>3 DEF CycleStep
<1>4. CASE TrainInterval # 0
  <2>. DEFINE upcoming == ((step - 1) \div TrainInterval + 1) * TrainInterval
  <2>1. upcoming \in Int /\ upcoming >= step
    BY <1>1, <1>2, <1>4
  <2>2. CycleStep = IF upcoming <= cycle THEN cycle + TrainInterval ELSE upcoming
    BY <1>4 DEF CycleStep
  <2>. HIDE DEF upcoming
  <2>. QED BY <1>1, <2>1, <2>2
<1>. QED BY <1>3, <1>4

(* The numbers the bound is made of.                                       *)
LEMMA TimeTypes ==
  ASSUME TypeOK
  PROVE  /\ step \in Nat \ {0} /\ cycle \in Nat /\ oldest \in Nat /\ debt \in Nat
         /\ MaxCompletionLag \in Nat /\ MaxPublishLag \in Nat
         /\ Deadline \in Nat /\ Grace \in Nat \ {0} /\ MaxPublishLag <= Grace
         /\ staged # NoStage => staged.step \in Nat
<1>1. /\ step \in Nat \ {0} /\ cycle \in Nat /\ oldest \in Nat /\ debt \in Nat
      /\ MaxCompletionLag \in Nat /\ MaxPublishLag \in Nat
  BY StepsAssumption, LimitsAssumption DEF TypeOK, Steps
<1>2. Deadline \in Nat
  BY <1>1 DEF Deadline
<1>3. Grace \in Nat \ {0} /\ MaxPublishLag <= Grace
  BY <1>1 DEF Grace
<1>4. staged # NoStage => staged.step \in Nat
  BY StepsAssumption DEF TypeOK, Steps, Stagings
<1>. QED BY <1>1, <1>2, <1>3, <1>4

(* A step of the loop that stays within its training step keeps the bound, *)
(* if it moves past the top-up only before the deadline.                   *)
LEMMA SameStepInTime ==
  ASSUME QuotaInv, QuotaInv', RepaidInTime, PublishedInTime, SettledInTime,
         UNCHANGED <<step, debt, oldest, cycle, completed>>, deferred' \in {<<>>, deferred},
         claim' \in {0, claim}, staged' \in {NoStage, staged},
         \/ stage' = stage
         \/ stage' = "failed" /\ (stage = "poll" => staged' = NoStage)
         \/ /\ stage # "failed" /\ stage' # "poll"
            /\ stage = "poll" /\ staged' # NoStage => step < staged.step + MaxPublishLag
            /\ stage \in BeforeTopUp \/ stage' \notin BeforeTopUp
            /\ stage' \in BeforeTopUp \/ stage \notin BeforeTopUp
               \/ (debt > 0 => step < Deadline)
  PROVE  RepaidInTime' /\ PublishedInTime' /\ SettledInTime'
<1>. TypeOK
  BY DEF QuotaInv
<1>1. Deadline' = Deadline
  BY DEF Deadline
<1>2. RepaidInTime'
  BY <1>1, TimeTypes DEF RepaidInTime
<1>3. completed' # <<>> => step' <= Deadline'
  BY <1>1 DEF PublishedInTime
<1>4. deferred' # <<>> /\ stage' # "failed" => WorkerStep' <= Deadline'
  <2>. SUFFICES ASSUME deferred # <<>>, deferred' = deferred, stage' # "failed"
                PROVE  WorkerStep' <= Deadline
    BY <1>1
  <2>1. stage # "failed" => deferred[1].step = WorkerStep
    BY DEF QuotaInv, StillPublishable
  <2>2. deferred'[1].step = WorkerStep'
    BY DEF QuotaInv, StillPublishable
  <2>3. stage # "failed"
    OBVIOUS
  <2>. QED BY <2>1, <2>2, <2>3 DEF PublishedInTime
<1>5. staged' # NoStage =>
        /\ staged'.step <= Deadline' + 1
        /\ IF stage' = "poll" THEN step' <= staged'.step + Grace
           ELSE step' <= staged'.step \/ step' < staged'.step + MaxPublishLag
  BY <1>1, TimeTypes DEF PublishedInTime
<1>6. SettledInTime'
  BY <1>1 DEF SettledInTime, InputsComplete
<1>. QED BY <1>2, <1>3, <1>4, <1>5, <1>6 DEF PublishedInTime, Grace

(* A publication is staged one step after the deadline at the latest.      *)
LEMMA PublishInTime ==
  ASSUME QuotaInv, RepaidInTime, PublishedInTime, SettledInTime,
         PublishNext \/ Acknowledge, stage \notin {"poll", "failed"} \/ Acknowledge,
         stage # "failed", stage' = stage \/ stage' = "drain",
         UNCHANGED <<step, debt, oldest, cycle, completed>>
  PROVE  RepaidInTime' /\ PublishedInTime' /\ SettledInTime'
<1>. TypeOK
  BY DEF QuotaInv
<1>0. Deadline' = Deadline /\ Deadline \in Nat
  BY TimeTypes DEF Deadline
<1>1. debt = 0 /\ deferred' = <<>> /\ claim' \in {0, claim}
  BY OnePlanWaits DEF QuotaInv, PublishNext, Acknowledge, Released, Outstanding
<1>2. RepaidInTime'
  BY <1>1 DEF RepaidInTime
<1>3. SettledInTime'
  BY <1>0, <1>1 DEF SettledInTime, InputsComplete, Grace
<1>4. \/ staged' = NoStage
      \/ /\ staged' = [step |-> step, steps |-> worked]
         /\ deferred # <<>> /\ stage \notin {"poll", "failed"} /\ stage' # "poll"
  <2>1. CASE Acknowledge
    BY <2>1 DEF Acknowledge
  <2>2. CASE PublishNext /\ ~Acknowledge
    BY <2>2 DEF PublishNext
  <2>. QED BY <2>1, <2>2
<1>5. staged' # NoStage =>
        /\ staged'.step <= Deadline' + 1
        /\ stage' # "poll" /\ step' <= staged'.step
  <2>. SUFFICES ASSUME staged' # NoStage
                PROVE  step <= Deadline + 1
    BY <1>0, <1>4, TimeTypes
  <2>1. WorkerStep <= Deadline
    BY <1>4 DEF PublishedInTime
  <2>. QED BY <1>0, <2>1, TimeTypes DEF WorkerStep
<1>. QED BY <1>0, <1>1, <1>2, <1>3, <1>5 DEF PublishedInTime

(* A collection starts its quota before the deadline.                      *)
LEMMA CollectInTime ==
  ASSUME QuotaInv, RepaidInTime, PublishedInTime, SettledInTime, Collect
  PROVE  RepaidInTime' /\ PublishedInTime' /\ SettledInTime'
<1>. TypeOK
  BY DEF QuotaInv
<1>. USE DEF loopVars, quotaVars, trainVars, publishVars, saveVars
<1>0. stage \in {"rollout", "learn"} /\ ~Blocked
  BY DEF Collect
<1>1. claim \in {0, step} /\ claim' = step /\ Register
      /\ UNCHANGED <<loopVars, trainVars, publishVars, saveVars>>
  BY <1>0 DEF Collect, Blocked
<1>2. CASE step <= registered \/ debt > 0
  <2>1. UNCHANGED <<debt, registered, cycle, oldest, version, quotas>>
    BY <1>1, <1>2 DEF Register
  <2>2. claim = step
    BY <1>0, <1>1, <1>2 DEF QuotaInv, OwnedByItsStep, SingleFlight, TypeOK, Steps
  <2>. QED BY <1>1, <2>1, <2>2 DEF RepaidInTime, PublishedInTime, SettledInTime, WorkerStep, Deadline,
           Grace, InputsComplete
<1>3. CASE ~(step <= registered \/ debt > 0)
  <2>1. debt' = TargetSteps /\ cycle' = CycleStep /\ oldest' = CycleStep
    BY <1>1, <1>3 DEF Register
  <2>2. claim = 0 /\ debt = 0
    BY <1>1, <1>3 DEF QuotaInv, OwnedByItsStep, TypeOK, Steps
  <2>3. completed' = <<>> /\ deferred' = <<>> /\ staged' = NoStage
    BY <1>1, <2>2, OnePlanWaits DEF QuotaInv, Outstanding
  <2>4. CycleStep \in Nat /\ CycleStep >= step
    BY CycleStepType, DueLater
  <2>5. Deadline' = CycleStep + MaxCompletionLag
    BY <2>1 DEF Deadline
  <2>6. step' = step /\ step <= Deadline' /\ Deadline' \in Nat
    BY <1>1, <2>4, <2>5, TimeTypes
  <2>7. RepaidInTime'
    BY <1>0, <1>1, <2>1, <2>6 DEF RepaidInTime, BeforeTopUp
  <2>8. PublishedInTime'
    BY <2>3 DEF PublishedInTime
  <2>9. SettledInTime'
    BY <2>6, TimeTypes DEF SettledInTime, Grace
  <2>. QED BY <2>7, <2>8, <2>9
<1>. QED BY <1>2, <1>3

(* Training that is booked before the deadline queues its plan before it.  *)
LEMMA RepayInTime ==
  ASSUME QuotaInv, QuotaInv', RepaidInTime, PublishedInTime, SettledInTime,
         NEW k \in 0..debt, Repay(k), debt > 0, stage \in BeforeTopUp \ {"poll", "drain", "admit"},
         UNCHANGED <<step, staged>>, stage' \notin {"poll", "drain", "admit"},
         stage' \in BeforeTopUp \/ debt' = 0 \/ step < Deadline
  PROVE  RepaidInTime' /\ PublishedInTime' /\ SettledInTime'
<1>. TypeOK
  BY DEF QuotaInv
<1>1. debt' > 0 => oldest' = oldest
  BY RepayFacts
<1>2. UNCHANGED <<claim, cycle>>
  BY DEF Repay
<1>3. Deadline' = Deadline /\ Deadline \in Nat
  BY <1>2, TimeTypes DEF Deadline
<1>4. oldest = cycle /\ step <= Deadline
  BY DEF RepaidInTime, BeforeTopUp
<1>5. RepaidInTime'
  BY <1>1, <1>2, <1>3, <1>4, RepayFacts, TimeTypes DEF RepaidInTime
<1>6. staged = NoStage
  BY OnePlanWaits DEF QuotaInv, Outstanding
<1>7. WorkerStep' = step
  BY DEF WorkerStep
<1>8. PublishedInTime'
  BY <1>3, <1>4, <1>6, <1>7 DEF PublishedInTime
<1>9. SettledInTime'
  BY <1>2, <1>3 DEF SettledInTime, InputsComplete, Grace
<1>. QED BY <1>5, <1>8, <1>9

(* What remains deferred or staged at the end of a step is due in the next *)
(* one.                                                                    *)
LEMMA NextStepInTime ==
  ASSUME InputsComplete, QuotaInv, QuotaInv', NeverStranded, RepaidInTime, PublishedInTime,
         SettledInTime, NextStep
  PROVE  RepaidInTime' /\ PublishedInTime' /\ SettledInTime'
<1>. TypeOK
  BY DEF QuotaInv
<1>. USE DEF quotaVars, trainVars, publishVars, saveVars
<1>0. /\ stage \in {"weights", "validate"}
      /\ \/ stage' = "done" /\ step' = step
         \/ stage' = "poll" /\ step' = step + 1
      /\ UNCHANGED <<quotaVars, trainVars, publishVars, saveVars>>
  BY DEF NextStep
<1>1. Deadline' = Deadline /\ Deadline \in Nat /\ step \in Nat
  BY <1>0, TimeTypes DEF Deadline
<1>2. debt > 0 => oldest = cycle /\ step < Deadline
  BY <1>0 DEF RepaidInTime, BeforeTopUp
<1>3. RepaidInTime'
  BY <1>0, <1>1, <1>2 DEF RepaidInTime, BeforeTopUp
<1>4. completed = <<>>
  BY <1>0 DEF QuotaInv, StillPublishable
<1>5. deferred # <<>> => step <= Deadline /\ WorkerStep' <= Deadline
  <2>1. WorkerStep = step /\ WorkerStep' = step
    BY <1>0, <1>1 DEF WorkerStep
  <2>. QED BY <1>0, <2>1 DEF PublishedInTime
<1>6. staged # NoStage =>
        /\ staged.step \in Nat /\ staged.step <= Deadline + 1
        /\ step <= staged.step \/ step < staged.step + MaxPublishLag
        /\ step + 1 <= staged.step + Grace
  BY <1>0, <1>1, TimeTypes DEF PublishedInTime
<1>7. PublishedInTime'
  BY <1>0, <1>1, <1>4, <1>5, <1>6 DEF PublishedInTime, Grace
<1>8. claim # 0 => step + 1 <= Deadline + 1 + Grace
  <2>. SUFFICES ASSUME claim # 0 PROVE step + 1 <= Deadline + 1 + Grace
    OBVIOUS
  <2>1. CASE debt > 0
    BY <1>1, <1>2, <2>1, TimeTypes
  <2>2. CASE debt = 0
    <3>1. deferred # <<>> \/ staged # NoStage
      BY <1>0, <1>4, <2>2 DEF NeverStranded, Outstanding
    <3>. QED BY <1>1, <1>5, <1>6, <3>1, TimeTypes
  <2>. QED BY <2>1, <2>2, TimeTypes
<1>9. SettledInTime'
  BY <1>0, <1>1, <1>8, TimeTypes DEF SettledInTime, Grace
<1>. QED BY <1>3, <1>7, <1>9

(* No other step moves a quota past its time.                              *)
LEMMA BoundaryInTime ==
  ASSUME QuotaInv, QuotaInv', RepaidInTime, PublishedInTime, SettledInTime, Boundary
  PROVE  RepaidInTime' /\ PublishedInTime' /\ SettledInTime'
<1>. USE DEF quotaVars, publishVars
<1>1. CASE PollPublication
  <2>1. CASE Acknowledge
    BY <1>1, <2>1, PublishInTime DEF PollPublication, KeepRest
  <2>2. CASE UNCHANGED <<deferred, staged, served, claim>>
             /\ (staged # NoStage => step - staged.step < MaxPublishLag)
    <3>1. /\ stage = "poll" /\ stage' = "drain"
          /\ UNCHANGED <<step, debt, oldest, cycle, completed, deferred, claim, staged>>
      BY <1>1, <2>2 DEF PollPublication, KeepRest
    <3>2. staged # NoStage => step < staged.step + MaxPublishLag
      BY <2>2, TimeTypes DEF QuotaInv
    <3>. QED BY <3>1, <3>2, SameStepInTime DEF BeforeTopUp
  <2>. QED BY <1>1, <2>1, <2>2 DEF PollPublication
<1>2. CASE PublishDeferred \/ AwaitPublication
  BY <1>2, PublishInTime DEF PublishDeferred, AwaitPublication, MustSettle, KeepRest
<1>3. CASE PublicationFails
  <2>1. /\ stage' = "failed" /\ staged' = NoStage
        /\ UNCHANGED <<step, debt, oldest, cycle, completed, claim>>
    BY <1>3 DEF PublicationFails, Fail
  <2>2. deferred' \in {<<>>, deferred}
    <3>1. deferred = <<>> => staged # NoStage
      BY <1>3 DEF PublicationFails, MustSettle, Outstanding
    <3>2. deferred # <<>> => Tail(deferred) = <<>>
      BY OnePlanWaits DEF QuotaInv
    <3>. QED BY <1>3, <3>1, <3>2 DEF PublicationFails
  <2>. QED BY <2>1, <2>2, SameStepInTime
<1>4. CASE Drained \/ BeginRollout
  BY <1>4, SameStepInTime DEF Drained, BeginRollout, Goto, BeforeTopUp
<1>. QED BY <1>1, <1>2, <1>3, <1>4 DEF Boundary

LEMMA IdleInTime ==
  ASSUME QuotaInv, QuotaInv', RepaidInTime, PublishedInTime, SettledInTime,
         LaunchIdle \/ FinishIdle \/ ReclaimIdle \/ FlushCompleted
  PROVE  RepaidInTime' /\ PublishedInTime' /\ SettledInTime'
<1>. TypeOK
  BY DEF QuotaInv
<1>. USE DEF loopVars, quotaVars, trainVars, publishVars
<1>1. CASE LaunchIdle
  BY <1>1, SameStepInTime DEF LaunchIdle
<1>2. CASE FinishIdle \/ ReclaimIdle
  <2>1. PICK k \in 0..plan.batches : PlanEnds(k)
    BY <1>2 DEF FinishIdle, ReclaimIdle
  <2>2. /\ plan # NoPlan /\ Repay(k)
        /\ UNCHANGED <<step, stage, staged>>
    BY <2>1 DEF PlanEnds
  <2>3. debt > 0 /\ plan.batches <= debt /\ plan.batches \in Nat /\ debt \in Nat
    <3>1. debt > 0 /\ plan.batches <= debt
      BY <2>2 DEF QuotaInv, PlanFitsDebt
    <3>2. plan \in Plans /\ debt \in Nat
      BY <2>2, TimeTypes DEF TypeOK
    <3>3. plan.batches \in Nat
      BY <3>2, StepsAssumption DEF Plans
    <3>. QED BY <3>1, <3>2, <3>3
  <2>4. k \in 0..debt
    BY <2>3
  <2>5. stage \in {"rollout", "reclaim"}
    BY <1>2 DEF FinishIdle, ReclaimIdle
  <2>. QED BY <2>2, <2>3, <2>4, <2>5, RepayInTime DEF BeforeTopUp
<1>3. CASE FlushCompleted
  <2>1. /\ stage = "reclaim" /\ completed # <<>> /\ completed' = Tail(completed)
        /\ UNCHANGED <<loopVars, quotaVars, staged>>
    BY <1>3 DEF FlushCompleted
  <2>2. completed' = <<>> /\ staged = NoStage /\ debt = 0
    BY <2>1, OnePlanWaits DEF QuotaInv
  <2>3. Deadline' = Deadline /\ WorkerStep' = step /\ step <= Deadline
    BY <2>1 DEF Deadline, WorkerStep, PublishedInTime
  <2>. QED BY <2>1, <2>2, <2>3 DEF RepaidInTime, PublishedInTime, SettledInTime, InputsComplete, Grace
<1>. QED BY <1>1, <1>2, <1>3

LEMMA TopUpInTime ==
  ASSUME InputsComplete, QuotaInv, QuotaInv', RepaidInTime, PublishedInTime, SettledInTime,
         TopUp \/ SkipTopUp
  PROVE  RepaidInTime' /\ PublishedInTime' /\ SettledInTime'
<1>. TypeOK
  BY DEF QuotaInv
<1>. USE DEF loopVars, quotaVars, trainVars, publishVars
<1>1. debt > 0 /\ ~Overdue /\ stage = "learn" => step < Deadline
  BY NotOverdue DEF RepaidInTime, Deadline
<1>2. debt \in Nat /\ MaxSyncTopup \in Nat
  BY LimitsAssumption, TimeTypes
<1>3. CASE SoftTopUp
  <2>1. PICK k \in 0..debt : k > 0 /\ BlockingTraining(k)
    BY <1>2, <1>3 DEF SoftTopUp, TopUpAllowed
  <2>2. debt > 0 /\ stage = "learn" /\ step < Deadline
    BY <1>1, <1>3 DEF SoftTopUp, TopUpAllowed, Forced
  <2>3. Repay(k) /\ UNCHANGED <<step, staged>> /\ stage' \in {"settle", "save"}
    BY <2>1 DEF BlockingTraining
  <2>. QED BY <2>2, <2>3, RepayInTime DEF BeforeTopUp
<1>4. CASE WriterTopUp \/ CollectiveTopUp
  <2>1. debt > 0 /\ stage = "learn" /\ BlockingTraining(debt)
    BY <1>4 DEF WriterTopUp, CollectiveTopUp, TopUpAllowed
  <2>2. /\ Repay(debt) /\ UNCHANGED <<step, staged>> /\ stage' \in {"settle", "save"}
        /\ debt \in 0..debt
    BY <1>2, <2>1 DEF BlockingTraining
  <2>3. debt' = 0
    BY <1>2, <2>2 DEF Repay
  <2>. QED BY <2>1, <2>2, <2>3, RepayInTime DEF BeforeTopUp
<1>5. CASE TopUpFails
  <2>1. stage = "learn" /\ stage' = "failed"
    BY <1>5 DEF TopUpFails, TopUpAllowed, Fail
  <2>. QED BY <1>5, <2>1, SameStepInTime DEF TopUpFails
<1>6. CASE SkipTopUp
  <2>1. /\ stage = "learn" /\ stage' \in {"settle", "save"}
        /\ UNCHANGED <<step, quotaVars, publishVars>>
    BY <1>6 DEF SkipTopUp, Goto
  <2>2. debt > 0 => ~Overdue
    <3>1. debt > 0 => ~Outstanding
      BY <1>2, OnePlanWaits DEF QuotaInv
    <3>2. step \notin Unready /\ Fallback
      BY DEF InputsComplete, TypeOK
    <3>. QED BY <1>6, <3>1, <3>2 DEF SkipTopUp, TopUpAllowed, Forced
  <2>. QED BY <1>1, <2>1, <2>2, SameStepInTime DEF BeforeTopUp
<1>. QED BY <1>3, <1>4, <1>5, <1>6 DEF TopUp

LEMMA OthersInTime ==
  ASSUME QuotaInv, QuotaInv', RepaidInTime, PublishedInTime, SettledInTime,
         \/ GenerationReturns \/ IdleTrainingFails \/ BeginLearning
         \/ SettleFinal \/ Save \/ Validate
  PROVE  RepaidInTime' /\ PublishedInTime' /\ SettledInTime'
<1>1. /\ UNCHANGED <<step, quotaVars, publishVars>>
      /\ \/ stage # "poll" /\ stage' = "failed"
         \/ stage = "rollout" /\ stage' = "reclaim"
         \/ stage = "reclaim" /\ stage' = "learn"
         \/ stage = "settle" /\ stage' = "save"
         \/ stage = "save" /\ stage' = "weights"
         \/ stage = "weights" /\ stage' = "validate"
  BY DEF GenerationReturns, IdleTrainingFails, BeginLearning, SettleFinal, Save, Validate, Goto,
     Fail
<1>. QED BY <1>1, SameStepInTime DEF quotaVars, publishVars, BeforeTopUp

(* With blocking top-ups that find their inputs, a quota is trained,       *)
(* published and released by a fixed number of steps after it was due,     *)
(* however little the rollouts leave for training, or the run has failed.  *)
THEOREM QuotasSettleInTime == Spec => []SettledInTime
<1>1. Init => InTimeInv
  BY EmptySeq DEF Init, InTimeInv, RepaidInTime, PublishedInTime, SettledInTime
<1>2. ASSUME QuotaInv, NothingSkipped => NeverStranded, InTimeInv, [Next]_vars
      PROVE  InTimeInv'
  <2>1. QuotaInv'
    BY <1>2, NextInv
  <2>2. InputsComplete' = InputsComplete
    BY DEF InputsComplete, NothingSkipped
  <2>3. ASSUME InputsComplete
        PROVE  RepaidInTime' /\ PublishedInTime' /\ SettledInTime'
    <3>1. RepaidInTime /\ PublishedInTime /\ SettledInTime /\ NeverStranded
      BY <1>2, <2>3 DEF InTimeInv, InputsComplete
    <3>2. CASE UNCHANGED vars
      BY <1>2, <2>1, <3>1, <3>2, SameStepInTime
         DEF vars, loopVars, quotaVars, publishVars
    <3>3. CASE NextStep
      BY <1>2, <2>1, <2>3, <3>1, <3>3, NextStepInTime
    <3>. QED BY <1>2, <2>1, <2>3, <3>1, <3>2, <3>3, BoundaryInTime, CollectInTime, IdleInTime,
             TopUpInTime, OthersInTime DEF Next, IdleLoop, Learning, EndOfStep
  <2>. QED BY <2>2, <2>3 DEF InTimeInv
<1>3. InTimeInv => SettledInTime
  BY DEF InTimeInv, SettledInTime
<1>. QED BY <1>1, <1>2, <1>3, QuotaInvariant, NotStranded, PTL DEF Spec
=============================================================================
