--------------------------- MODULE QuotaProperties ---------------------------
(***************************************************************************)
(* Correctness of the training quota.                                      *)
(***************************************************************************)
EXTENDS TrainingQuota

(* No optimizer step is lost and none is done twice: what the scheduler    *)
(* has trained and what it still owes are the quotas it registered.        *)
WorkMatchesQuota == worked + debt = quotas * TargetSteps

(* The rollouts only ever get weights trained for whole quotas: a drafter  *)
(* in the middle of its quota is neither staged nor served.                *)
OnlyWholeQuotasServed ==
  /\ \E q \in 0..quotas : served = q * TargetSteps
  /\ \E q \in 0..quotas : staged.steps = q * TargetSteps

(* A repaid quota that still blocks collection has its publication under   *)
(* way: otherwise no collection and no idle training would happen again.   *)
NeverStranded ==
  claim # 0 /\ debt = 0 /\ stage # "failed" => completed # <<>> \/ Outstanding

(* The scheduler's and the trainer's own consistency errors do not occur:  *)
(* no collection meets another one's claim, the final checkpoint never     *)
(* meets an unfinished quota, and the last quota stays incomplete only if  *)
(* blocking top-ups are off or their data or head is missing.              *)
NoInternalError ==
  /\ error \notin {"collision", "checkpoint"}
  /\ error = "final quota" => ~Fallback \/ LastStep \in Unready

(* With blocking top-ups, a quota that has reached its hard deadline does  *)
(* not survive the actor update of a step whose top-up has its inputs.     *)
DeadlineKept ==
  Fallback /\ step \notin Unready /\ stage = "save" /\ debt > 0 =>
     step < oldest + MaxCompletionLag

(* A checkpoint is taken only when all the training owed for the data      *)
(* collected so far is done and served by the rollouts.                    *)
CheckpointIsWhole ==
  [][saved' # saved => served = quotas * TargetSteps]_vars

(* A run that reaches its end serves, and has saved, all of its training.  *)
EndIsComplete ==
  stage = "done" =>
     /\ claim = 0
     /\ served = quotas * TargetSteps
     /\ saved = LastStep

(* Every collection's quota is eventually trained, published and released, *)
(* unless the run stops because training or publication failed, its inputs *)
(* are missing, or no idle window came up and blocking top-ups are off.    *)
QuotaSettles ==
  \A s \in Steps :
     claim = s ~> \/ claim # s
                  \/ error \in {"training", "publication", "inputs", "final quota"}

-----------------------------------------------------------------------------
(* The argument for the safety properties: QuotaInv is inductive; with     *)
(* NothingSkipped so are NeverStranded and, with it, EndInv.               *)

Waiting == Len(completed) + Len(deferred) + (IF staged = NoStage THEN 0 ELSE 1)

(* Publication is single-flight, of a claimed quota that owes nothing.     *)
SingleFlight ==
  /\ Waiting <= 1
  /\ Waiting > 0 => claim # 0 /\ debt = 0
  /\ debt > 0 => claim # 0 /\ oldest # 0

(* A plan in execution can repay the debt, never exceed it, and publishes  *)
(* if and only if it repays it all.                                        *)
PlanFitsDebt ==
  plan # NoPlan =>
     /\ stage \in {"rollout", "reclaim"}
     /\ debt > 0 /\ plan.batches <= debt
     /\ plan.publish <=> plan.batches = debt

(* A finished plan waits only inside the rollout; a deferred one can still *)
(* be published whenever it is its turn.                                   *)
StillPublishable ==
  /\ completed # <<>> =>
        stage \in {"rollout", "reclaim", "failed"} /\ completed[1] = ThisPlan
  /\ deferred # <<>> /\ stage # "failed" =>
        /\ deferred[1].step = WorkerStep
        /\ ~deferred[1].bubble => OneCollective
        /\ stage \notin {"admit", "rollout"}

(* The quota belongs to the step that collected, and is registered once.   *)
OwnedByItsStep ==
  /\ registered <= step
  /\ claim # 0 => claim = registered
  /\ stage \in {"poll", "drain", "admit"} => registered < step
  /\ stage \in {"rollout", "reclaim", "learn"} /\ registered = step => claim = step

(* What the rollouts serve, and will serve after the publication, is the   *)
(* training of whole quotas.                                               *)
ServedIsRepaid ==
  /\ claim = 0 => served = worked
  /\ staged # NoStage => staged.steps = worked

(* The last step goes on only with everything published and saved.         *)
LastStepClosed ==
  /\ stage = "done" => step = LastStep
  /\ step = LastStep /\ stage \in {"weights", "validate", "done"} =>
        claim = 0 /\ saved = LastStep

QuotaInv ==
  /\ TypeOK
  /\ WorkMatchesQuota
  /\ OnlyWholeQuotasServed
  /\ SingleFlight
  /\ PlanFitsDebt
  /\ StillPublishable
  /\ OwnedByItsStep
  /\ ServedIsRepaid
  /\ LastStepClosed

(* The full-collective top-up is the one whose publication also waits for  *)
(* the publish interval.                                                   *)
NothingSkipped == OneCollective => PublishInterval \in {0, 1}

(* The final settlement leaves nothing for the final checkpoint to find.   *)
EndInv ==
  /\ stage = "settle" => step = LastStep
  /\ stage = "settle" /\ debt > 0 => ~Fallback \/ LastStep \in Unready
  /\ stage = "save" /\ step = LastStep => claim = 0
-----------------------------------------------------------------------------
(* A quota settles in bounded time, where blocking top-ups are on and      *)
(* never lack their inputs: no step of the training loop begins later than *)
(* the quota's hard deadline, one step in which its publication is staged, *)
(* and the lag that a staged publication may have.  A run that fails stops *)
(* before.                                                                 *)
InputsComplete == Fallback /\ NothingSkipped /\ \A s \in Steps : s \notin Unready

Deadline == cycle + MaxCompletionLag
Grace == IF MaxPublishLag = 0 THEN 1 ELSE MaxPublishLag

SettledInTime == InputsComplete /\ claim # 0 => step <= Deadline + 1 + Grace

(* The argument: training is done by the deadline, ...                     *)
BeforeTopUp == {"poll", "drain", "admit", "rollout", "reclaim", "learn"}
RepaidInTime ==
  debt > 0 =>
    /\ oldest = cycle
    /\ stage # "failed" => /\ step <= Deadline
                           /\ stage \notin BeforeTopUp => step < Deadline

(* ... its publication is deferred in the same step, staged by the next    *)
(* boundary, and acknowledged before it lags too far.                      *)
PublishedInTime ==
  /\ completed # <<>> => step <= Deadline
  /\ deferred # <<>> /\ stage # "failed" => WorkerStep <= Deadline
  /\ staged # NoStage =>
       /\ staged.step <= Deadline + 1
       /\ IF stage = "poll" THEN step <= staged.step + Grace
          ELSE step <= staged.step \/ step < staged.step + MaxPublishLag

InTimeInv == InputsComplete => RepaidInTime /\ PublishedInTime /\ SettledInTime
=============================================================================
