---------------------------- MODULE WriterGroup ----------------------------
(***************************************************************************)
(* The one group that may change the drafter's training state.  Every      *)
(* replica-local group could train, but only the writer's model, optimizer *)
(* and replay data are authoritative: the group is chosen by the first     *)
(* collection or the first plan, keeps the state from quota to quota, is   *)
(* disabled when it runs out of memory, and hands its state to another     *)
(* group only between a publication and the next quota's first step.       *)
(*                                                                         *)
(* The scheduler is DrafterScheduler; the loop around it and the transfer  *)
(* are SpecoRayPPOTrainer's.  The driver runs one thing at a time, under   *)
(* the lock of the idle event loop; a plan and the workers' cache run      *)
(* beside it.  The shards of a group step together, as its collectives     *)
(* make them.  Left out: full-collective topologies, restarts, and replay  *)
(* sessions, which only spare more heads.                                  *)
(***************************************************************************)
EXTENDS TargetHeads

CONSTANTS
  First,        \* the shard whose heads the driver reads after a transfer
  None,         \* no group
  TargetSteps,  \* training_quota_target_steps
  Fallbacks,    \* training_quota_allow_critical_path_fallback, values to consider
  Faults        \* what may go wrong

ASSUME WriterAssumption ==
  First \in Shards /\ None \notin Groups /\ TargetSteps \in Nat \ {0}
ASSUME SwitchesAssumption ==
  /\ Fallbacks \subseteq BOOLEAN
  /\ Faults \subseteq {"head", "ack", "activation", "oom", "offer", "import"}

VARIABLES
  step,          \* global_steps
  phase,         \* the rollout, up to the actor update, after it
  fallback,      \* the configured fallback
  failed,        \* an exception ended the run
  writer,        \* _idle_worker_writer_group
  stateVersion,  \* _idle_worker_writer_state_version, 0 for None
  blocked,       \* _idle_worker_writer_migration_blocked
  disabled,      \* _disabled_replica_local_idle_groups
  pinned,        \* _idle_worker_bootstrap_collection_group
  boundary,      \* _writer_boundary_migration_allowed
  debt,          \* _training_quota_debt_steps
  dataVersion,   \* _training_quota_data_version, 0 for None
  registered,    \* _training_quota_last_registered_data_version, 0 for None
  claim,         \* _training_quota_collection_step is not None
  published,     \* _latest_published_drafter_version, 0 for None
  plan,          \* active_plan
  handoff,       \* the state transfer under way
  attempt,       \* _speco_writer_migration_failed_attempt
  steps,         \* optimizer_steps_total of every worker
  trainedAt,     \* last_trained_step of every worker, 0 for None
  data,          \* version of the newest samples in every worker's buffer, 0 for none
  total          \* history: optimizer steps made since the start

loopVars   == <<step, phase, fallback, failed>>
ownerVars  == <<writer, stateVersion, blocked, disabled, pinned, boundary>>
quotaVars  == <<debt, dataVersion, registered, claim, published>>
workVars   == <<plan, handoff, attempt>>
workerVars == <<steps, trainedAt, data, total>>
vars == <<loopVars, ownerVars, quotaVars, workVars, workerVars, headVars>>

Team(g) == {g} \X Shards

NoPlan    == [group |-> None, steps |-> 0, topup |-> FALSE]
Plans     == [group : Groups, steps : 1..TargetSteps, topup : BOOLEAN]
NoHandoff == [target |-> None, stage |-> "none", waiting |-> {}, state |-> <<>>]
Exports   == [steps : Nat, trainedAt : {0} \union Versions, data : {0} \union Versions,
              heads : SUBSET Versions]
Handoffs  == [target : Groups, stage : {"validate", "import"}, waiting : SUBSET Shards,
              state : [Shards -> Exports]]
NoAttempt == <<None, None, 0, 0>>
Attempts  == Groups \X Groups \X ({0} \union Versions) \X Versions

TypeOK ==
  /\ HeadsTypeOK
  /\ step \in Versions
  /\ phase \in {"rollout", "learn", "settle"}
  /\ {fallback, failed, blocked, boundary, claim} \subseteq BOOLEAN
  /\ {writer, pinned} \subseteq Groups \union {None}
  /\ {stateVersion, dataVersion, registered, published} \subseteq {0} \union Versions
  /\ disabled \in SUBSET Groups
  /\ debt \in 0..TargetSteps
  /\ plan \in Plans \union {NoPlan}
  /\ handoff \in Handoffs \union {NoHandoff}
  /\ attempt \in Attempts \union {NoAttempt}
  /\ steps \in [Workers -> Nat]
  /\ trainedAt \in [Workers -> {0} \union Versions]
  /\ data \in [Workers -> {0} \union Versions]
  /\ total \in Nat

Init ==
  /\ HeadsInit
  /\ step = 1 /\ phase = "rollout" /\ fallback \in Fallbacks /\ failed = FALSE
  /\ writer = None /\ stateVersion = 0 /\ blocked = FALSE
  /\ disabled = {} /\ pinned = None /\ boundary = FALSE
  /\ debt = 0 /\ dataVersion = 0 /\ registered = 0 /\ claim = FALSE /\ published = 0
  /\ plan = NoPlan /\ handoff = NoHandoff /\ attempt = NoAttempt
  /\ steps = [w \in Workers |-> 0]
  /\ trainedAt = [w \in Workers |-> 0]
  /\ data = [w \in Workers |-> 0]
  /\ total = 0

(* The driver is neither waiting for a transfer nor watching a plan.       *)
Free == ~failed /\ plan = NoPlan /\ handoff = NoHandoff

Training == ~failed /\ plan # NoPlan
Moving(stage) == ~failed /\ handoff.stage = stage

Usable == IF blocked THEN {} ELSE Groups \ disabled

(* The current writer, if it is still allowed to train.                    *)
Owner == IF writer \in Usable THEN writer ELSE None

(* A group that owns model and optimizer state has trained.                *)
Private == Owner # None /\ stateVersion # 0

(* Who receives samples and heads: the writer, else every group that may   *)
(* become it.                                                              *)
HeadTargets == IF Owner # None THEN {Owner} ELSE Groups \ disabled

(* The head of the quota is kept until its publication.                    *)
Protected ==
  IF dataVersion # 0 THEN {dataVersion}
  ELSE IF claim THEN {registered} \ {0}
  ELSE {}

HasData(g) == \A w \in Team(g) : data[w] = dataVersion
-----------------------------------------------------------------------------
(* Collection.  Every collection owes a quota.                             *)

Receive(receivers) ==
  /\ data' = [w \in Workers |-> IF w[1] \in receivers THEN step ELSE data[w]]
  /\ debt' = TargetSteps
  /\ dataVersion' = step
  /\ registered' = step
  /\ claim' = TRUE

(* The first collection of a sync-aligned run elects the group its data    *)
(* goes to, before any group has trained.                                  *)
ElectCollector ==
  /\ Owner = None /\ ~blocked /\ stateVersion = 0
  /\ \E g \in Usable :
       /\ writer' = g /\ pinned' = g
       /\ Receive({g})

Collect ==
  /\ phase = "rollout" /\ Free /\ ~claim
  /\ \/ ElectCollector
     \/ Receive(HeadTargets) /\ UNCHANGED <<writer, pinned>>
  /\ phase' = "learn"
  /\ UNCHANGED <<step, fallback, failed, stateVersion, blocked, disabled, boundary,
                 published, workVars, steps, trainedAt, total, headVars>>

CollectNothing ==
  /\ phase = "rollout" /\ Free
  /\ phase' = "learn"
  /\ UNCHANGED <<step, fallback, failed, ownerVars, quotaVars, workVars, workerVars,
                 headVars>>

-----------------------------------------------------------------------------
(* The target head of the step that collected.                             *)

otherThanHeads == <<step, phase, fallback, ownerVars, quotaVars, workVars, workerVars>>

Prefetch ==
  /\ phase = "learn" /\ Free /\ registered = step /\ ~blocked
  /\ StartPrefetch(step, HeadTargets \X Shards)
  /\ UNCHANGED <<otherThanHeads, failed>>

AdvancePrefetch ==
  /\ Free
  /\ \/ Dispatch(Protected)
     \/ "head" \in Faults /\ FetchFails
     \/ MarkReady(Protected)
  /\ UNCHANGED <<otherThanHeads, failed>>

CacheHead ==
  /\ ~failed
  /\ \E w \in Workers : ApplyHead(w)
  /\ UNCHANGED <<otherThanHeads, failed>>

PrefetchRejected ==
  /\ Free /\ "ack" \in Faults
  /\ RejectHead
  /\ failed' = TRUE
  /\ UNCHANGED otherThanHeads

(* The actor is not updated before its head is exported.                   *)
UpdateActor ==
  /\ phase = "learn" /\ Free /\ pending.stage # "fetch"
  /\ phase' = "settle"
  /\ UNCHANGED <<step, fallback, failed, ownerVars, quotaVars, workVars, workerVars,
                 headVars>>

-----------------------------------------------------------------------------
(* Training.                                                               *)

(* Mutant: a plan that is to make no step is launched all the same.        *)
BudgetFromZero == 0..debt

Budget == 1..debt

(* Mutant: every group may train.                                          *)
AnyCandidate == Usable

(* Groups the idle loop considers.  Before its first step the group that   *)
(* collected is the only one, because only it has the data.                *)
Candidates ==
  IF Private \/ (Owner # None /\ pinned = Owner) THEN {Owner} ELSE Usable

(* An idle window of a group.  Choosing a plan elects the group, the plan  *)
(* runs if the group has the head; a first plan is left to the top-up.     *)
PlanIdle ==
  /\ phase = "rollout" /\ Free /\ debt > 0
  /\ stateVersion # 0 \/ ~fallback
  /\ \E g \in Candidates :
       /\ HasData(g)
       /\ writer' = IF stateVersion = 0 THEN g ELSE writer
       /\ IF HeadReady(dataVersion, Team(g))
          THEN \E n \in Budget : plan' = [group |-> g, steps |-> n, topup |-> FALSE]
          ELSE plan' = plan
  /\ UNCHANGED <<loopVars, stateVersion, blocked, disabled, pinned, boundary, quotaVars,
                 handoff, attempt, workerVars, headVars>>

(* The first quota, and one past its deadline, are completed before the    *)
(* next rollout; a due one that has begun leaves its last step.            *)
Forced == debt = TargetSteps /\ stateVersion = 0

(* The writer tops up, or whichever group the scheduler finds best.        *)
TopUpGroups == IF Owner # None THEN {Owner} ELSE Usable

TopUp ==
  /\ phase = "settle" /\ Free /\ fallback /\ debt > 0
  /\ \E g \in TopUpGroups : \E n \in Budget :
       /\ n # debt => ~Forced /\ debt < TargetSteps
       /\ HasData(g)
       /\ pending = NoPending /\ HeadReady(dataVersion, Team(g))
       /\ plan' = [group |-> g, steps |-> n, topup |-> TRUE]
  /\ UNCHANGED <<loopVars, ownerVars, quotaVars, handoff, attempt, workerVars, headVars>>

(* The group is not used again.  If it is the writer, another group may    *)
(* replace it only if there is no state to lose.                           *)
Disable(g) ==
  /\ disabled' = disabled \union {g}
  /\ blocked' = (blocked \/ (writer = g /\ stateVersion # 0))

(* A plan made k optimizer steps; if lost, its group failed in activation  *)
(* or ran out of memory in the next step.  The scheduler disables a lost   *)
(* group first and books the steps afterwards.                             *)
Book(k, lost) ==
  LET g == plan.group
      kept == IF lost /\ writer = g /\ stateVersion = 0 THEN None ELSE writer
  IN
  /\ IF lost THEN Disable(g) ELSE UNCHANGED <<disabled, blocked>>
  /\ IF k = 0
     THEN /\ writer' = kept
          /\ UNCHANGED <<stateVersion, boundary, debt, dataVersion, steps, trainedAt, total>>
     ELSE /\ writer' = IF kept \in Groups \ disabled' /\ ~blocked' THEN kept ELSE g
          /\ stateVersion' = IF writer' = g THEN step ELSE stateVersion
          /\ boundary' = FALSE
          /\ debt' = debt - k
          /\ dataVersion' = IF debt = k THEN 0 ELSE dataVersion
          /\ steps' = [w \in Workers |-> IF w[1] = g THEN steps[w] + k ELSE steps[w]]
          /\ trainedAt' = [w \in Workers |-> IF w[1] = g THEN step ELSE trainedAt[w]]
          /\ total' = total + k
  /\ plan' = NoPlan
  /\ UNCHANGED <<loopVars, pinned, registered, claim, published, handoff, attempt, data,
                 headVars>>

(* All of the plan is done, or as much of an idle plan as its deadline or  *)
(* the end of the rollout let it do.                                       *)
EndPlan ==
  /\ Training
  /\ \/ Book(plan.steps, FALSE)
     \/ /\ ~plan.topup
        /\ \E k \in 0..(plan.steps - 1) : Book(k, FALSE)

LosePlan ==
  /\ Training /\ ~plan.topup
  /\ \/ "activation" \in Faults /\ Book(0, TRUE)
     \/ "oom" \in Faults /\ \E k \in 1..(plan.steps - 1) : Book(k, TRUE)

(* A top-up does all its steps, or the run ends.                           *)
TopUpFails ==
  /\ Training /\ plan.topup
  /\ Faults \intersect {"activation", "oom"} # {}
  /\ failed' = TRUE
  /\ UNCHANGED <<step, phase, fallback, ownerVars, quotaVars, workVars, workerVars,
                 headVars>>

-----------------------------------------------------------------------------
(* Publication, and what waits for it.                                     *)

(* Mutant: any publication ends the quota.                                 *)
PublishEarly ==
  /\ Free /\ claim /\ stateVersion # 0
  /\ \E v \in {stateVersion, stateVersion + 1} : v <= step /\ published' = v
  /\ claim' = FALSE
  /\ boundary' = TRUE
  /\ UNCHANGED <<loopVars, writer, stateVersion, blocked, disabled, pinned, debt,
                 dataVersion, registered, workVars, workerVars, headVars>>

(* The rollouts serve the writer's weights, under the number of the step   *)
(* that staged them: the one that completed the quota, or the next one.    *)
Publish ==
  /\ Free /\ claim /\ debt = 0
  /\ \E v \in {stateVersion, stateVersion + 1} : v <= step /\ published' = v
  /\ claim' = FALSE
  /\ boundary' = TRUE
  /\ UNCHANGED <<loopVars, writer, stateVersion, blocked, disabled, pinned, debt,
                 dataVersion, registered, workVars, workerVars, headVars>>

(* A checkpoint needs a group to write it, and makes one the writer.       *)
Checkpoint ==
  /\ phase = "settle" /\ Free /\ ~claim
  /\ Owner = None 
  /\ \E g \in Usable : writer' = g
  /\ UNCHANGED <<loopVars, stateVersion, blocked, disabled, pinned, boundary, quotaVars,
                 workVars, workerVars, headVars>>

NextStep ==
  /\ phase = "settle" /\ Free /\ step < MaxStep
  /\ step' = step + 1
  /\ phase' = "rollout"
  /\ UNCHANGED <<fallback, failed, ownerVars, quotaVars, workVars, workerVars, headVars>>

-----------------------------------------------------------------------------
(* The transfer of the training state to another group.                    *)

otherThanTransfer == <<loopVars, ownerVars, quotaVars, plan, workerVars, headVars>>

HandoffUseful(g) ==
  /\ phase = "rollout" /\ Free
  /\ Private /\ boundary /\ debt > 0
  /\ HeadReady(dataVersion, Team(Owner))
  /\ g \in Usable \ {Owner}
  /\ attempt # <<Owner, g, published, dataVersion>>

(* Every shard of the writer has trained last for the published version.   *)
SourceComplete == \A w \in Team(Owner) : trainedAt[w] = published

Export(s) == [steps |-> steps[<<Owner, s>>], trainedAt |-> trainedAt[<<Owner, s>>],
              data |-> data[<<Owner, s>>], heads |-> heads[<<Owner, s>>]]

BeginHandoff ==
  /\ \E g \in Groups :
       /\ HandoffUseful(g) /\ SourceComplete
       /\ handoff' = [target |-> g, stage |-> "validate", waiting |-> Shards,
                      state |-> [s \in Shards |-> Export(s)]]
  /\ UNCHANGED <<otherThanTransfer, attempt>>

(* A source without a complete state is not asked again for this quota.    *)
NotOffered ==
  /\ \E g \in Groups :
       /\ HandoffUseful(g)
       /\ SourceComplete => "offer" \in Faults
       /\ attempt' = <<Owner, g, published, dataVersion>>
  /\ UNCHANGED <<otherThanTransfer, handoff>>

(* All shards of the target validate the layout before any is changed.     *)
Validate ==
  /\ Moving("validate")
  /\ \/ /\ handoff' = [handoff EXCEPT !.stage = "import"]
        /\ UNCHANGED attempt
     \/ /\ "offer" \in Faults
        /\ attempt' = <<writer, handoff.target, published, dataVersion>>
        /\ handoff' = NoHandoff
  /\ UNCHANGED otherThanTransfer

(* A shard of the target takes over the state of its counterpart.          *)
ImportShard(s) ==
  LET w == <<handoff.target, s>>
      state == handoff.state[s]
  IN
  /\ Moving("import") /\ s \in handoff.waiting
  /\ steps' = [steps EXCEPT ![w] = state.steps]
  /\ trainedAt' = [trainedAt EXCEPT ![w] = state.trainedAt]
  /\ data' = [data EXCEPT ![w] = state.data]
  /\ heads' = [heads EXCEPT ![w] = state.heads]
  /\ handoff' = [handoff EXCEPT !.waiting = @ \ {s}]
  /\ UNCHANGED <<loopVars, ownerVars, quotaVars, plan, attempt, total, pending, ready,
                 holders>>

(* A transfer that has begun to change the target cannot be undone.        *)
ImportFails ==
  /\ "import" \in Faults
  /\ Moving("import") /\ handoff.waiting # {}
  /\ failed' = TRUE
  /\ UNCHANGED <<step, phase, fallback, ownerVars, quotaVars, workVars, workerVars,
                 headVars>>

(* Only now is the target the writer.                                      *)
CompleteHandoff ==
  /\ Moving("import") /\ handoff.waiting = {}
  /\ writer' = handoff.target
  /\ boundary' = FALSE
  /\ ShareHeads(handoff.state[First].heads, Team(handoff.target))
  /\ handoff' = NoHandoff
  /\ UNCHANGED <<loopVars, stateVersion, blocked, disabled, pinned, quotaVars, plan,
                 attempt, workerVars>>

-----------------------------------------------------------------------------
Collection == Collect \/ CollectNothing
Heads      == Prefetch \/ AdvancePrefetch \/ CacheHead \/ PrefetchRejected
Plan       == PlanIdle \/ TopUp \/ EndPlan \/ LosePlan \/ TopUpFails
Loop       == UpdateActor \/ Publish \/ Checkpoint \/ NextStep
Transfer   ==
  \/ BeginHandoff \/ NotOffered \/ Validate
  \/ \E s \in Shards : ImportShard(s)
  \/ ImportFails \/ CompleteHandoff

Next == Collection \/ Heads \/ Plan \/ Loop \/ Transfer

Spec == Init /\ [][Next]_vars
=============================================================================
