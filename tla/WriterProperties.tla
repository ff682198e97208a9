-------------------------- MODULE WriterProperties --------------------------
(***************************************************************************)
(* What must hold of the writer group and of the target heads.             *)
(***************************************************************************)
EXTENDS WriterGroup

(* The scheduler has forgotten the steps of a group that ran out of memory *)
(* in the run's first plan: it disables the group while no state is known  *)
(* (drafter_scheduler.py:5350), then books its steps (5420-5446).  Nothing *)
(* blocks the other groups, although none of them has those steps.         *)
Orphaned == ~blocked /\ \E w \in Workers : w[1] \in disabled /\ steps[w] > 0

(* A plan runs only on a group whose every shard has all the optimizer     *)
(* steps made so far and the samples of the quota: a group is never        *)
(* replaced by a stale one (drafter_scheduler.py:998), but when the steps  *)
(* of the first plan were orphaned.                                        *)
NoStaleTraining ==
  plan # NoPlan /\ ~Orphaned =>
    \A w \in Team(plan.group) : steps[w] = total /\ data[w] = dataVersion

(* The head of the quota is in the cache of every worker on which the      *)
(* driver believes it to be, whatever the worker has evicted, and on all   *)
(* workers of a running plan: no plan fails for want of its head.          *)
HeadInPlace ==
  /\ \A v \in Protected \intersect ready : \A w \in holders[v] : v \in heads[w]
  /\ plan # NoPlan => \A w \in Team(plan.group) : dataVersion \in heads[w]

(* A group that owns training state is replaced only between a publication *)
(* and the next quota's first step, and never under a running plan         *)
(* (bubble_time_drafter_training.md:700-701).                              *)
NoMidQuotaSwitch ==
  [][stateVersion # 0 /\ ~Orphaned /\ writer' # writer =>
       /\ debt = TargetSteps
       /\ published = stateVersion
       /\ plan = NoPlan /\ plan' = NoPlan]_vars
-----------------------------------------------------------------------------
(* The argument for the safety properties: what follows is inductive.      *)

(* A quota has data as long as something is owed, and only one is open.    *)
QuotaInTurn ==
  /\ debt > 0 => claim /\ dataVersion # 0 /\ dataVersion = registered
  /\ debt = 0 => dataVersion = 0
  /\ registered <= step
  /\ phase = "rollout" => registered < step
  /\ phase = "learn" => plan = NoPlan /\ handoff = NoHandoff
  /\ phase = "learn" /\ registered = step => debt = TargetSteps
  /\ boundary => debt \in {0, TargetSteps}

(* A head under way is the one of the open quota, and nothing trains on it *)
(* yet.  It is for all who may train, and is in every cache that has       *)
(* acknowledged it.                                                        *)
PrefetchInTurn ==
  /\ \A v \in ready : v <= registered
  /\ pending # NoPending =>
       /\ plan = NoPlan /\ handoff = NoHandoff
       /\ debt = TargetSteps
       /\ pending.version = registered /\ registered \notin ready
       /\ phase = "learn" /\ registered = step => pending.targets = HeadTargets \X Shards
       /\ pending.stage = "dispatch" =>
            \A w \in pending.targets \ pending.waiting : registered \in heads[w]
       /\ pending.stage = "fetch" => pending.waiting = {}
  /\ phase = "learn" /\ registered = step /\ step \in ready =>
       HeadTargets \X Shards \subseteq holders[step]

HeadsHeld == claim /\ registered \in ready => \A w \in holders[registered] : registered \in heads[w]

(* Until the first step nobody has state; from then on the writer has all  *)
(* of it, unless its loss has stopped every other group, or the first      *)
(* steps were orphaned.                                                    *)
WriterOwns ==
  /\ stateVersion = 0 => total = 0 /\ ~blocked /\ \A w \in Workers : steps[w] = 0
  /\ stateVersion # 0 /\ ~blocked /\ ~Orphaned =>
       /\ writer \in Groups \ disabled
       /\ \A w \in Team(writer) : steps[w] = total /\ trainedAt[w] = stateVersion

PlanInTurn ==
  plan # NoPlan =>
    /\ handoff = NoHandoff
    /\ ~blocked /\ plan.group \notin disabled
    /\ plan.steps <= debt
    /\ \A w \in Team(plan.group) : data[w] = dataVersion /\ dataVersion \in heads[w]
    /\ Owner # None => plan.group = Owner

(* What is transferred is the whole state of the published version, and    *)
(* a shard that has taken it over has nothing else.                        *)
HandoffInTurn ==
  handoff # NoHandoff =>
    /\ stateVersion # 0 /\ ~blocked
    /\ debt = TargetSteps
    /\ writer \in Groups /\ handoff.target \notin disabled \union {writer}
    /\ \A s \in Shards :
         /\ handoff.state[s].trainedAt = published
         /\ dataVersion \in handoff.state[s].heads
         /\ ~Orphaned => /\ handoff.state[s].steps = total
                         /\ handoff.state[s].trainedAt = stateVersion
    /\ handoff.stage = "validate" => handoff.waiting = Shards
    /\ \A s \in Shards \ handoff.waiting :
         /\ steps[<<handoff.target, s>>] = handoff.state[s].steps
         /\ trainedAt[<<handoff.target, s>>] = handoff.state[s].trainedAt
         /\ heads[<<handoff.target, s>>] = handoff.state[s].heads

WriterInv ==
  TypeOK /\ QuotaInTurn /\ PrefetchInTurn /\ HeadsHeld /\ WriterOwns /\ PlanInTurn /\ HandoffInTurn
=============================================================================
