# Verification of verl-SpeCo

verl-SpeCo trains a small *drafter* model for speculative decoding next to a PPO
run: rollouts produce hidden states, these become drafter training samples, the
drafter is trained in the idle windows of the rollout workers ("Bubble Time")
and its weights are published back to the rollout engines.  This directory holds
TLA+ models of the protocols in that loop, TLC configurations that check them on
small instances, and proofs that TLAPS checks for every instance.

Paths below are relative to `src/verl_speco/`.  `PROJECT.json` maps every
definition of the models to the lines it stands for.

## The system

### Components, their state and their operations

| Component | State | Operations | Hard parts |
|---|---|---|---|
| Collection transaction, driver (`trainer/scheduler/collection_strategy.py`, `collection_executor.py`) | position in `execute()`, results of the calls of the phase | stage, commit, abort, rollback, finalize | `ray.get` raises on the first failure while other calls still run; after a partial finalize there is no way back |
| Collection handlers of the owners (`workers/speco_worker.py`) | `_staged_rollout_features`, `_collection_commit_journals`, in-memory buffers, `worker_incarnation` | stage, commit coroutine, abort, rollback, finalize | the commit is suspended at every sample; other calls run in between; the process may be replaced |
| Feature Store writer (`trainer/feature_store.py`) | samples in memory, shard files | `write_many`, `flush`, `flush_on_step` | samples in memory die with the process |
| Training quota (`trainer/scheduler/drafter_scheduler.py`) | debt, claim of the collection step, cycle deadline, data version, writer group | register a collection, plan idle training, plan a top-up, book an outcome, plan a publication, release the quota | booked from idle plans and blocking top-ups; blocks collection until published |
| Training loop hooks (`trainer/speco_ray_trainer.py`) | global step, deferred and staged publications, deferred checkpoint | hooks on `generate_sequences`, `update_actor`, `_save_checkpoint`, `update_weights`, `_validate`; idle event loop (a thread) | publications cross step boundaries; the idle loop runs during the rollout |
| Publication (`publish_strategy.py`, `publish_executor.py`, `integration/rollout_publish.py`) | one staged snapshot with its refs | stage, poll, await, apply, restore | one snapshot in flight; a worker may refuse |
| Sample buffer (`trainer/data_buffer.py`, `trainer/base_trainer.py`) | FIFO of samples, ids, reservations, pins, replay sessions | add, reserve, consume, release, pin, clear | eviction at capacity while samples are reserved; rollback of a collection while a plan trains |
| Training session (`execution_strategy.py`, `worker_executor.py`, `training_outcome.py`, handlers of `speco_worker.py`) | prepared plan per owner, active plan, reclaim flag | prepare, train, abort, reclaim, park | one failing owner skips all; deadline, reclaim and completion race |
| Writer group and migration (`drafter_scheduler.py`, `speco_ray_trainer.py`) | the group that owns the training state, the version of that state, disabled groups | elect, train, disable, transfer, complete | a replica that missed steps trains on; a transfer stops half-way |
| Target-head cache (`speco_ray_trainer.py`, `trainer/base_trainer.py`) | heads cached by every worker; the driver's idea of it | prefetch, dispatch, cache, acknowledge, evict | workers evict on their own, the driver's idea may be stale |
| Rollout idle events (`integration/rollout_idle_events.py`) | rollout and training leases, waiting replicas, reclaims, undrained events | acquire, cancel, release, reserve, reclaim, drain | servers, the driver's event loop and its main thread call the bus concurrently; a cancelled call may still arrive |
| Standalone scheduler (`standalone_ray_runtime.py`, `drafter_runtime_state.py`, `standalone_executor.py`) | ready samples, plans reserved and completed, gate of the producer | reconcile, list, reserve, dispatch, complete, stop | late totals, repeated events, budget and tail |
| Standalone producer (`standalone_tq_producer.py`) | requests in flight, publications and their total | request, publish, notify, submit metadata, drain | retries of a put whose outcome is unknown |
| Standalone consumer (`trainer/draft_training_loop.py`, `trainer/tq_*.py`) | batches fetched, in training, being finalized; sequence numbers consumed | fetch, train, clear, announce, save, resume | prefetch and finalizer threads; a checkpoint written while training goes on |
| Trainer for verl V1 (`trainer/v1/`) | pending collection and publication of a step, joint checkpoint manifest | hooks of the V1 PPO loop | not modelled, see below |
| Adaptive schedule, freeze policy, triggers | moving averages, cool-downs | decide | numeric, sequential |
| Checkpoint files, engine patches, models, command line | — | — | I/O, third-party runtimes, tensors: no protocol |

### How they interact

One PPO step, as the hooks of `speco_ray_trainer.py` run it:

1. *Generation hook.*  Poll the staged publication, publish the deferred plans,
   and if the collection of this step is blocked by an unpublished quota, wait
   for the publication.  Then the rollout begins, and with it the idle event loop.
2. *Rollout.*  Samples are collected: `execute()` runs the two-phase
   transaction over the owners, and a durable collection registers a quota of
   `training_quota_target_steps` optimizer steps.  Idle worker groups train
   against the debt; a finished plan that repays it is queued for publication.
3. *Reclaim.*  The plan in execution is stopped, its steps are booked, finished
   plans are deferred.
4. *Actor update.*  An overdue quota is completed by a blocking top-up; a due
   one is helped.  On the last step everything is settled.
5. *Checkpoint*, put off while a quota is unfinished or unpublished.
6. *Rollout weights* are updated and deferred plans published.  The
   acknowledgement of all rollout workers releases the quota: only then may the
   next collection register.

During step 2 the servers of the rollout replicas and the idle training share
devices through the *lease bus*, an actor: a replica takes a rollout lease for
its first request and gives it back after its last, the driver's event loop
takes a training lease for a plan, and a replica that finds its devices in
training has the plan reclaimed and waits.

*Standalone training* does without PPO: a driver, a producer actor that asks vLLM
for the features of an input file, and consumer workers that train.  The
samples travel through TransferQueue (the producer publishes, the driver lists
and plans, the consumer fetches and clears) or as hidden references inside the
messages.  The driver and the consumer talk over two Ray queues, commands and
events; the producer reports over the events queue and is paused by its gate.

### What makes each component correct

* Transaction: training sees a collection on all owners or on none, and a
  completed collection stays.
* Quota: no optimizer step lost or done twice; only whole quotas reach the
  rollouts and the checkpoints; a repaid quota is always on its way to
  publication; deadlines hold; the run ends with nothing owed.
* Buffer: samples under training are neither evicted nor rolled back, a reservation
  ends with its plan and a pin with its quota, and every quota has data to train on.
* Session: a plan runs on all owners or on none; its steps are accounted once; a
  reclaim stops the plan it was meant for.
* Lease bus: serving, training and the policy update exclude each other on every
  device; nobody keeps a lease, or a claim to one, that nobody will return.
* Writer group: whoever trains has every optimizer step made so far and the quota's
  samples; the owner changes between a publication and the next quota's first step only.
* Target heads: where the driver believes a head that is still needed to be, it is.
* Standalone training: the model is trained once on each sample recorded as
  consumed, across crashes and resumes; the parties never contradict each other;
  nothing published is forgotten; the pipeline ends.

## The modules

| Module | What it is |
|---|---|
| `AtomicCollection` | abstract specification: a collection opens and completes, fails, or ends ambiguous; its samples become trainable together |
| `CollectionTransaction` | the driver, the owners and the calls between them |
| `CollectionProperties` | properties, inductive invariant, refinement mapping to `AtomicCollection` |
| `CollectionProofs`, `TransactionProofs` | proofs: atomicity of the collect_only path; order and durability of the calls, and the refinement |
| `TrainingQuota` | the scheduler's quota and the training loop around it |
| `QuotaProperties`, `QuotaProofs` | its properties, inductive invariant and proofs |
| `ReplayBuffer` | the sample buffer of one owner, its reservations and replay sessions |
| `ReplayProperties`, `ReplayProofs` | its properties, inductive invariant and proofs |
| `LeaseBus` | the event bus actor: rollout and training leases |
| `IdleTraining` | servers, event loop, main thread and workers around the bus |
| `DeviceUse` | abstract specification: a device serves, trains or is updated |
| `IdleTrainingProperties`, `IdleTrainingProofs` | properties, inductive invariant, refinement of `DeviceUse`, proofs |
| `TargetHeads` | heads cached by the workers, and what the driver believes of them |
| `WriterGroup` | election, training, loss and transfer of the one group that owns the training state, with `TargetHeads` |
| `WriterProperties`, `WriterProofs` | its properties, inductive invariant and proofs |
| `StandaloneChannels` | store, queues and gate that the three standalone parties share, and the faults |
| `StandaloneProducer`, `StandaloneScheduler`, `StandaloneConsumer` | one party each, with its own variables and actions |
| `StandalonePipeline` | the three composed, with crash and next launch |
| `StandaloneProperties` | its properties and the invariants they rest on |
| `StandaloneProofs`, `StandaloneEndProofs` | proofs: order and exactly-once; agreement, the end, and that nobody is stuck |
| `MC*` | model-checking modules, one configuration per question |

### CollectionTransaction

`phase`, `cause` and `cur` are the position of the driver in
`SyncCollectionStrategy.execute`; `inbox` holds calls sent to an owner and not
started, `reply` the answers to the phase the driver waits for.  `staged`,
`journal` and `running` are the owner's three tables, `running` standing for a
suspended `_commit_rollout_features` coroutine.  Ray starts the calls of one
caller in order, an asynchronous actor may suspend one at an `await` and serve
the next: `AcceptSample`, `RejectSample` and `FailSample` are the steps of the
coroutine between two awaits, and all other handlers are one action each.
`ray.get` (`_call`) raises when the first call fails: `Raised` needs one failed
answer, `Resolved` needs all answers.  `Restart` replaces an owner's process:
new incarnation, empty memory, `last_global_step = None` (after which building
any result raises), accepted calls fail.  Samples are numbers: their tensors,
masks and metadata are abstracted, the reasons to decline one are
`RejectSample`.  The in-memory buffers are unbounded here.

### TrainingQuota

The variables carry the names of the code in their comments; `stage` is the
position of the training loop in a step.  `Collect` is a durable collection (the
transaction as one step), `LaunchIdle`, `FinishIdle`, `ReclaimIdle` the idle plan,
`SoftTopUp`, `WriterTopUp`, `CollectiveTopUp` the blocking plans,
`PublishDeferred`, `PollPublication`, `AwaitPublication` the publication.
Two history variables, `quotas` and `served`, count quotas registered and the
optimizer steps in the weights that the rollouts serve.  Which workers are idle,
for how long, and how many batches fit is free (`\E batches \in IdleBudget`);
a plan may end after any number of its batches.  Everything after an exception
that ends the run is `stage = "failed"`.  `Unready` names the steps in which a top-up
may find no writer, no samples or no head: what `WriterGroup` details is there an
arbitrary choice, with the deadline binding in the other steps.

### ReplayBuffer

One owner's buffer while collections and plans run side by side: the driver's
lock orders a launch against a collection, but a plan in training
(`train_drafter`) and a commit coroutine yield to each other at every `await`.
A collection is `BeginCollection` (snapshot), `StoreSample` per `add_batch`, and
`CollectionSucceeds` or `CollectionFails` (rollback to the snapshot, because another
owner failed); a plan is `Preflight` (reserve and pin), `Launch`, `TrainBatch` per
optimizer step and `EndPlan` (finalize and release, no `await` in between), or
`AbandonPreflight`.  `CollectiveTopUp` and `Publish` are the only parts of the
quota that matter here besides the debt: the SYNC top-up that reserves nothing,
and the publication that lets the next version in.  Samples are numbered as they
come, so the deque is a set and its oldest sample the least; `reserved` and `pinned`
are keys in a sample's dict and therefore outlive its removal from the deque,
which is what finding 3 is about.  A batch is any set of the right size: the
sampler's policy is abstracted.  `LateRollback` and `AbandonedAttempts` admit the
behaviours of findings 3 and 4; the passing run and some theorems exclude them.

### LeaseBus and IdleTraining

Each method of the bus actor is one action of `LeaseBus`; the actor serialises
them.  `IdleTraining` adds the callers.  A *server* (`vllm_runtime`,
`sglang_runtime`: `generate`) holds a lock while it acquires and releases, counts
its active requests, and on cancellation sends a call that may reach the bus
much later (`late`, `LateCall`).  The *event loop* of the driver drains events
into the scheduler's view, reserves a training lease, runs the preflight on the
team and launches (`Reserve`, `Submit`, `Abort`); the *main thread* stops it at the
end of the rollout, reclaims the plan, waits and parks (`Boundary`, `Wait`,
`Update`).  Both take `_speco_bubble_training_lock`, so each action is a
locked section.  *Workers* prepare, agree before each optimizer step whether to
stop (`Agree`: an all-reduce over the flags and the deadline), step, clean up and
answer; a *watcher thread* per worker asks the bus for reclaims and sets the
worker's flag, its message being in `delivering` meanwhile.  Deadlines are a free
choice in `Agree`; `Faults` names what may raise.  With a "step" fault a worker of
the collective is lost and its peers fail with it (`LoseGroup`).

### WriterGroup and TargetHeads

Every replica-local group has a model and an optimizer of its own and could train;
the scheduler lets one group at a time own them.  `Owner` is
`_current_idle_writer_group`: the writer, unless it is disabled or everything is
`blocked`.  The first collection may elect it (`ElectCollector`; then only it has
samples), or the first plan (`PlanIdle`), or a checkpoint (`Checkpoint`).  A plan makes
its steps on one group, the shards in lockstep (`Book`); a group lost in activation
or to memory is disabled (`LosePlan`), which blocks every other group if training
state is known.  `HandoffUseful` to `CompleteHandoff` are
`_speco_migrate_idle_writer_if_useful` and `_speco_execute_writer_state_transfer`:
export from all shards, validation on all, import shard by shard, and only then the
change of owner.  What the estimates of idle windows decide (whether moving pays, how
long a plan is, which group is best) is a free choice.

`TargetHeads` has the heads twice, as each worker caches them (`heads`) and as the
driver believes them to be (`ready`, `holders`).  A head is fetched from the actor
before its update, sent out (`Dispatch`), cached by each worker in its own time
(`ApplyHead`, which evicts all but the newest and the spared), and ready when all
have acknowledged it.  The driver's set evicts by the same rule at another moment.

`steps`, `trainedAt`, `data` are each worker's own; `total` counts the optimizer steps
ever made, so that `steps[w] = total` says that `w` missed none.

Seen while modelling:

* *The first plan's steps may be orphaned.*  `_record_training_outcome` disables a
  group that ran out of memory (`drafter_scheduler.py:5350`) before it books the steps
  that the group made (5420-5446).  In the first plan no state version is known when
  the group is disabled, so nothing is blocked and the writer is forgotten; the disabled
  group is then recorded as writer, but `_current_idle_writer_group` never returns a
  disabled group, and the other replicas, which made none of the steps, may train the
  rest of the quota.  The comment at 998-999 wants the opposite: "Never fail over to a
  stale group without state transfer."  `Orphaned` is this state; `NoStaleTraining` and
  `NoMidQuotaSwitch` except it and no other.  Without `~Orphaned`, TLC shows
  `NoStaleTraining` violated in 16 states.
* *A head that the actor could not give is not asked for again.*  After `FetchFails`
  (`speco_ray_trainer.py:6578-6587`) the quota has no head, collection is blocked by
  the unpublished quota, and only a collection starts a prefetch: the top-up defers in
  each step.  No property is stated, since no document promises a retry.

### Standalone training

Each party is a module with its own variables; everything shared is in
`StandaloneChannels`, and a step of one party is conjoined in
`StandalonePipeline` with UNCHANGED for the other two.  Samples are their
run-global sequence numbers.  The *producer* has `Inflight` request workers
(`Request`), whose results are published in any order (`PublishOne`), or sent as
numbered batches of metadata (`SubmitReferences`); `Notify` is the coalescing
notifier.  The *driver* is at `drv`: it reconciles ("plan": gate, listing, one
`Dispatch` per complete batch, then stop or wait) after each item of news it takes
while it waits.  The *consumer* has a prefetch thread (`Fetch`, at most `Depth`
ahead), a training loop (`Train`, `Account`), the finalization of trained batches
(`Clear`, `Announce`; on a thread of its own for references) and checkpoints (`Save`
copies, `FinalizeSave` publishes).  The ranks act in lockstep through
all-reduces and appear as one.

`Faults`: "put" is a put to the store that raises, with or without effect, and is
retried or gives up; "copy" is a Ray queue put repeated by `retry_io` after it
landed, the copy adjacent because Ray keeps one caller's calls in order; "drop"
is a failed or filtered request; "fail" is a rank that raises; "crash" is the loss
of everything at any moment.  `Relaunch` is the next launch: empty store (a run id
of its own), model and consumed sequence numbers from the latest checkpoint.
`model` counts how often the model in memory was trained on each sample; it is
saved in and restored from checkpoints, which makes resume exact or not.
Plan and batch ids start at 1 here, at 0 in the code.

Two things to know about the code, seen while modelling:

* *The tail waits for the drain timeout.*  The producer's `run` returns only when
  the store is empty (`standalone_tq_producer.py:1766-1790`, 1848-1888, 1800 s by
  default); the driver drops an incomplete last batch only once the producer has
  returned (`standalone_ray_runtime.py:826-846`).  When the number of samples is no
  multiple of the batch, only the timeout ends this, though the docstring calls it
  a bound for a stalled consumer.  In the model that is `DrainTimeout`, without which
  `PipelineEnds` fails.
* *A sample may be trained twice after an ambiguous put.*  `publish_one` repeats a put
  that raised after it took effect; if the consumer has cleared the sample
  meanwhile, it is listed, planned and trained again.  `twice` records these
  samples and `ExactlyOnce` excepts them, and no others.

## What the runs check

| Run | Question | Size |
|---|---|---|
| `collect_only` | is a collection into the Feature Store atomic, durable, without leaks? refines `AtomicCollection` | 2 owners, 2 collections, up to 2 samples per owner, 1 restart |
| `online` | the same for the in-memory buffers, as far as the code provides it; does `execute()` end? | as above |
| `online_raise` | finding 1 | 2 owners, 1 collection, no restart |
| `quota` | accounting, publication, deadlines, checkpoints, end of the run; is no quota stranded, does every quota settle, also when inputs are missing in some steps? | 11 steps, quota of 4, one full collective, steps 5, 6 and 9 unready |
| `quota_stranded` | finding 2 | 4 steps, quota of 2 |
| `replay` | are reservations, pins, sessions and evictions consistent in every interleaving? | buffer of 2, 5 samples in at most 3 versions, quota of 2, 3 plans |
| `replay_hidden` | finding 3 | as `replay`, with `LateRollback` |
| `replay_pins` | finding 4 | as `replay`, with `AbandonedAttempts` |
| `idle_training` | do serving, training and update exclude each other in every interleaving, with failing preflights and steps? refines `DeviceUse` | 3 workers, 2 replicas, a team of the 2 workers of one, 2 plans, 3 requests, 2 rollouts |
| `idle_progress` | is a waiting replica served, and a boundary reached, also with failing requests and parks? | as above, 1 plan, 1 rollout, 2 requests at once |
| `writer_group` | does whoever trains have every step, the samples and the head; when may the writer change? | 3 groups of 2 shards, 6 steps, quota of 3, caches of 2 heads |
| `standalone` | is every sample trained once, do the parties agree, is the end accounted, does it end? | 4 samples in batches of 2, prefetch of 1, budget of 2 steps, both stores, 1 fault |

Why the bounds are enough.  Two owners give every disagreement between owners
(one answers, the other is suspended, restarted or has not started); two
collections give stale calls, stages and snapshots of an earlier one; a bucket
of two lets a commit be suspended with part of its samples stored.  A quota run
of six or more steps covers several cycles of collection, training,
publication and release with the periods of collection, training, publication
and saving out of phase; a quota of three or four allows partial idle plans,
soft top-ups that leave the last step, and forced completion.  Three groups give a writer, a target and
a group that is lost meanwhile, two shards a transfer that stops half-way; six steps
fill caches of two heads and give three quotas.  A buffer of two with
five samples and collections of up to two is full of protected samples, evicts
around them, and sees a version follow a version; three plans give a session that
is kept, resumed and finalized.  One replica on the team's
devices and one beside them give a rollout that training needs beside it and a rollout
that waits for it; two plans let a late reclaim meet the next plan; two rollouts let
a plan or a late call meet the next one.  Four samples in batches of two fill the
prefetch and the finalization; a dropped or repeated sample gives a tail; the
budget ends the run before the data or with them, and one crash suffices for a
checkpoint of each kind to be resumed from.  `StandaloneProperties` was also
explored by hand with up to three faults, prefetch 0 and 2, and budgets 0, 1 and 3.
The owners are
interchangeable, so `collect_only` uses symmetry, and so does `idle_training` for the
team and `writer_group` for the groups; the liveness runs do not.  `idle_progress` has fewer
requests than `idle_training`: the state graph of the larger instance is out of
reach with liveness.

`CHECK_DEADLOCK FALSE`: a transaction model stops after its last collection and
a training run after its last step or a failure.

Fairness.  `FairSpec` of the transaction: the driver thread runs, an owner's
event loop serves its calls (Ray's actor loop), and an awaited object reference
resolves or fails.  No fairness for beginning a collection or for restarts.
`FairSpec` of the quota: the training loop goes on (weak fairness on the hooks,
not on `Collect` or `LaunchIdle`); generation returns, plans end at their
deadline or reclaim, publications are answered or time out into an exception.
`FairSpec` of idle training: every thread that runs by itself goes on (event loop,
main thread, watchers, each worker once it was asked, each server's lock); nobody
has to send or cancel a request.  `FairSpec` of standalone training: while
producer, driver or consumer can do something, one of them does; no step of
theirs repeats for ever, so this is enough.  Relaunching is nobody's duty.

## What is proved

For all values of the constants, from the named assumptions in the modules
(finite bounds are natural numbers, switches are Booleans, `Owners` is not
empty):

* `CollectionProofs`: `CollectionInv` is an invariant.  The argument for
  `FailedLeavesNothing` in collect_only mode is the *point of no return*: finalize
  calls exist only for collections that all owners committed (`FinalizeIsLast`),
  the store holds samples of those only (`StoredIsFinal`), since a journal holds
  samples of its own collection only (`JournalIsOwn`) and is written out by
  finalize alone; a failed collection never gets there.
  `FailedLeavesNothing` alone is not inductive: a queued finalize or a journal of
  another collection could break it in the next step.
* `TransactionProofs`: `TransactionInv` is an invariant.  It adds to `CollectionInv` what
  each owner holds and has still to serve (`OwnerInv`).  `InOrder`: an owner serves its
  calls in the order in which the driver sends them, of all collections, and has none
  left when it answers.  `CleanupComes`: what is staged or journalled has a later call of
  its collection coming, unless its finalize ended ambiguous.  `Revocable`: a
  snapshot holds all samples there to stay, and beside them only what a commit left that
  went on after its rollback (finding 1).  `TakesAll`: a commit that rejects nothing
  commits the owner's whole share, which stays until finalize.  `Settled` and `Dated` tie outcomes,
  acknowledgements and incarnations to the calls.  It gives `CompletedIsDurable`,
  `NoTransactionLeft`, `RejectedLeavesNothing`, `CompletedEverywhere` and
  `CommittedDataSurvives`, which all depend on the calls still queued.
  In collect_only mode every step maps to a step of `AtomicCollection` or to a stutter
  (`CollectOnlyIsAtomic`): `Begin` opens, `AfterStage` and `AfterCommit` stutter,
  `AfterFinalize` completes or gives up, `AfterCleanup` fails, `Restart` loses, and an
  owner's handler stutters, except a finalize served after the driver has given up,
  which shows more of the ambiguous collection.
  `AnswersCome` is the safety half of `ExecuteEnds`: the driver never waits for an
  answer that nobody will give.
* `QuotaProofs`: `QuotaInv` is an invariant, and from it `WorkMatchesQuota`,
  `OnlyWholeQuotasServed`, `CheckpointIsWhole`, `EndIsComplete`, `DeadlineKept`.
  The core is `SingleFlight` (at most one publication waits, of a claimed quota
  with no debt), `PlanFitsDebt` (a plan publishes iff it repays the whole debt),
  `StillPublishable` (a waiting plan is of the step the workers know) and
  `ServedIsRepaid` (no claim means everything trained is served).
  `NeverStranded` and `NoInternalError` are proved under `NothingSkipped`, the
  condition that excludes finding 2.
  `SettledInTime` bounds `QuotaSettles` where blocking top-ups are on and never lack
  their inputs: while a quota is claimed, the training loop is at most
  `MaxCompletionLag + 1 + max(1, MaxPublishLag)` steps past the step in which it was due.
  `RepaidInTime` (a debt survives a top-up only before its deadline) and `PublishedInTime`
  (the publication is deferred in the step of the training, staged at the next boundary
  and acknowledged before it lags too far) carry it, with `NeverStranded` for the quota
  that owes nothing.  The bound is reached: with collections six
  steps apart TLC violates it if it is one step less.
* `ReplayProofs`: `BufferInv` is an invariant.  Without any condition it gives
  `TypeOK` (the capacity is kept), `ProtectedStay` and `ReservationStable`; without
  `LateRollback` also `HiddenOnlyInFlight`, and without `AbandonedAttempts` moreover
  `CheckpointAccepted`.  The core is `SnapshotInv`: flags are set in a preflight, which
  no collection meets, so whatever is protected during a collection was in its
  snapshot and a rollback keeps it.  `SessionInv` ties pins to the session of an
  unpaid quota: a session outlives a plan only if debt is left (`Retained`).
  `DataInv` (with a debt the buffer, and the snapshot that a rollback would restore,
  have a sample of the quota's version) gives `QuotaHasData`, under the same two
  conditions.  `QuotaHasData` alone is not inductive: a rollback could undo it.
* `IdleTrainingProofs`: `LeaseInv` is an invariant, for any replicas, workers and
  numbers of plans and requests.  Its core is `RolloutLeases` (the bus counts one
  rollout lease for exactly the replicas whose server has one, or whose late call
  will give it back), `TrainingLeases` (the training lease covers the team from
  reservation to outcome, beside no rollout lease) and `PlanPhases` (which worker
  states go with which turn of event loop and main thread).  It gives `NoOverlap`,
  `NothingLeaks`, `OverlapReclaimed`, `NothingInUpdate` and the refinement of
  `DeviceUse`.  `BusyIsAnnounced` is inductive beside `LeaseInv`, which gives
  the leases that a drained event must agree with.  `WaitersReclaim` is the safety half of
  `WaiterServed`: whoever waits on the bus waits for plans that were asked to stop.
  `NeverHangs` is the safety half of `BoundaryReached`: a plan that runs is never left
  with workers that wait for each other at a barrier.  It rests on `StepTogether` (the team
  enters and leaves an optimizer step together).
  `ReclaimsInTime` (a reclaim under way is of an older plan, or of one the
  bus reclaims) gives `ReclaimIsOfThisPlan`, and `StepsCounted` gives `StepsAccounted`.
  None of them is inductive alone: `NoOverlap` needs that a serving replica holds
  its lease and that a prepared worker's plan does.  `TypeOK` and `NoOverlap` are in no
  run of their own: the runs check `UseSpec`, which contains the second.

* `WriterProofs`: `WriterInv` is an invariant, for any groups, shards, cache sizes and
  numbers of steps.  `NoStaleTraining` alone is not inductive: it says nothing of the
  group that a transfer is about to make the owner.  `WriterOwns` (the writer has all
  steps, unless its loss blocked every group or the steps were orphaned), `PlanInTurn`
  and `HandoffInTurn` (what is transferred is the whole published state, and a shard
  that took it over has nothing else) give `NoStaleTraining`; with `QuotaInTurn`, `HandoffInTurn` (a
  transfer has the whole debt still ahead) gives `NoMidQuotaSwitch`;
  `PrefetchInTurn` (a head under way is the open quota's, and is in each cache that
  acknowledged it) and `HeadsHeld` give `HeadInPlace`.
* `StandaloneProofs`: `InOrder` and `QueuesInOrder` (plans and messages go through
  the pipeline by number; a copy is never ahead of its original) are an invariant
  by themselves.  `OneWay` rests on them: a sample is to be asked for, on its way, ready
  or in one plan (`AskedOnce`, `HandedOn`, `PlannedOnce`, `ToldOnce`), which gives
  `ExactlyOnce` together with `SavingExact` and `DueIdle` (a checkpoint's copy is taken
  between two batches).  `ExactlyOnce` alone says nothing of what is still to be trained.
* `StandaloneEndProofs`: `StoreHolds` (a plan's samples stay in the store until it is
  cleared), `BudgetKept` (the driver knows the step the consumer started from and plans
  no more than is left) and `EndsInTurn` (who may end, and when) give
  `NoInternalError`.  `LearnedPlans` and `NothingForgotten` (the driver stops at the
  tail with an empty store and no producer) give `EndIsAccounted`.
  `NeverStuck` is the safety half of `PipelineEnds`: a launch that is not over always has
  a party whose guard holds.  It rests on `HintCovered` (the driver's count of ready
  samples is what was published less the batches completed, and never more than what
  is ready, or planned and not yet cleared), `GateFollows` (a shut gate means more than
  the lower watermark was counted; waiting with no plan outstanding means less than a batch was;
  so it does not wait behind a shut gate, because a batch is at most the lower
  watermark) and `Noticed` (who has left was noticed, or its notice is on its way).
  The guards (`ProducerCanGo`, `ConsumerCanGo`, `DriverCanGo`) are written out, since
  `ENABLED` is out of the prover's reach; that each implies an enabled step was checked
  with TLC by hand, on the instance of `standalone`.

`AnswerComes`, `SettledInTime`, `WaitersReclaim`, `NeverHangs` and `NeverStuck` are in no
run: the runs check the liveness properties whose safety half they are.  Before it was
proved, each was explored by hand with TLC on the instance of its component's run
(`SettledInTime` on that of `quota` with `Unready = {}`, and with collections further
apart, so that the claim is not vacuous).

Model-checked only: liveness (`ExecuteEnds`, `QuotaSettles`, `WaiterServed`,
`BoundaryReached`, `PipelineEnds`).  Under fairness it needs `ENABLED`, which the
prover's temporal backend does not treat.  Every safety and action property of a passing
run, and both refinements, are proved.

## Findings

1. **A failed online collection can leave samples behind** (`online_raise`).
   `docs/drafter_scheduler.md:272-273`: "Failed collection uses abort or rollback
   and never treats partially committed data as trainable."  When a commit
   raises on one owner, `execute()` rolls back at once
   (`collection_strategy.py:195-199`); another owner, suspended in its commit
   coroutine, serves the rollback first and then goes on storing samples.  The
   collect_only path is safe (proved), because the resumed coroutine finds no journal.
2. **A quota completed by a full-collective top-up between publish intervals is
   never published** (`quota_stranded`).  Its plan is SYNC
   (`drafter_scheduler.py:4000-4015`), so `plan_publish` (5767-5774) does not treat it
   as a completed quota; the claim stays with no debt and blocks collection, idle
   training and checkpoints.
3. **A rollback can bring consumed samples back, reserved for ever** (`replay_hidden`).
   `data_buffer.py:124-125`: "samples reserved by another in-flight plan are hidden".
   A collection takes its snapshot, the final plan finalizes and consumes its
   samples (whose reservation key stays: `release_reservation` scans the buffer
   only), the collection fails elsewhere and the rollback restores the snapshot's
   deque.  The samples are reserved by a plan that is over: never trained on,
   never evicted, and no checkpoint is accepted any more.
4. **Pins of an abandoned idle attempt outlive their quota** (`replay_pins`).
   `checkpoint.py:54-56` tells to resume "from a checkpoint saved after quota
   publication".  An idle plan that made no step leaves its pins to a next plan;
   with one full collective the quota may be completed by a SYNC plan instead
   (`drafter_scheduler.py:4005-4015`), which neither works with the session nor ends
   it.  After the publication every `save_checkpoint` raises.

Two more defects are known and have no run that is meant to fail; passing properties
except them, and nothing else, so these properties say nothing about them:

* `Orphaned`, excepted by `NoStaleTraining` and `NoMidQuotaSwitch`: the first plan's
  group is disabled before the steps it made are booked (`drafter_scheduler.py:5350`).
  The code takes the branch of the comment at 994-995, "No optimizer update has happened
  yet, so another initialized group still has an equivalent training state", although
  updates have happened, and another group trains without them, which 998-999 rules out:
  "Never fail over to a stale group without state transfer."  See *WriterGroup*.
* `twice`, excepted by `ExactlyOnce`: a put that raised after it took effect is repeated
  when the sample has been trained and cleared.  No document promises otherwise: the
  comment at `standalone_tq_producer.py:214-216` is about failed cleanups.  See
  *Standalone training*.

## Plan

Done: the transaction that collects samples, the buffer that training consumes them
from, the quota that drives both, training on idle rollout workers with the lease
bus, the group that owns the training state and its target heads, and standalone
training.  Next, in this order:

1. Composition of `IdleTraining` with the reservations of `ReplayBuffer`, and of
   `WriterGroup` with the leases that a transfer takes.
2. Full-collective topologies and their hot bootstrap in `WriterGroup`.
3. A bound like `SettledInTime` for the other two: how many plans a waiting replica can
   outlast (`WaiterServed`), and how many steps remain after a rollout (`BoundaryReached`).

## Not modelled

File formats and restore of checkpoints, the engine patches of SGLang and vLLM,
drafter models and tensor code, floating-point policies (their decisions are free
choices in `TrainingQuota`), command line, metrics and logging: no protocol, or
outside this repository.  TransferQueue itself is an external service.  Inside
the modelled parts: the reasons why a plan is not launched (worker status, cold
target heads, short windows) are nondeterminism; the collection of samples from
old log-probabilities is the same `Collect`.  `ReplayBuffer` leaves out sample ids,
`clear`, the FIFO path of sync training and loading a checkpoint's buffer.  It also leaves
out the `require_full_batch` branch of a reservation (`base_trainer.py:6485-6490`), which
is not reached: in the same segment without an `await`, the preflight has counted a full
batch of this version (`speco_worker.py:2153-2180`), and a session never holds fewer
samples than are available.
`WriterGroup` leaves out full-collective topologies and their bootstrap, restarts from a
checkpoint, head versions that only a replay session spares, and the device leases of a
transfer.  `IdleTraining` leaves out how the scheduler picks a group and a budget, and calls to
the bus that fail.  When a worker raised during park, the driver's `except` paths
release the training lease (`speco_ray_trainer.py:3056-3062`, 3336-3338), although the
comment in `base_trainer.py` near 7765 wants no serving on such a device: `residue`
keeps track of it, and no property is stated, since the job dies at the boundary.
The standalone model leaves out metrics events, the bound of the event queue for
references (its puts block, and time out into a retry), the polling loop without a
driver, shuffling of the input, pinned memory, and whether samples are lost when the
producer closes its client after a drain timeout: that is the store's behaviour.  The
input is read once (`max_samples <= 0`).  The producer's bounded mode, which replaces
dropped samples from an endless input and raises after too many drops in a row
(`max_consecutive_feature_drops`, `standalone_tq_producer.py:1019-1059`), is left out, and
so is the failure of a producer whose references exhaust their retries
(`standalone_ray_runtime.py:205-232`); both end the job, as the fault "crash" does.

The admission barrier of asynchronous rollouts (`integration/rollout_admission.py`) and
the policy that reclaims memory for a publication (`integration/publish_reclaim.py`) are
not modelled, nor is the trainer for verl V1 (`trainer/v1/`): it hooks the same scheduler
and workers into a loop that belongs to verl V1, and refuses idle training and collection
from SGLang (`speco_mixin.py:605-652`), so that there are no idle plans, no leases and no
suspended commits there; publishing to servers that go on serving uses the barrier.

How far the deadline of a quota may lie behind its collection
(`drafter_scheduler.py:3639`) is not checked: `DeadlineKept` and `QuotasSettleInTime`
take the deadline as the code computes it, and no document bounds it.
