---------------------------- MODULE ReplayBuffer ----------------------------
(***************************************************************************)
(* The sample buffer of one owner and the replay sessions that idle        *)
(* training keeps on it.  A plan reserves the samples of the quota's data  *)
(* version; the first plan's choice becomes the version's session, whose   *)
(* samples stay pinned from plan to plan until the plan that repays the    *)
(* quota consumes what was trained on.  Collections go on while a plan     *)
(* trains: train_drafter and the commit coroutine yield to each other.     *)
(*                                                                         *)
(* Samples are numbered as they enter the buffer, so the deque is the set  *)
(* of its samples and its oldest sample is the least.  Their flags are     *)
(* keys of the sample's dict: they outlive its removal from the deque.     *)
(***************************************************************************)
EXTENDS Naturals, FiniteSets

CONSTANTS
  Capacity,          \* data_buffer_size
  BatchSize,         \* batch_size
  TargetSteps,       \* training_quota_target_steps
  DirectSamples,     \* SGLang hands over samples during the rollout
  OneCollective,     \* every training group spans all workers
  LateRollback,      \* a plan may consume samples of a collection's snapshot
  AbandonedAttempts, \* a collective top-up may follow an idle attempt without a step
  MaxPerCollection,  \* bound: samples of one collection on this owner
  MaxSamples,        \* bound: samples offered to the buffer
  MaxVersions,       \* bound: data versions
  MaxPlans           \* bound: plans

ASSUME SizesAssumption ==
  {Capacity, BatchSize, TargetSteps, MaxPerCollection} \subseteq Nat \ {0}
ASSUME BoundsAssumption == {MaxSamples, MaxVersions, MaxPlans} \subseteq Nat
ASSUME SwitchesAssumption ==
  {DirectSamples, OneCollective, LateRollback, AbandonedAttempts} \subseteq BOOLEAN

VARIABLES
  buffer,      \* data_buffer.buffer
  version,     \* target_version of each sample
  reserved,    \* _drafter_reserved_by of each sample, 0 for None
  pinned,      \* samples with _drafter_replay_pinned
  made,        \* samples offered so far
  sessions,    \* _training_replay_sessions, no items for none
  plan,        \* the plan prepared or in training on this owner
  plans,       \* plans so far
  collection,  \* the collection in flight: commit journal, samples to come
  current,     \* data version of the latest collection
  fresh,       \* the rollout of that version still runs
  owed,        \* _training_quota_debt_steps
  unpublished, \* _training_quota_collection_step is not None
  writer,      \* _idle_worker_writer_state_version is not None
  consumed     \* history: samples consumed by finalized sessions

sampleVars  == <<buffer, version, reserved, pinned, made, consumed>>
planVars    == <<sessions, plan, plans>>
quotaVars   == <<owed, unpublished, writer>>
collectVars == <<collection, current, fresh>>
vars == <<sampleVars, planVars, quotaVars, collectVars>>

Samples  == 1..MaxSamples
Versions == 1..MaxVersions

NoSession  == [items |-> {}, used |-> {}]
NoPlan     == [id |-> 0, steps |-> 0, done |-> 0, training |-> FALSE]
NoCollection == [open |-> FALSE, snapshot |-> {}, left |-> 0]

TypeOK ==
  /\ buffer \subseteq Samples /\ Cardinality(buffer) <= Capacity
  /\ version \in [Samples -> {0} \union Versions]
  /\ reserved \in [Samples -> 0..MaxPlans]
  /\ pinned \subseteq Samples /\ consumed \subseteq Samples
  /\ made \in 0..MaxSamples
  /\ sessions \in [Versions -> [items : SUBSET Samples, used : SUBSET Samples]]
  /\ plan \in [id : 0..MaxPlans, steps : 0..TargetSteps, done : 0..TargetSteps,
               training : BOOLEAN]
  /\ plans \in 0..MaxPlans
  /\ collection \in [open : BOOLEAN, snapshot : SUBSET Samples,
                     left : 0..MaxPerCollection]
  /\ current \in {0} \union Versions
  /\ owed \in 0..TargetSteps
  /\ {fresh, unpublished, writer} \subseteq BOOLEAN

Init ==
  /\ buffer = {} /\ pinned = {} /\ consumed = {} /\ made = 0
  /\ version = [s \in Samples |-> 0]
  /\ reserved = [s \in Samples |-> 0]
  /\ sessions = [v \in Versions |-> NoSession]
  /\ plan = NoPlan /\ plans = 0
  /\ collection = NoCollection /\ current = 0 /\ fresh = FALSE
  /\ owed = 0 /\ unpublished = FALSE /\ writer = FALSE

-----------------------------------------------------------------------------
(* Collections *)

Protected == {s \in buffer : reserved[s] # 0 \/ s \in pinned}

(* The commit of a collection on this owner starts with a snapshot of the  *)
(* buffer.  A blocked quota admits only the samples of its own rollout.    *)
(* The driver collects and launches under one lock, and waits for a        *)
(* preflight: a plan that a collection meets is in training.               *)
BeginCollection ==
  /\ ~collection.open
  /\ plan.id # 0 => plan.training
  /\ \E n \in 1..MaxPerCollection :
        /\ made + n <= MaxSamples
        /\ collection' = [open |-> TRUE, snapshot |-> buffer, left |-> n]
  /\ \/ /\ unpublished /\ fresh /\ DirectSamples
        /\ UNCHANGED <<current, fresh>>
     \/ /\ ~unpublished /\ current < MaxVersions
        /\ current' = current + 1
        /\ fresh' = TRUE
  /\ UNCHANGED <<sampleVars, planVars, quotaVars>>

(* Mutant: room is made one sample too late.                               *)
EvictsLate(kept) ==
  IF Cardinality(buffer) <= Capacity
  THEN kept = buffer
  ELSE \E oldest \in buffer \ Protected :
          /\ \A s \in buffer \ Protected : oldest <= s
          /\ kept = buffer \ {oldest}

(* Mutant: plain FIFO eviction.                                            *)
EvictsOldest(kept) ==
  IF Cardinality(buffer) < Capacity
  THEN kept = buffer
  ELSE \E oldest \in buffer :
          /\ \A s \in buffer : oldest <= s
          /\ kept = buffer \ {oldest}

(* What stays of the buffer when a sample is added: at capacity the oldest *)
(* unprotected sample makes room.                                          *)
Evicts(kept) ==
  IF Cardinality(buffer) < Capacity
  THEN kept = buffer
  ELSE \E oldest \in buffer \ Protected :
          /\ \A s \in buffer \ Protected : oldest <= s
          /\ kept = buffer \ {oldest}

(* add_batch, called by the commit coroutine: a full buffer of protected   *)
(* samples declines the new one, which collect_online_data still accepts.  *)
StoreSample ==
  LET sample == made + 1
      full   == Cardinality(buffer) >= Capacity /\ buffer \subseteq Protected
  IN  /\ collection.open /\ collection.left > 0
      /\ collection' = [collection EXCEPT !.left = @ - 1]
      /\ made' = sample
      /\ version' = [version EXCEPT ![sample] = current]
      /\ IF full
         THEN buffer' = buffer
         ELSE \E kept \in SUBSET buffer : Evicts(kept) /\ buffer' = kept \union {sample}
      /\ UNCHANGED <<reserved, pinned, consumed, planVars, quotaVars, current, fresh>>

(* A durable collection registers the quota of its data version, once.     *)
CollectionSucceeds ==
  /\ collection.open /\ collection.left = 0
  /\ collection' = NoCollection
  /\ unpublished' = TRUE
  /\ owed' = IF unpublished THEN owed ELSE TargetSteps
  /\ UNCHANGED <<sampleVars, planVars, writer, current, fresh>>

(* Mutant: the rollback clears the buffer.                                 *)
CollectionFailsClearing ==
  /\ collection.open
  /\ collection' = NoCollection
  /\ buffer' = {}
  /\ UNCHANGED <<version, reserved, pinned, made, consumed, planVars, quotaVars,
                 current, fresh>>

(* Another owner fails: the rollback restores the deque of the snapshot.   *)
CollectionFails ==
  /\ collection.open
  /\ LateRollback \/ collection.snapshot \intersect consumed = {}
  /\ collection' = NoCollection
  /\ buffer' = collection.snapshot
  /\ UNCHANGED <<version, reserved, pinned, made, consumed, planVars, quotaVars,
                 current, fresh>>

RolloutEnds ==
  /\ fresh /\ ~collection.open
  /\ fresh' = FALSE
  /\ UNCHANGED <<sampleVars, planVars, quotaVars, collection, current>>

-----------------------------------------------------------------------------
(* Plans *)

Available == {s \in buffer : reserved[s] = 0 /\ version[s] = current}
Reserved  == {s \in buffer : reserved[s] = plan.id}

Oldest(k, S) == {s \in S : Cardinality({t \in S : t < s}) < k}

(* The samples of the session a plan of n steps works with.  A first plan  *)
(* that leaves steps to later ones takes all samples of its version.       *)
SessionItems(n) ==
  LET items == sessions[current].items
  IN  IF items = {}
      THEN IF n < owed THEN Available ELSE Oldest(n * BatchSize, Available)
      ELSE IF DirectSamples THEN items \union Available ELSE items

Selected(n) == {s \in SessionItems(n) : s \in buffer /\ reserved[s] = 0}

(* reserve_training_data for a new plan of n steps.  Its branch for        *)
(* require_full_batch is left out: the preflight has just counted a full   *)
(* batch of this version, and no await lies between.                       *)
Reserve(n) ==
  /\ reserved' = [s \in Samples |-> IF s \in Selected(n) THEN plans + 1 ELSE reserved[s]]
  /\ pinned' = pinned \union Selected(n)
  /\ sessions' = [sessions EXCEPT ![current].items = SessionItems(n)]

(* preflight_drafter_training of an idle plan or a top-up of n steps.  The *)
(* quota keeps its data version until it is published.                     *)
Preflight ==
  /\ plan = NoPlan /\ plans < MaxPlans /\ ~collection.open
  /\ Available # {}
  /\ \E n \in 1..owed :
        /\ Selected(n) # {} /\ Reserve(n)
        /\ plan' = [id |-> plans + 1, steps |-> n, done |-> 0, training |-> FALSE]
  /\ plans' = plans + 1
  /\ UNCHANGED <<buffer, version, made, consumed, quotaVars, collectVars>>

(* Mutant: a plan that is over keeps its reservation.                      *)
ReleaseNothing(remaining) == reserved' = reserved

(* release_reservation looks for the plan's samples in the buffer only.    *)
Release(remaining) ==
  reserved' = [s \in Samples |->
                 IF s \in remaining /\ reserved[s] = plan.id THEN 0 ELSE reserved[s]]

(* Activation failed, the plan expired before it was ready, or another     *)
(* owner's preflight failed and the driver aborts this one.                *)
AbandonPreflight ==
  /\ plan.id # 0 /\ ~plan.training
  /\ Release(buffer)
  /\ plan' = NoPlan
  /\ UNCHANGED <<buffer, version, pinned, made, consumed, sessions, plans,
                 quotaVars, collectVars>>

Launch ==
  /\ plan.id # 0 /\ ~plan.training
  /\ plan' = [plan EXCEPT !.training = TRUE]
  /\ UNCHANGED <<sampleVars, sessions, plans, quotaVars, collectVars>>

(* One optimizer step on a batch sampled from the plan's reservation.      *)
TrainBatch ==
  /\ plan.training /\ plan.done < plan.steps
  /\ \E batch \in SUBSET Reserved :
        /\ batch # {}
        /\ Cardinality(batch) = BatchSize
           \/ (batch = Reserved /\ Cardinality(batch) < BatchSize)
        /\ sessions' = [sessions EXCEPT ![current].used = @ \union batch]
  /\ plan' = [plan EXCEPT !.done = @ + 1]
  /\ UNCHANGED <<sampleVars, plans, quotaVars, collectVars>>

(* Mutant: a plan for the whole debt keeps its session, too.               *)
RetainedAtLastStep == plan.steps <= owed \/ plan.done < plan.steps

(* Mutant: a final plan that stopped early ends the session.               *)
RetainedUnlessFinal == plan.steps < owed

(* A plan that was to leave steps to later ones, or that stopped early,    *)
(* leaves the session to the next plan.                                    *)
Retained == plan.steps < owed \/ plan.done < plan.steps

Taken == {s \in sessions[current].used \intersect buffer : reserved[s] = plan.id}

KeepSession ==
  /\ Retained
  /\ Release(buffer)
  /\ UNCHANGED <<buffer, pinned, sessions, consumed>>

(* finalize_training_data_reservation consumes what was trained on.        *)
FinalizeSession ==
  /\ ~Retained
  /\ pinned' = pinned \ sessions[current].items
  /\ buffer' = buffer \ Taken
  /\ consumed' = consumed \union Taken
  /\ sessions' = [sessions EXCEPT ![current] = NoSession]
  /\ Release(buffer')

(* The end of train_drafter: one segment without an await finalizes and    *)
(* releases the reservation.  The driver books the steps.                  *)
EndPlan ==
  /\ plan.training
  /\ KeepSession \/ FinalizeSession
  /\ owed' = owed - plan.done
  /\ writer' = (writer \/ plan.done > 0)
  /\ plan' = NoPlan
  /\ UNCHANGED <<version, made, plans, unpublished, collectVars>>

(* The blocking top-up that trains an untouched quota on the full          *)
(* collective runs with the sync strategy: it reserves nothing.            *)
CollectiveTopUp ==
  /\ OneCollective /\ ~writer
  /\ plan = NoPlan /\ ~fresh /\ ~collection.open
  /\ unpublished /\ owed = TargetSteps
  /\ Available # {}
  /\ AbandonedAttempts \/ sessions[current] = NoSession
  /\ owed' = 0
  /\ UNCHANGED <<sampleVars, planVars, unpublished, writer, collectVars>>

(* The trained drafter reaches the rollouts.                               *)
Publish ==
  /\ unpublished /\ owed = 0
  /\ plan = NoPlan /\ ~fresh /\ ~collection.open
  /\ unpublished' = FALSE
  /\ UNCHANGED <<sampleVars, planVars, owed, writer, collectVars>>

-----------------------------------------------------------------------------
Collecting == BeginCollection \/ StoreSample \/ CollectionSucceeds \/ CollectionFails
Training   == Preflight \/ AbandonPreflight \/ Launch \/ TrainBatch \/ EndPlan
Next == Collecting \/ RolloutEnds \/ Training \/ CollectiveTopUp \/ Publish

Spec == Init /\ [][Next]_vars
=============================================================================
