---------------------------- MODULE ReplayProofs ----------------------------
(***************************************************************************)
(* Proofs about the sample buffer and its replay sessions, for every       *)
(* capacity, batch size, quota and bound.                                  *)
(***************************************************************************)
EXTENDS ReplayProperties, FiniteSetTheorems, TLAPS

-----------------------------------------------------------------------------
(* The buffer *)

(* Sets of samples are finite.                                             *)
LEMMA SamplesFinite ==
  ASSUME NEW S \in SUBSET Samples
  PROVE  IsFiniteSet(S) /\ Cardinality(S) \in Nat
<1>1. IsFiniteSet(Samples)
  BY FS_Interval, BoundsAssumption DEF Samples
<1>2. IsFiniteSet(S)
  BY <1>1, FS_Subset
<1>. QED BY <1>2, FS_CardinalityType

(* What the type invariant says of the numbers and sets of a state.        *)
LEMMA TypeFacts ==
  ASSUME TypeOK
  PROVE  /\ {made, plans, current, owed, MaxSamples, Capacity} \subseteq Nat
         /\ {plan.id, plan.steps, plan.done, collection.left} \subseteq Nat
         /\ TargetSteps \in Nat \ {0}
         /\ current # 0 => current \in Versions
         /\ Samples \subseteq Nat /\ Versions \subseteq Nat
         /\ buffer \subseteq Samples /\ collection.snapshot \subseteq Samples
         /\ reserved \in [Samples -> Nat]
         /\ sessions \in [Versions -> [items : SUBSET Samples, used : SUBSET Samples]]
         /\ plan = [id |-> plan.id, steps |-> plan.steps, done |-> plan.done,
                    training |-> plan.training]
<1>1. {MaxSamples, MaxVersions, MaxPlans, Capacity} \subseteq Nat /\ TargetSteps \in Nat \ {0}
  BY BoundsAssumption, SizesAssumption
<1>2. Samples \subseteq Nat /\ Versions \subseteq Nat
  BY <1>1 DEF Samples, Versions
<1>3. {made, plans, owed} \subseteq Nat
  BY <1>1 DEF TypeOK
<1>4. current \in Nat /\ (current # 0 => current \in Versions)
  BY <1>2 DEF TypeOK
<1>5. {plan.id, plan.steps, plan.done} \subseteq Nat
  BY <1>1 DEF TypeOK
<1>6. collection.left \in Nat /\ collection.snapshot \subseteq Samples
  BY SizesAssumption DEF TypeOK
<1>7. reserved \in [Samples -> Nat]
  BY <1>1 DEF TypeOK
<1>8. plan = [id |-> plan.id, steps |-> plan.steps, done |-> plan.done,
              training |-> plan.training]
  BY DEF TypeOK
<1>. QED BY <1>1, <1>2, <1>3, <1>4, <1>5, <1>6, <1>7, <1>8 DEF TypeOK

(* An eviction takes no protected sample and leaves room for one more.     *)
LEMMA EvictionMakesRoom ==
  ASSUME TypeOK, NEW kept \in SUBSET buffer, Evicts(kept)
  PROVE  /\ Protected \subseteq kept
         /\ \A sample \in Samples : Cardinality(kept \union {sample}) <= Capacity
<1>1. /\ Protected \subseteq buffer /\ buffer \in SUBSET Samples
      /\ Cardinality(buffer) \in Nat /\ IsFiniteSet(buffer) /\ IsFiniteSet(kept)
      /\ Cardinality(kept) \in Nat /\ Capacity \in Nat
  BY SamplesFinite, SizesAssumption DEF TypeOK, Protected
<1>2. ASSUME NEW oldest \in buffer \ Protected, kept = buffer \ {oldest}
      PROVE  Protected \subseteq kept /\ Cardinality(kept) < Capacity
  <2>1. Cardinality(kept) = Cardinality(buffer) - 1
    BY <1>1, <1>2, FS_RemoveElement
  <2>. QED BY <1>1, <1>2, <2>1 DEF TypeOK
<1>3. Protected \subseteq kept /\ Cardinality(kept) < Capacity
  BY <1>1, <1>2 DEF Evicts
<1>4. ASSUME NEW sample \in Samples
      PROVE  Cardinality(kept \union {sample}) <= Capacity
  <2>1. Cardinality(kept \union {sample}) \in {Cardinality(kept), Cardinality(kept) + 1}
    BY <1>1, FS_AddElement
  <2>. QED BY <1>1, <1>3, <2>1
<1>. QED BY <1>3, <1>4

(* Nothing protected is lost when a sample is stored.                      *)
LEMMA StoreKeepsProtected ==
  ASSUME TypeOK, FlagInv, StoreSample
  PROVE  /\ made + 1 \in Samples
         /\ Protected \subseteq buffer'
         /\ buffer' \subseteq buffer \union {made + 1}
         /\ Cardinality(buffer') <= Capacity
<1>1. made + 1 \in Samples
  BY BoundsAssumption DEF TypeOK, FlagInv, StoreSample, Samples
<1>2. CASE buffer' = buffer
  BY <1>1, <1>2 DEF TypeOK, Protected
<1>3. ASSUME NEW kept \in SUBSET buffer, Evicts(kept), buffer' = kept \union {made + 1}
      PROVE  /\ Protected \subseteq buffer'
             /\ Cardinality(buffer') <= Capacity
  BY <1>1, <1>3, EvictionMakesRoom
<1>. QED BY <1>1, <1>2, <1>3 DEF StoreSample

(* What a plan selects, trains on and consumes are samples.                *)
LEMMA SetsOfSamples ==
  ASSUME TypeOK
  PROVE  /\ Protected \subseteq Samples /\ Available \subseteq Samples
         /\ Reserved \subseteq Samples
         /\ \A n : current \in Versions => SessionItems(n) \subseteq Samples
  BY DEF TypeOK, Protected, Available, Reserved, SessionItems, Oldest

-----------------------------------------------------------------------------
(* The steps of a collection, and those of a plan, keep the invariants     *)
(* that hold for every setting of the switches.                            *)

(* Every step keeps the types, and the buffer within its capacity.         *)
LEMMA TypeStep ==
  ASSUME TypeOK, PlanInv, FlagInv, SnapshotInv, [Next]_vars
  PROVE  TypeOK'
<1>. USE DEF sampleVars, planVars, quotaVars, collectVars
<1>. USE SizesAssumption, BoundsAssumption
<1>1. CASE UNCHANGED vars
  BY <1>1 DEF TypeOK, vars
<1>2. CASE BeginCollection
  <2>1. collection' \in [open : BOOLEAN, snapshot : SUBSET Samples, left : 0..MaxPerCollection]
    BY <1>2 DEF BeginCollection, TypeOK
  <2>2. fresh' \in BOOLEAN
    BY <1>2 DEF BeginCollection, TypeOK
  <2>3. current' \in {0} \union Versions
    <3>1. current \in 0..MaxVersions
      BY DEF TypeOK, Versions
    <3>2. current' \in 0..MaxVersions
      BY <1>2, <3>1 DEF BeginCollection
    <3>. QED BY <3>2 DEF Versions
  <2>. QED BY <1>2, <2>1, <2>2, <2>3 DEF BeginCollection, TypeOK
<1>3. CASE StoreSample
  <2>1. /\ made + 1 \in Samples /\ buffer' \subseteq Samples
        /\ Cardinality(buffer') <= Capacity
    BY <1>3, StoreKeepsProtected DEF TypeOK
  <2>2. version' \in [Samples -> {0} \union Versions]
    BY <1>3, <2>1 DEF StoreSample, TypeOK
  <2>3. made' \in 0..MaxSamples
    BY <1>3, <2>1 DEF StoreSample, TypeOK, Samples
  <2>4. collection' \in [open : BOOLEAN, snapshot : SUBSET Samples, left : 0..MaxPerCollection]
    BY <1>3 DEF StoreSample, TypeOK
  <2>. QED BY <1>3, <2>1, <2>2, <2>3, <2>4 DEF StoreSample, TypeOK
<1>4. CASE CollectionSucceeds
  BY <1>4 DEF CollectionSucceeds, NoCollection, TypeOK
<1>5. CASE CollectionFails
  BY <1>5 DEF CollectionFails, NoCollection, SnapshotInv, TypeOK
<1>6. CASE RolloutEnds
  BY <1>6 DEF RolloutEnds, TypeOK
<1>7. CASE Preflight
  <2>1. current \in Versions
    BY <1>7 DEF Preflight, PlanInv, TypeOK
  <2>2. PICK n \in 1..owed :
          /\ Reserve(n)
          /\ plan' = [id |-> plans + 1, steps |-> n, done |-> 0, training |-> FALSE]
    BY <1>7 DEF Preflight
  <2>3. SessionItems(n) \subseteq Samples /\ Selected(n) \subseteq Samples
    BY <2>1, SetsOfSamples DEF Selected
  <2>4. plans + 1 \in 0..MaxPlans /\ n \in 0..TargetSteps
    BY <1>7 DEF Preflight, TypeOK
  <2>5. /\ reserved' \in [Samples -> 0..MaxPlans] /\ pinned' \subseteq Samples
        /\ sessions' \in [Versions -> [items : SUBSET Samples, used : SUBSET Samples]]
    BY <2>1, <2>2, <2>3, <2>4 DEF Reserve, TypeOK
  <2>. QED BY <1>7, <2>2, <2>4, <2>5 DEF Preflight, TypeOK
<1>8. CASE AbandonPreflight
  BY <1>8 DEF AbandonPreflight, Release, NoPlan, TypeOK
<1>9. CASE Launch
  BY <1>9 DEF Launch, TypeOK
<1>10. CASE TrainBatch
  <2>1. current \in Versions /\ plan.done + 1 \in 0..TargetSteps
    BY <1>10 DEF TrainBatch, PlanInv, TypeOK, NoPlan
  <2>2. sessions' \in [Versions -> [items : SUBSET Samples, used : SUBSET Samples]]
    <3>1. PICK batch \in SUBSET Samples :
            sessions' = [sessions EXCEPT ![current].used = @ \union batch]
      BY <1>10, SetsOfSamples DEF TrainBatch
    <3>. QED BY <2>1, <3>1, TypeFacts
  <2>. QED BY <1>10, <2>1, <2>2 DEF TrainBatch, TypeOK
<1>11. CASE EndPlan
  <2>0. KeepSession \/ FinalizeSession
    BY <1>11 DEF EndPlan
  <2>1. /\ buffer' \subseteq buffer /\ pinned' \subseteq Samples /\ consumed' \subseteq Samples
        /\ reserved' \in [Samples -> 0..MaxPlans]
        /\ sessions' \in [Versions -> [items : SUBSET Samples, used : SUBSET Samples]]
    <3>1. reserved' \in [Samples -> 0..MaxPlans]
      BY <2>0 DEF KeepSession, FinalizeSession, Release, TypeOK
    <3>2. CASE KeepSession
      BY <3>1, <3>2 DEF KeepSession, TypeOK
    <3>3. CASE FinalizeSession
      <4>1. Taken \subseteq buffer
        BY DEF Taken
      <4>2. sessions' \in [Versions -> [items : SUBSET Samples, used : SUBSET Samples]]
        BY <3>3 DEF FinalizeSession, NoSession, TypeOK
      <4>3. /\ pinned' \subseteq pinned /\ buffer' \subseteq buffer
            /\ consumed' \subseteq consumed \union buffer
        BY <3>3, <4>1 DEF FinalizeSession
      <4>. QED BY <3>1, <4>2, <4>3 DEF TypeOK
    <3>. QED BY <2>0, <3>2, <3>3
  <2>2. Cardinality(buffer') <= Cardinality(buffer) /\ Cardinality(buffer) \in Nat
        /\ Cardinality(buffer') \in Nat
    BY <2>1, SamplesFinite, FS_Subset DEF TypeOK
  <2>3. owed' \in 0..TargetSteps
    BY <1>11 DEF EndPlan, PlanInv, TypeOK, NoPlan
  <2>. QED BY <1>11, <2>1, <2>2, <2>3 DEF EndPlan, NoPlan, TypeOK
<1>12. CASE CollectiveTopUp
  BY <1>12 DEF CollectiveTopUp, TypeOK
<1>13. CASE Publish
  BY <1>13 DEF Publish, TypeOK
<1>. QED BY <1>1, <1>2, <1>3, <1>4, <1>5, <1>6, <1>7, <1>8, <1>9, <1>10, <1>11,
            <1>12, <1>13 DEF Next, Collecting, Training

(* A plan stays within the debt, and meets a collection only in training.  *)
LEMMA PlanStep ==
  ASSUME TypeOK, PlanInv, [Next]_vars
  PROVE  PlanInv'
<1>. USE DEF sampleVars, planVars, quotaVars, collectVars
<1>0. /\ owed \in Nat /\ plans \in Nat /\ current \in Nat /\ TargetSteps \in Nat \ {0}
      /\ plan.id \in Nat /\ plan.steps \in Nat /\ plan.done \in Nat
      /\ plan = [id |-> plan.id, steps |-> plan.steps, done |-> plan.done,
                 training |-> plan.training]
  BY TypeFacts
<1>1. CASE UNCHANGED vars
  BY <1>1 DEF vars, PlanInv
<1>2. CASE BeginCollection
  <2>1. current' = current + 1 \/ (current' = current /\ unpublished)
    BY <1>2 DEF BeginCollection
  <2>2. current' # 0
    BY <1>0, <2>1 DEF PlanInv
  <2>3. /\ plan.id # 0 => plan.training
        /\ UNCHANGED <<plan, plans, owed, unpublished>>
    BY <1>2 DEF BeginCollection
  <2>. QED BY <2>2, <2>3 DEF PlanInv
<1>3. CASE StoreSample
  <2>1. collection'.open = collection.open
    BY <1>3 DEF StoreSample, TypeOK
  <2>2. UNCHANGED <<plan, plans, owed, unpublished, current>>
    BY <1>3 DEF StoreSample
  <2>. QED BY <2>1, <2>2 DEF PlanInv
<1>4. CASE CollectionSucceeds
  <2>1. unpublished' /\ collection'.open = FALSE /\ current # 0
        /\ UNCHANGED <<plan, plans, current>>
    BY <1>4 DEF CollectionSucceeds, NoCollection, PlanInv
  <2>2. owed' = owed \/ (owed = 0 /\ owed' = TargetSteps)
    BY <1>0, <1>4 DEF CollectionSucceeds, PlanInv
  <2>3. plan.id # 0 => owed' = owed
    BY <1>0, <2>2 DEF PlanInv
  <2>. QED BY <1>0, <2>1, <2>3 DEF PlanInv
<1>5. CASE CollectionFails
  BY <1>5 DEF CollectionFails, NoCollection, PlanInv
<1>6. CASE Preflight
  <2>1. PICK n \in 1..owed :
          plan' = [id |-> plans + 1, steps |-> n, done |-> 0, training |-> FALSE]
    BY <1>6 DEF Preflight
  <2>2. /\ ~collection.open /\ plans' = plans + 1
        /\ UNCHANGED <<owed, unpublished, current, collection>>
    BY <1>6 DEF Preflight
  <2>. QED BY <1>0, <2>1, <2>2 DEF PlanInv
<1>7. CASE AbandonPreflight
  BY <1>7 DEF AbandonPreflight, NoPlan, PlanInv
<1>8. CASE Launch
  <2>1. plan' = [id |-> plan.id, steps |-> plan.steps, done |-> plan.done,
                 training |-> TRUE]
    BY <1>0, <1>8 DEF Launch
  <2>. QED BY <1>8, <2>1 DEF Launch, PlanInv
<1>9. CASE TrainBatch
  <2>1. plan' = [id |-> plan.id, steps |-> plan.steps, done |-> plan.done + 1,
                 training |-> TRUE]
    BY <1>0, <1>9 DEF TrainBatch, TypeOK
  <2>2. plan.id # 0 /\ plan.done < plan.steps
    BY <1>9 DEF TrainBatch, PlanInv, NoPlan
  <2>. QED BY <1>0, <1>9, <2>1, <2>2 DEF TrainBatch, PlanInv
<1>10. CASE EndPlan
  <2>1. plan' = NoPlan /\ owed' = owed - plan.done
        /\ UNCHANGED <<plans, unpublished, current, collection>>
    BY <1>10 DEF EndPlan
  <2>. QED BY <1>0, <2>1 DEF NoPlan, PlanInv
<1>11. CASE RolloutEnds \/ CollectiveTopUp \/ Publish
  BY <1>11 DEF RolloutEnds, CollectiveTopUp, Publish, NoPlan, PlanInv
<1>. QED BY <1>1, <1>2, <1>3, <1>4, <1>5, <1>6, <1>7, <1>8, <1>9, <1>10, <1>11
         DEF Next, Collecting, Training

(* Flags belong to plans that were made, and to samples that came.         *)
LEMMA FlagStep ==
  ASSUME TypeOK, PlanInv, FlagInv, SnapshotInv, [Next]_vars
  PROVE  FlagInv'
<1>. USE DEF sampleVars, planVars, quotaVars, collectVars
<1>0. /\ made \in Nat /\ plans \in Nat /\ MaxSamples \in Nat /\ collection.left \in Nat
      /\ reserved \in [Samples -> Nat] /\ Samples \subseteq Nat
      /\ buffer \subseteq Samples /\ collection.snapshot \subseteq Samples
  BY TypeFacts
<1>1. CASE UNCHANGED vars
  BY <1>1 DEF vars, FlagInv
<1>2. CASE BeginCollection
  <2>1. PICK n \in 1..MaxPerCollection :
          /\ made + n <= MaxSamples
          /\ collection' = [open |-> TRUE, snapshot |-> buffer, left |-> n]
    BY <1>2 DEF BeginCollection
  <2>. QED BY <1>2, <2>1 DEF BeginCollection, FlagInv
<1>3. CASE StoreSample
  <2>1. buffer' \subseteq buffer \union {made + 1}
    BY <1>3, StoreKeepsProtected
  <2>2. /\ made' = made + 1 /\ UNCHANGED <<reserved, pinned, plans>>
    BY <1>3 DEF StoreSample
  <2>3. collection'.snapshot = collection.snapshot /\ collection'.left = collection.left - 1
    BY <1>3 DEF StoreSample, TypeOK
  <2>4. \A s \in (buffer \union collection.snapshot)' : s <= made'
    BY <1>0, <2>1, <2>2, <2>3 DEF FlagInv
  <2>5. \A s \in Samples : s > made' => reserved'[s] = 0 /\ s \notin pinned'
    BY <1>0, <2>2 DEF FlagInv
  <2>6. \A s \in Samples : reserved'[s] <= plans'
    BY <2>2 DEF FlagInv
  <2>7. (made + collection.left)' <= MaxSamples
    BY <1>0, <2>2, <2>3 DEF FlagInv
  <2>. QED BY <2>4, <2>5, <2>6, <2>7 DEF FlagInv
<1>4. CASE CollectionSucceeds \/ CollectionFails
  <2>1. /\ buffer' \subseteq buffer \union collection.snapshot
        /\ UNCHANGED <<reserved, pinned, plans, made>>
        /\ collection' = NoCollection
    BY <1>4 DEF CollectionSucceeds, CollectionFails
  <2>. QED BY <1>0, <2>1 DEF FlagInv, NoCollection
<1>5. CASE Preflight
  <2>1. PICK n \in 1..owed : Reserve(n)
    BY <1>5 DEF Preflight
  <2>2. /\ buffer' = buffer /\ made' = made /\ plans' = plans + 1
        /\ UNCHANGED collection
    BY <1>5 DEF Preflight
  <2>3. \A s \in Selected(n) : s \in buffer
    BY DEF Selected
  <2>4. \A s \in Samples : reserved'[s] = plans + 1 \/ reserved'[s] = reserved[s]
    BY <2>1 DEF Reserve
  <2>5. \A s \in Samples : s > made => s \notin Selected(n)
    BY <1>0, <2>3 DEF FlagInv
  <2>6. \A s \in Samples : s > made => reserved'[s] = reserved[s]
    BY <2>1, <2>5 DEF Reserve
  <2>7. pinned' = pinned \union Selected(n)
    BY <2>1 DEF Reserve
  <2>. QED BY <1>0, <2>2, <2>4, <2>5, <2>6, <2>7 DEF FlagInv
<1>6. CASE AbandonPreflight \/ EndPlan
  <2>1. /\ buffer' \subseteq buffer /\ pinned' \subseteq pinned
        /\ UNCHANGED <<made, plans, collection>>
    BY <1>6 DEF AbandonPreflight, EndPlan, KeepSession, FinalizeSession
  <2>2. \A s \in Samples : reserved'[s] \in {0, reserved[s]}
    BY <1>6 DEF AbandonPreflight, EndPlan, KeepSession, FinalizeSession, Release
  <2>3. \A s \in Samples : reserved'[s] <= plans'
    BY <1>0, <2>1, <2>2 DEF FlagInv
  <2>4. \A s \in Samples : s > made' => reserved'[s] = 0 /\ s \notin pinned'
    BY <1>0, <2>1, <2>2 DEF FlagInv
  <2>. QED BY <2>1, <2>3, <2>4 DEF FlagInv
<1>7. CASE RolloutEnds \/ Launch \/ TrainBatch \/ CollectiveTopUp \/ Publish
  <2>1. UNCHANGED <<buffer, reserved, pinned, made, plans, collection>>
    BY <1>7 DEF RolloutEnds, Launch, TrainBatch, CollectiveTopUp, Publish
  <2>. QED BY <2>1 DEF FlagInv
<1>. QED BY <1>1, <1>2, <1>3, <1>4, <1>5, <1>6, <1>7 DEF Next, Collecting, Training

(* What is protected during a collection was there when it began.          *)
LEMMA SnapshotStep ==
  ASSUME TypeOK, PlanInv, FlagInv, SnapshotInv, [Next]_vars
  PROVE  SnapshotInv'
<1>. USE DEF sampleVars, planVars, quotaVars, collectVars
<1>0. /\ plans \in Nat /\ Capacity \in Nat /\ Cardinality({}) = 0
      /\ buffer \subseteq Samples /\ collection.snapshot \subseteq Samples
      /\ Samples \subseteq Nat /\ reserved \in [Samples -> Nat] /\ plan.id \in Nat
  BY TypeFacts, FS_EmptySet
<1>1. CASE UNCHANGED vars
  BY <1>1 DEF vars, SnapshotInv, Protected
<1>2. CASE BeginCollection
  <2>1. collection'.snapshot = buffer /\ collection'.open
        /\ UNCHANGED <<buffer, reserved, pinned, plan>>
    BY <1>2 DEF BeginCollection
  <2>. QED BY <2>1 DEF SnapshotInv, Protected, TypeOK
<1>3. CASE StoreSample
  <2>1. /\ Protected \subseteq buffer' /\ buffer' \subseteq buffer \union {made + 1}
        /\ made + 1 \in Samples
    BY <1>3, StoreKeepsProtected
  <2>2. /\ collection.open /\ collection'.open
        /\ collection'.snapshot = collection.snapshot
        /\ UNCHANGED <<reserved, pinned, plan>>
    BY <1>3 DEF StoreSample, TypeOK
  <2>3. reserved[made + 1] = 0 /\ made + 1 \notin pinned
    BY <1>0, <2>1 DEF FlagInv, TypeOK
  <2>4. Protected' \subseteq Protected
    BY <2>1, <2>2, <2>3 DEF Protected
  <2>5. \A s \in collection.snapshot : plan.id # 0 /\ reserved[s] = plan.id => s \in buffer'
    BY <2>1 DEF SnapshotInv, Protected
  <2>. QED BY <2>2, <2>4, <2>5 DEF SnapshotInv
<1>4. CASE CollectionSucceeds \/ CollectionFails
  BY <1>0, <1>4 DEF CollectionSucceeds, CollectionFails, NoCollection, SnapshotInv
<1>5. CASE Preflight
  <2>1. ~collection.open /\ UNCHANGED collection
    BY <1>5 DEF Preflight
  <2>. QED BY <2>1 DEF SnapshotInv
<1>6. CASE AbandonPreflight \/ EndPlan
  <2>1. /\ buffer' \subseteq buffer /\ pinned' \subseteq pinned /\ UNCHANGED collection
        /\ plan' = NoPlan
    BY <1>6 DEF AbandonPreflight, EndPlan, KeepSession, FinalizeSession
  <2>2. \A s \in Samples : reserved'[s] \in {0, reserved[s]}
    BY <1>6 DEF AbandonPreflight, EndPlan, KeepSession, FinalizeSession, Release
  <2>3. Protected' \subseteq Protected
    BY <1>0, <2>1, <2>2 DEF Protected
  <2>. QED BY <2>1, <2>3 DEF SnapshotInv, NoPlan
<1>7. CASE RolloutEnds \/ CollectiveTopUp \/ Publish
  <2>1. UNCHANGED <<buffer, reserved, pinned, plan, collection>>
    BY <1>7 DEF RolloutEnds, CollectiveTopUp, Publish
  <2>. QED BY <2>1 DEF SnapshotInv, Protected
<1>8. CASE Launch \/ TrainBatch
  <2>1. plan'.id = plan.id /\ UNCHANGED <<buffer, reserved, pinned, collection>>
    BY <1>8 DEF Launch, TrainBatch, TypeOK
  <2>. QED BY <2>1 DEF SnapshotInv, Protected
<1>. QED BY <1>1, <1>2, <1>3, <1>4, <1>5, <1>6, <1>7, <1>8 DEF Next, Collecting, Training

-----------------------------------------------------------------------------
(* What holds for some settings of the switches only.                      *)

(* With no rollback past a finalization, the plan in flight is the only    *)
(* one that reserves samples.                                              *)
LEMMA ReservedStep ==
  ASSUME ~LateRollback, TypeOK, PlanInv, FlagInv, SnapshotInv, ReservedInv, [Next]_vars
  PROVE  ReservedInv'
<1>. USE DEF sampleVars, planVars, quotaVars, collectVars
<1>0. /\ plans \in Nat /\ buffer \subseteq Samples /\ collection.snapshot \subseteq Samples
      /\ reserved \in [Samples -> Nat] /\ plan.id \in Nat
  BY TypeFacts
<1>1. CASE UNCHANGED vars
  BY <1>1 DEF vars, ReservedInv, HiddenOnlyInFlight
<1>2. CASE BeginCollection
  <2>1. collection'.snapshot = buffer /\ UNCHANGED <<buffer, reserved, pinned, plan, consumed>>
    BY <1>2 DEF BeginCollection
  <2>. QED BY <2>1 DEF ReservedInv, HiddenOnlyInFlight
<1>3. CASE StoreSample
  <2>1. /\ Protected \subseteq buffer' /\ buffer' \subseteq buffer \union {made + 1}
        /\ made + 1 \in Samples
    BY <1>3, StoreKeepsProtected
  <2>2. /\ collection'.snapshot = collection.snapshot
        /\ UNCHANGED <<reserved, pinned, plan, consumed>>
    BY <1>3 DEF StoreSample, TypeOK
  <2>3. reserved[made + 1] = 0
    BY <1>0, <2>1 DEF FlagInv, TypeOK
  <2>4. HiddenOnlyInFlight'
    BY <2>1, <2>2, <2>3 DEF ReservedInv, HiddenOnlyInFlight
  <2>. QED BY <2>1, <2>2, <2>4 DEF ReservedInv, Protected
<1>4. CASE CollectionSucceeds
  BY <1>4 DEF CollectionSucceeds, NoCollection, ReservedInv, HiddenOnlyInFlight
<1>5. CASE CollectionFails
  <2>1. /\ buffer' = collection.snapshot /\ collection' = NoCollection
        /\ UNCHANGED <<reserved, pinned, plan, consumed>>
        /\ collection.snapshot \intersect consumed = {}
    BY <1>5 DEF CollectionFails
  <2>2. HiddenOnlyInFlight'
    BY <2>1 DEF ReservedInv, HiddenOnlyInFlight
  <2>. QED BY <2>1, <2>2 DEF ReservedInv, NoCollection
<1>6. CASE Preflight
  <2>1. PICK n \in 1..owed :
          Reserve(n) /\ plan' = [id |-> plans + 1, steps |-> n, done |-> 0, training |-> FALSE]
    BY <1>6 DEF Preflight
  <2>2. plan = NoPlan /\ collection.snapshot = {} /\ UNCHANGED <<collection, buffer>>
    BY <1>6 DEF Preflight, SnapshotInv
  <2>3. \A s \in buffer : reserved[s] = 0
    BY <2>2 DEF NoPlan, ReservedInv, HiddenOnlyInFlight
  <2>4. HiddenOnlyInFlight'
    BY <1>0, <2>1, <2>2, <2>3 DEF Reserve, HiddenOnlyInFlight
  <2>. QED BY <2>2, <2>4 DEF ReservedInv
<1>7. CASE AbandonPreflight \/ (EndPlan /\ KeepSession)
  <2>1. Release(buffer) /\ UNCHANGED <<buffer, pinned, consumed, collection>>
    BY <1>7 DEF AbandonPreflight, EndPlan, KeepSession
  <2>2. \A s \in buffer : reserved'[s] = 0
    BY <1>0, <2>1 DEF Release, ReservedInv, HiddenOnlyInFlight
  <2>3. \A s \in Samples : reserved'[s] \in {0, reserved[s]}
    BY <2>1 DEF Release
  <2>. QED BY <1>0, <2>1, <2>2, <2>3 DEF ReservedInv, HiddenOnlyInFlight
<1>8. CASE EndPlan /\ FinalizeSession
  <2>1. /\ Release(buffer') /\ buffer' = buffer \ Taken /\ consumed' = consumed \union Taken
        /\ pinned' \subseteq pinned /\ UNCHANGED collection
    BY <1>8 DEF EndPlan, FinalizeSession
  <2>2. \A s \in buffer' : reserved'[s] = 0
    BY <1>0, <2>1 DEF Release, ReservedInv, HiddenOnlyInFlight
  <2>3. \A s \in Samples : reserved'[s] \in {0, reserved[s]}
    BY <2>1 DEF Release
  <2>4. ASSUME NEW s \in collection.snapshot, collection.snapshot \intersect consumed' = {},
               reserved'[s] # 0 \/ s \in pinned'
        PROVE  s \in buffer'
    <3>1. reserved[s] # 0 \/ s \in pinned
      BY <1>0, <2>1, <2>3, <2>4
    <3>2. s \in buffer /\ s \notin Taken
      BY <2>1, <2>4, <3>1 DEF ReservedInv
    <3>. QED BY <2>1, <3>2
  <2>. QED BY <2>1, <2>2, <2>4 DEF ReservedInv, HiddenOnlyInFlight
<1>9. CASE Launch \/ TrainBatch
  <2>1. plan'.id = plan.id /\ UNCHANGED <<buffer, reserved, pinned, consumed, collection>>
    BY <1>9 DEF Launch, TrainBatch, TypeOK
  <2>. QED BY <2>1 DEF ReservedInv, HiddenOnlyInFlight
<1>10. CASE RolloutEnds \/ CollectiveTopUp \/ Publish
  <2>1. UNCHANGED <<buffer, reserved, pinned, plan, consumed, collection>>
    BY <1>10 DEF RolloutEnds, CollectiveTopUp, Publish
  <2>. QED BY <2>1 DEF ReservedInv, HiddenOnlyInFlight
<1>. QED BY <1>1, <1>2, <1>3, <1>4, <1>5, <1>6, <1>7, <1>8, <1>9, <1>10
         DEF Next, Collecting, Training, EndPlan

(* With no top-up past an abandoned session either, what is pinned in the  *)
(* buffer belongs to the session of an unpaid quota.                       *)
LEMMA SessionStep ==
  ASSUME ~LateRollback, ~AbandonedAttempts,
         TypeOK, PlanInv, FlagInv, SnapshotInv, ReservedInv, SessionInv, [Next]_vars
  PROVE  SessionInv'
<1>. USE DEF sampleVars, planVars, quotaVars, collectVars
<1>0. /\ owed \in Nat /\ TargetSteps \in Nat \ {0} /\ current \in Nat
      /\ current # 0 => current \in Versions
      /\ buffer \subseteq Samples /\ Versions \subseteq Nat
      /\ sessions \in [Versions -> [items : SUBSET Samples, used : SUBSET Samples]]
      /\ plan.id \in Nat /\ plan.steps \in Nat /\ plan.done \in Nat
  BY TypeFacts
<1>1. CASE UNCHANGED vars
  BY <1>1 DEF vars, SessionInv
<1>2. CASE BeginCollection
  <2>1. CASE current' = current
    BY <1>2, <2>1 DEF BeginCollection, SessionInv
  <2>2. CASE ~unpublished /\ current < MaxVersions /\ current' = current + 1
    <3>1. owed = 0
      BY <1>0, <2>2 DEF PlanInv
    <3>2. buffer \intersect pinned = {}
      BY <3>1 DEF SessionInv, NoSession
    <3>3. current' \in Versions
      BY <1>0, <2>2, BoundsAssumption DEF Versions
    <3>4. \A v \in Versions : v >= current' => sessions[v] = NoSession
      BY <1>0, <2>2 DEF SessionInv
    <3>5. UNCHANGED <<buffer, pinned, sessions, owed>>
      BY <1>2 DEF BeginCollection
    <3>6. \A v \in Versions : v > current' => sessions[v] = NoSession
      BY <1>0, <2>2, <3>4
    <3>7. sessions[current'] = NoSession
      BY <1>0, <3>3, <3>4, <2>2
    <3>. QED BY <3>2, <3>5, <3>6, <3>7 DEF SessionInv
  <2>. QED BY <1>2, <2>1, <2>2 DEF BeginCollection
<1>3. CASE StoreSample
  <2>1. buffer' \subseteq buffer \union {made + 1} /\ made + 1 \in Samples
    BY <1>3, StoreKeepsProtected
  <2>2. made + 1 \notin pinned
    BY <2>1, BoundsAssumption DEF FlagInv, TypeOK
  <2>3. UNCHANGED <<pinned, sessions, current, owed>>
    BY <1>3 DEF StoreSample
  <2>. QED BY <2>1, <2>2, <2>3 DEF SessionInv
<1>4. CASE CollectionSucceeds
  <2>1. UNCHANGED <<buffer, pinned, sessions, current>> /\ owed' \in {owed, TargetSteps}
    BY <1>4 DEF CollectionSucceeds
  <2>. QED BY <1>0, <2>1 DEF SessionInv
<1>5. CASE CollectionFails
  <2>1. /\ buffer' = collection.snapshot /\ collection.snapshot \intersect consumed = {}
        /\ UNCHANGED <<pinned, sessions, current, owed>>
    BY <1>5 DEF CollectionFails
  <2>2. buffer' \intersect pinned \subseteq buffer
    BY <2>1 DEF ReservedInv
  <2>. QED BY <2>1, <2>2 DEF SessionInv
<1>6. CASE Preflight
  <2>1. PICK n \in 1..owed : Selected(n) # {} /\ Reserve(n)
    BY <1>6 DEF Preflight
  <2>2. owed # 0 /\ current \in Versions /\ UNCHANGED <<buffer, current, owed>>
    BY <1>0, <1>6, <2>1 DEF Preflight, PlanInv
  <2>3. /\ sessions'[current].items = SessionItems(n)
        /\ \A v \in Versions : v # current => sessions'[v] = sessions[v]
    BY <1>0, <2>1, <2>2 DEF Reserve
  <2>4. sessions[current].items \subseteq SessionItems(n)
    BY DEF SessionItems
  <2>5. buffer \intersect pinned' \subseteq SessionItems(n)
    BY <2>1, <2>4 DEF Reserve, Selected, SessionInv
  <2>6. \A v \in Versions : v > current => sessions'[v] = NoSession
    BY <1>0, <2>3 DEF SessionInv
  <2>7. current # 0
    BY <2>2, BoundsAssumption DEF Versions
  <2>8. \A s \in (buffer \intersect pinned)' :
           current' # 0 /\ s \in sessions'[current'].items
    BY <2>2, <2>3, <2>5, <2>7
  <2>. QED BY <2>2, <2>6, <2>8 DEF SessionInv
<1>7. CASE TrainBatch
  <2>1. PICK batch : sessions' = [sessions EXCEPT ![current].used = @ \union batch]
    BY <1>7 DEF TrainBatch
  <2>2. owed # 0 /\ current # 0 /\ UNCHANGED <<buffer, pinned, current, owed>>
    BY <1>0, <1>7 DEF TrainBatch, PlanInv, NoPlan
  <2>3. /\ sessions'[current].items = sessions[current].items
        /\ \A v \in Versions : v # current => sessions'[v] = sessions[v]
    BY <1>0, <2>1, <2>2
  <2>4. \A v \in Versions : v > current => sessions'[v] = NoSession
    BY <1>0, <2>3 DEF SessionInv
  <2>. QED BY <2>2, <2>3, <2>4 DEF SessionInv
<1>8. CASE EndPlan /\ KeepSession
  <2>1. plan.id # 0
    BY <1>8 DEF EndPlan, PlanInv, NoPlan
  <2>2. plan.steps <= owed /\ plan.done <= plan.steps
    BY <1>0, <2>1 DEF PlanInv
  <2>3. owed' # 0
    BY <1>0, <1>8, <2>2 DEF EndPlan, KeepSession, Retained
  <2>4. UNCHANGED <<buffer, pinned, sessions, current>>
    BY <1>8 DEF EndPlan, KeepSession
  <2>. QED BY <2>3, <2>4 DEF SessionInv
<1>9. CASE EndPlan /\ FinalizeSession
  <2>1. current \in Versions
    BY <1>0, <1>9 DEF EndPlan, PlanInv, NoPlan
  <2>2. /\ buffer' \subseteq buffer /\ pinned' = pinned \ sessions[current].items
        /\ sessions' = [sessions EXCEPT ![current] = NoSession]
        /\ current' = current
    BY <1>9 DEF EndPlan, FinalizeSession
  <2>3. buffer' \intersect pinned' = {}
    BY <2>2 DEF SessionInv
  <2>4. sessions'[current] = NoSession
    BY <1>0, <2>1, <2>2
  <2>5. \A v \in Versions : v > current => sessions'[v] = NoSession
    BY <1>0, <2>1, <2>2 DEF SessionInv
  <2>. QED BY <2>2, <2>3, <2>4, <2>5 DEF SessionInv
<1>10. CASE CollectiveTopUp
  <2>1. sessions[current] = NoSession /\ UNCHANGED <<buffer, pinned, sessions, current>>
    BY <1>10 DEF CollectiveTopUp
  <2>. QED BY <2>1 DEF SessionInv
<1>11. CASE AbandonPreflight \/ Launch \/ RolloutEnds \/ Publish
  <2>1. UNCHANGED <<buffer, pinned, sessions, current, owed>>
    BY <1>11 DEF AbandonPreflight, Launch, RolloutEnds, Publish
  <2>. QED BY <2>1 DEF SessionInv
<1>. QED BY <1>1, <1>2, <1>3, <1>4, <1>5, <1>6, <1>7, <1>8, <1>9, <1>10, <1>11
         DEF Next, Collecting, Training, EndPlan

(* Before the quota of a new version is published, nothing is protected.   *)
LEMMA NothingProtected ==
  ASSUME TypeOK, PlanInv, ReservedInv, SessionInv, ~unpublished
  PROVE  owed = 0 /\ plan.id = 0 /\ Protected = {}
<1>1. owed = 0
  BY TypeFacts DEF PlanInv
<1>2. plan.id = 0
  BY <1>1 DEF PlanInv
<1>3. \A s \in buffer : reserved[s] = 0
  BY <1>2 DEF ReservedInv, HiddenOnlyInFlight
<1>4. buffer \intersect pinned = {}
  BY <1>1 DEF SessionInv, NoSession
<1>. QED BY <1>1, <1>2, <1>3, <1>4 DEF Protected

(* The quota keeps data of its version: what is stored is of that version, *)
(* a new version finds room, a rollback brings data back, and a session    *)
(* that consumes its samples repays the quota.                             *)
LEMMA DataStep ==
  ASSUME ~LateRollback, ~AbandonedAttempts,
         TypeOK, PlanInv, FlagInv, ReservedInv, SessionInv, DataInv, [Next]_vars
  PROVE  DataInv'
<1>. USE DEF sampleVars, planVars, quotaVars, collectVars
<1>0. /\ owed \in Nat /\ current \in Nat /\ made \in Nat /\ Capacity \in Nat \ {0}
      /\ plan.id \in Nat /\ plan.steps \in Nat /\ plan.done \in Nat
      /\ buffer \subseteq Samples /\ Samples \subseteq Nat
  BY TypeFacts, SizesAssumption
<1>1. CASE UNCHANGED <<buffer, version, collection, current, owed, unpublished>>
  BY <1>1 DEF DataInv, Data
<1>2. CASE BeginCollection
  <2>1. PICK n \in 1..MaxPerCollection :
          collection' = [open |-> TRUE, snapshot |-> buffer, left |-> n]
    BY <1>2 DEF BeginCollection
  <2>2. collection'.left # 0 /\ collection'.snapshot = buffer
    BY <2>1, SizesAssumption
  <2>3. UNCHANGED <<buffer, version, owed, unpublished>>
    BY <1>2 DEF BeginCollection
  <2>4. current' = current \/ owed = 0
    BY <1>2, NothingProtected DEF BeginCollection
  <2>. QED BY <2>2, <2>3, <2>4 DEF DataInv, Data
<1>3. CASE StoreSample
  <2>. DEFINE sample == made + 1
  <2>1. sample \in Samples /\ buffer' \subseteq buffer \union {sample}
    BY <1>3, StoreKeepsProtected
  <2>2. /\ version' = [version EXCEPT ![sample] = current]
        /\ collection' = [collection EXCEPT !.left = @ - 1]
        /\ UNCHANGED <<owed, unpublished, current>>
        /\ collection.open
    BY <1>3 DEF StoreSample
  <2>3. collection'.open /\ collection'.snapshot = collection.snapshot
    BY <2>2 DEF TypeOK
  <2>4. \A s \in buffer \union collection.snapshot : version'[s] = version[s]
    <3>1. \A s \in buffer \union collection.snapshot : s # sample /\ s \in Samples
      BY <1>0, TypeFacts DEF FlagInv
    <3>. QED BY <2>1, <2>2, <3>1 DEF TypeOK
  <2>5. version'[sample] = current
    BY <2>1, <2>2 DEF TypeOK
  <2>6. \/ buffer' = buffer /\ Cardinality(buffer) >= Capacity /\ buffer \subseteq Protected
        \/ sample \in buffer'
    BY <1>3 DEF StoreSample
  <2>7. CASE sample \in buffer'
    <3>1. sample \in Data(buffer)'
      BY <2>2, <2>5, <2>7 DEF Data
    <3>2. Data(collection.snapshot)' = Data(collection.snapshot)
      BY <2>2, <2>3, <2>4 DEF Data
    <3>. QED BY <2>2, <2>3, <3>1, <3>2 DEF DataInv
  <2>8. CASE buffer' = buffer /\ Cardinality(buffer) >= Capacity /\ buffer \subseteq Protected
    <3>1. unpublished
      <4>. SUFFICES ASSUME ~unpublished PROVE FALSE
        OBVIOUS
      <4>1. buffer = {}
        BY <2>8, NothingProtected
      <4>2. Cardinality(buffer) = 0
        BY <4>1, FS_EmptySet
      <4>. QED BY <1>0, <2>8, <4>2
    <3>2. Data(buffer)' = Data(buffer)
      BY <2>2, <2>4, <2>8 DEF Data
    <3>3. Data(collection.snapshot)' = Data(collection.snapshot)
      BY <2>2, <2>3, <2>4 DEF Data
    <3>. QED BY <2>2, <2>3, <3>1, <3>2, <3>3 DEF DataInv
  <2>. QED BY <2>6, <2>7, <2>8
<1>4. CASE CollectionSucceeds
  <2>1. /\ collection'.open = FALSE /\ unpublished'
        /\ UNCHANGED <<buffer, version, current>>
    BY <1>4 DEF CollectionSucceeds, NoCollection
  <2>2. owed' > 0 => Data(buffer) # {}
    BY <1>4 DEF CollectionSucceeds, DataInv
  <2>. QED BY <2>1, <2>2 DEF DataInv, Data
<1>5. CASE CollectionFails
  <2>1. /\ collection'.open = FALSE /\ buffer' = collection.snapshot /\ collection.open
        /\ UNCHANGED <<version, current, owed>>
    BY <1>5 DEF CollectionFails, NoCollection
  <2>. QED BY <2>1 DEF DataInv, Data
<1>6. CASE EndPlan
  <2>1. /\ owed' = owed - plan.done
        /\ UNCHANGED <<version, collection, current, unpublished>>
    BY <1>6 DEF EndPlan
  <2>2. owed > 0 /\ unpublished /\ plan.done <= plan.steps /\ plan.steps <= owed
    BY <1>0, <1>6 DEF EndPlan, PlanInv, NoPlan
  <2>3. owed' > 0 => buffer' = buffer
    <3>1. CASE KeepSession
      BY <3>1 DEF KeepSession
    <3>2. CASE FinalizeSession
      <4>1. plan.steps >= owed /\ plan.done >= plan.steps
        BY <1>0, <3>2 DEF FinalizeSession, Retained
      <4>. QED BY <1>0, <2>1, <2>2, <4>1
    <3>. QED BY <1>6, <3>1, <3>2 DEF EndPlan
  <2>. QED BY <2>1, <2>2, <2>3 DEF DataInv, Data
<1>7. CASE CollectiveTopUp
  <2>1. /\ owed' = 0 /\ ~collection.open
        /\ UNCHANGED <<buffer, version, collection>>
    BY <1>7 DEF CollectiveTopUp
  <2>. QED BY <2>1 DEF DataInv
<1>8. CASE Publish
  <2>1. /\ owed = 0 /\ ~collection.open
        /\ UNCHANGED <<owed, collection>>
    BY <1>8 DEF Publish
  <2>. QED BY <2>1 DEF DataInv
<1>9. CASE Preflight \/ AbandonPreflight \/ Launch \/ TrainBatch \/ RolloutEnds
  <2>1. UNCHANGED <<buffer, version, collection, current, owed, unpublished>>
    BY <1>9 DEF Preflight, AbandonPreflight, Launch, TrainBatch, RolloutEnds
  <2>. QED BY <1>1, <2>1
<1>10. CASE UNCHANGED vars
  BY <1>1, <1>10 DEF vars
<1>. QED BY <1>2, <1>3, <1>4, <1>5, <1>6, <1>7, <1>8, <1>9, <1>10
         DEF Next, Collecting, Training

-----------------------------------------------------------------------------
(* The theorems                                                            *)

(* The empty buffer satisfies the invariant.                               *)
LEMMA InitInv == Init => BufferInv
<1>. SUFFICES ASSUME Init PROVE BufferInv
  OBVIOUS
<1>0. /\ Capacity \in Nat /\ MaxSamples \in Nat /\ MaxPlans \in Nat /\ TargetSteps \in Nat
      /\ MaxPerCollection \in Nat /\ Cardinality({}) = 0
  BY SizesAssumption, BoundsAssumption, FS_EmptySet
<1>1. TypeOK
  <2>1. sessions \in [Versions -> [items : SUBSET Samples, used : SUBSET Samples]]
    BY DEF Init, NoSession
  <2>2. plan \in [id : 0..MaxPlans, steps : 0..TargetSteps, done : 0..TargetSteps,
                  training : BOOLEAN]
    BY <1>0 DEF Init, NoPlan
  <2>3. collection \in [open : BOOLEAN, snapshot : SUBSET Samples,
                        left : 0..MaxPerCollection]
    BY <1>0 DEF Init, NoCollection
  <2>4. reserved \in [Samples -> 0..MaxPlans]
    BY <1>0 DEF Init
  <2>5. version \in [Samples -> {0} \union Versions] /\ current \in {0} \union Versions
    BY DEF Init
  <2>6. {fresh, unpublished, writer} \subseteq BOOLEAN
    BY DEF Init
  <2>7. /\ buffer \subseteq Samples /\ Cardinality(buffer) <= Capacity
        /\ pinned \subseteq Samples /\ consumed \subseteq Samples
    BY <1>0 DEF Init
  <2>8. made \in 0..MaxSamples /\ plans \in 0..MaxPlans /\ owed \in 0..TargetSteps
    BY <1>0 DEF Init
  <2>. QED BY <2>1, <2>2, <2>3, <2>4, <2>5, <2>6, <2>7, <2>8 DEF TypeOK
<1>2. PlanInv
  BY DEF Init, PlanInv, NoPlan, NoCollection
<1>3. FlagInv
  BY <1>0 DEF Init, FlagInv, NoCollection
<1>4. SnapshotInv
  BY <1>0 DEF Init, SnapshotInv, NoCollection, Protected
<1>5. ReservedInv
  BY DEF Init, ReservedInv, HiddenOnlyInFlight, NoCollection
<1>6. SessionInv
  BY DEF Init, SessionInv
<1>7. DataInv
  BY DEF Init, DataInv, NoCollection
<1>. QED BY <1>1, <1>2, <1>3, <1>4, <1>5, <1>6, <1>7 DEF BufferInv

(* The inductive invariant of the buffer: the flags on its samples, the    *)
(* snapshot of a commit and the session of the quota agree with the plan   *)
(* that is in flight, under every interleaving of collections and plans.   *)
THEOREM BufferInvariant == Spec => []BufferInv
<1>1. BufferInv /\ [Next]_vars => BufferInv'
  <2>. SUFFICES ASSUME BufferInv, [Next]_vars PROVE BufferInv'
    OBVIOUS
  <2>1. TypeOK /\ PlanInv /\ FlagInv /\ SnapshotInv
    BY DEF BufferInv
  <2>2. TypeOK' /\ PlanInv' /\ FlagInv' /\ SnapshotInv'
    BY <2>1, TypeStep, PlanStep, FlagStep, SnapshotStep
  <2>3. ~LateRollback => ReservedInv'
    BY <2>1, ReservedStep DEF BufferInv
  <2>4. ~LateRollback /\ ~AbandonedAttempts => SessionInv' /\ DataInv'
    BY <2>1, SessionStep, DataStep DEF BufferInv
  <2>. QED BY <2>2, <2>3, <2>4 DEF BufferInv
<1>. QED BY InitInv, <1>1, PTL DEF Spec

(* The buffer never holds more samples than data_buffer_size, and every    *)
(* quota, plan and session stays within its bounds.                        *)
THEOREM TypeCorrect == Spec => []TypeOK
<1>1. BufferInv => TypeOK
  BY DEF BufferInv
<1>. QED BY <1>1, BufferInvariant, PTL

(* Where no rollback brings back what a plan consumed since the snapshot,  *)
(* get_available_data hides samples of the plan in flight only.            *)
THEOREM NothingHidden == Spec => [](~LateRollback => HiddenOnlyInFlight)
<1>1. BufferInv => (~LateRollback => HiddenOnlyInFlight)
  BY DEF BufferInv, ReservedInv
<1>. QED BY <1>1, BufferInvariant, PTL

(* Where moreover no collective top-up trains past an abandoned session,   *)
(* a checkpoint taken after a publication finds no replay ownership left.  *)
THEOREM CheckpointsAccepted ==
  Spec => [](~LateRollback /\ ~AbandonedAttempts => CheckpointAccepted)
<1>1. ASSUME BufferInv, ~LateRollback, ~AbandonedAttempts, ~unpublished, ~collection.open
      PROVE  Protected = {}
  BY <1>1, NothingProtected DEF BufferInv
<1>2. BufferInv => (~LateRollback /\ ~AbandonedAttempts => CheckpointAccepted)
  BY <1>1 DEF CheckpointAccepted
<1>. QED BY <1>2, BufferInvariant, PTL

(* Under the same conditions a quota is never left without data that its   *)
(* next plan can train on.                                                 *)
THEOREM QuotasHaveData ==
  Spec => [](~LateRollback /\ ~AbandonedAttempts => QuotaHasData)
<1>1. ASSUME BufferInv, ~LateRollback, ~AbandonedAttempts, owed > 0
      PROVE  \E s \in buffer : version[s] = current /\ reserved[s] \in {0, plan.id}
  <2>1. PICK s \in buffer : version[s] = current
    BY <1>1 DEF BufferInv, DataInv, Data
  <2>2. reserved[s] \in {0, plan.id}
    BY <1>1 DEF BufferInv, ReservedInv, HiddenOnlyInFlight
  <2>. QED BY <2>1, <2>2
<1>2. BufferInv => (~LateRollback /\ ~AbandonedAttempts => QuotaHasData)
  BY <1>1 DEF QuotaHasData
<1>. QED BY <1>2, BufferInvariant, PTL

(* No eviction and no rollback takes a sample that a plan or a session     *)
(* holds: it leaves when its session is finalized, after it was used.      *)
THEOREM ProtectedStays == Spec => ProtectedStay
<1>1. ASSUME BufferInv, [Next]_vars, NEW s \in Protected \ buffer'
      PROVE  plan.training /\ plan' = NoPlan /\ s \in sessions[current].used
  <2>. USE DEF sampleVars, planVars, quotaVars, collectVars
  <2>0. /\ TypeOK /\ FlagInv /\ SnapshotInv /\ s \in buffer /\ s \notin buffer'
    BY <1>1 DEF BufferInv, Protected
  <2>1. ~StoreSample
    BY <1>1, <2>0, StoreKeepsProtected
  <2>2. ~CollectionFails
    BY <1>1, <2>0 DEF CollectionFails, SnapshotInv
  <2>3. CASE EndPlan
    BY <2>0, <2>3 DEF EndPlan, KeepSession, FinalizeSession, Taken
  <2>4. CASE UNCHANGED buffer
    BY <2>0, <2>4
  <2>5. [Next]_vars => StoreSample \/ CollectionFails \/ EndPlan \/ UNCHANGED buffer
    BY DEF Next, Collecting, Training, vars, BeginCollection, CollectionSucceeds,
           RolloutEnds, Preflight, AbandonPreflight, Launch, TrainBatch, CollectiveTopUp,
           Publish
  <2>. QED BY <1>1, <2>1, <2>2, <2>3, <2>4, <2>5
<1>2. BufferInv /\ [Next]_vars =>
        [\A s \in Protected \ buffer' :
           /\ plan.training /\ plan' = NoPlan
           /\ s \in sessions[current].used]_vars
  BY <1>1
<1>. QED BY <1>2, BufferInvariant, PTL DEF Spec, ProtectedStay

(* The samples a plan trains on are the ones its preflight reserved.       *)
THEOREM ReservationsStable == Spec => ReservationStable
<1>1. ASSUME BufferInv, [Next]_vars, plan.id # 0, plan'.id = plan.id
      PROVE  {s \in buffer' : reserved'[s] = plan.id} = Reserved
  <2>. USE DEF sampleVars, planVars, quotaVars, collectVars
  <2>0. TypeOK /\ PlanInv /\ FlagInv /\ SnapshotInv
    BY <1>1 DEF BufferInv
  <2>1. CASE StoreSample
    <3>1. /\ Protected \subseteq buffer' /\ buffer' \subseteq buffer \union {made + 1}
          /\ made + 1 \in Samples
      BY <2>0, <2>1, StoreKeepsProtected
    <3>2. reserved[made + 1] = 0
      BY <2>0, <3>1, BoundsAssumption DEF FlagInv, TypeOK
    <3>3. reserved' = reserved
      BY <2>1 DEF StoreSample
    <3>. QED BY <1>1, <3>1, <3>2, <3>3 DEF Protected, Reserved
  <2>2. CASE CollectionFails
    <3>1. /\ buffer' = collection.snapshot /\ Protected \subseteq buffer'
          /\ reserved' = reserved
      BY <2>0, <2>2 DEF CollectionFails, SnapshotInv
    <3>2. \A s \in buffer' : reserved[s] = plan.id => s \in buffer
      BY <1>1, <2>0, <3>1 DEF SnapshotInv
    <3>. QED BY <1>1, <3>1, <3>2 DEF Protected, Reserved
  <2>3. CASE Preflight \/ AbandonPreflight \/ EndPlan
    BY <1>1, <2>3 DEF Preflight, AbandonPreflight, EndPlan, NoPlan
  <2>4. CASE UNCHANGED <<buffer, reserved>>
    BY <2>4 DEF Reserved
  <2>5. \/ StoreSample \/ CollectionFails
        \/ Preflight \/ AbandonPreflight \/ EndPlan
        \/ UNCHANGED <<buffer, reserved>>
    BY <1>1 DEF Next, Collecting, Training, vars, BeginCollection, CollectionSucceeds,
                RolloutEnds, Launch, TrainBatch, CollectiveTopUp, Publish
  <2>. QED BY <2>1, <2>2, <2>3, <2>4, <2>5
<1>2. BufferInv /\ [Next]_vars =>
        [plan.id # 0 /\ plan'.id = plan.id =>
           {s \in buffer' : reserved'[s] = plan.id} = Reserved]_vars
  BY <1>1
<1>. QED BY <1>2, BufferInvariant, PTL DEF Spec, ReservationStable
=============================================================================
