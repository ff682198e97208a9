---------------------------- MODULE WriterProofs ----------------------------
(***************************************************************************)
(* The writer group has all the state there is: proofs for any groups,     *)
(* shards, numbers of steps and sizes of the workers' caches.              *)
(***************************************************************************)
EXTENDS WriterProperties, TLAPS

USE HeadsAssumption, WriterAssumption, SwitchesAssumption

(* The workers of a group, one at each position.                           *)
LEMMA TeamWorkers ==
  /\ \A g \in Groups : Team(g) \subseteq Workers
  /\ \A w \in Workers : w[1] \in Groups /\ w[2] \in Shards /\ w = <<w[1], w[2]>>
  /\ \A w \in Workers : \A g : w \in Team(g) <=> w[1] = g
  /\ \A g \in Groups, s \in Shards :
       <<g, s>> \in Workers /\ <<g, s>> \in Team(g) /\ <<g, s>>[1] = g /\ <<g, s>>[2] = s
BY DEF Team, Workers

(* Neither a plan nor a transfer is nothing.                               *)
LEMMA NothingIsNone ==
  /\ NoPlan \notin Plans
  /\ NoHandoff \notin Handoffs
  /\ NoPending \notin Prefetches
  /\ NoHandoff.stage = "none" /\ NoPending.stage = "none" /\ NoPending.waiting = {}
BY DEF NoPlan, Plans, NoHandoff, Handoffs, NoPending, Prefetches, Versions

(* Eviction keeps what is spared and adds nothing.                         *)
LEMMA RetainedKeeps ==
  ASSUME NEW versions, NEW spared
  PROVE  /\ Retained(versions, spared) \subseteq versions
         /\ versions \intersect spared \subseteq Retained(versions, spared)
BY DEF Retained

(* The writer, if any, is a group that may train.                          *)
LEMMA OwnerUsable ==
  ASSUME TypeOK
  PROVE  /\ Usable \subseteq Groups \ disabled
         /\ Owner # None => Owner = writer /\ Owner \in Usable /\ Owner \in Groups
         /\ Usable # {} => ~blocked
         /\ Owner = None => writer \notin Usable
         /\ HeadTargets \subseteq Groups
BY DEF Usable, Owner, HeadTargets, TypeOK

(* The head that is kept is the one of the open quota.                     *)
LEMMA ProtectedIsOpen ==
  ASSUME TypeOK, QuotaInTurn
  PROVE  /\ Protected \subseteq Versions
         /\ Protected \subseteq {registered}
         /\ Protected # {} => claim
         /\ debt > 0 => Protected = {registered} /\ registered \in Versions
<1>1. registered \in {0} \union Versions /\ dataVersion \in {0} \union Versions /\ debt \in Nat
  BY DEF TypeOK
<1>2. CASE dataVersion # 0
  <2>1. debt > 0
    BY <1>1, <1>2 DEF QuotaInTurn
  <2>2. claim /\ dataVersion = registered
    BY <2>1 DEF QuotaInTurn
  <2>. QED BY <1>1, <1>2, <2>2 DEF Protected
<1>3. CASE dataVersion = 0
  <2>1. ~(debt > 0)
    BY <1>3 DEF QuotaInTurn
  <2>. QED BY <1>1, <1>3, <2>1 DEF Protected
<1>. QED BY <1>2, <1>3

(* No head is newer than the last quota.                                   *)
LEMMA ReadyIsOld ==
  ASSUME TypeOK, PrefetchInTurn
  PROVE  /\ registered \in Nat /\ step \in Nat \ {0}
         /\ \A v \in ready : v \in Nat /\ v <= registered
<1>1. registered \in Nat /\ step \in Nat \ {0} /\ ready \subseteq Versions
  BY DEF TypeOK, HeadsTypeOK, Versions
<1>2. \A v \in ready : v \in Nat /\ v <= registered
  BY <1>1 DEF PrefetchInTurn, Versions
<1>. QED BY <1>1, <1>2

-----------------------------------------------------------------------------
(* Each action keeps the invariant. *)

(* Collection: no quota is open, so no head is on its way or in need.      *)
LEMMA CollectInv == WriterInv /\ Collect => WriterInv'
<1>. SUFFICES ASSUME WriterInv, Collect PROVE WriterInv'
  OBVIOUS
<1>. USE DEF WriterInv
<1>1. /\ phase = "rollout" /\ plan = NoPlan /\ handoff = NoHandoff /\ ~claim
      /\ phase' = "learn"
      /\ UNCHANGED <<step, fallback, failed, stateVersion, blocked, disabled, boundary,
                    published, workVars, steps, trainedAt, total, headVars>>
  BY DEF Collect, Free
<1>2. \E receivers : Receive(receivers)
  BY DEF Collect, ElectCollector
<1>3. /\ debt' = TargetSteps /\ dataVersion' = step /\ registered' = step /\ claim' = TRUE
      /\ data' \in [Workers -> {0} \union Versions]
  BY <1>2 DEF Receive, TypeOK
<1>4. /\ writer' \in Groups \union {None} /\ pinned' \in Groups \union {None}
      /\ writer' # writer => stateVersion = 0
  BY OwnerUsable DEF Collect, ElectCollector, TypeOK
<1>5. registered < step /\ step \in Versions /\ step \in Nat \ {0} /\ debt = 0
  BY <1>1 DEF TypeOK, QuotaInTurn, Versions
<1>6. pending = NoPending /\ step \notin ready
  BY ReadyIsOld, <1>5 DEF PrefetchInTurn
<1>7. TypeOK'
  <2>1. HeadsTypeOK'
    BY <1>1 DEF TypeOK, HeadsTypeOK, headVars
  <2>2. {fallback, failed, blocked, boundary, claim}' \subseteq BOOLEAN
    BY <1>1, <1>3, Zenon DEF TypeOK
  <2>. QED BY <2>1, <2>2, <1>1, <1>3, <1>4, <1>5 DEF TypeOK, workVars
<1>8. QuotaInTurn'
  BY <1>1, <1>3, <1>5 DEF QuotaInTurn, workVars, TypeOK
<1>9. PrefetchInTurn'
  BY ReadyIsOld, <1>1, <1>3, <1>5, <1>6 DEF PrefetchInTurn, headVars
<1>10. HeadsHeld'
  BY <1>1, <1>3, <1>6 DEF HeadsHeld, headVars
<1>11. WriterOwns'
  BY <1>1, <1>4 DEF WriterOwns, Orphaned, Team
<1>12. PlanInTurn' /\ HandoffInTurn'
  BY <1>1 DEF PlanInTurn, HandoffInTurn, workVars
<1>. QED BY <1>7, <1>8, <1>9, <1>10, <1>11, <1>12

(* A step without samples changes nothing.                                 *)
LEMMA CollectNothingInv == WriterInv /\ CollectNothing => WriterInv'
<1>. SUFFICES ASSUME WriterInv, CollectNothing PROVE WriterInv'
  OBVIOUS
<1>. USE DEF WriterInv
<1>1. /\ phase = "rollout" /\ plan = NoPlan /\ handoff = NoHandoff
      /\ phase' = "learn"
      /\ UNCHANGED <<step, fallback, failed, ownerVars, quotaVars, workVars, workerVars, headVars>>
  BY DEF CollectNothing, Free
<1>. USE <1>1 DEF ownerVars, quotaVars, workVars, workerVars, headVars
<1>2. registered < step /\ registered \in Nat /\ step \in Nat
  BY DEF TypeOK, QuotaInTurn, Versions
<1>3. TypeOK'
  <2>1. HeadsTypeOK'
    BY DEF TypeOK, HeadsTypeOK
  <2>2. {fallback, failed, blocked, boundary, claim}' \subseteq BOOLEAN
    BY Zenon DEF TypeOK
  <2>. QED BY <2>1, <2>2 DEF TypeOK
<1>4. QuotaInTurn' /\ PrefetchInTurn'
  BY <1>2 DEF QuotaInTurn, PrefetchInTurn
<1>5. HeadsHeld' /\ WriterOwns' /\ PlanInTurn' /\ HandoffInTurn'
  BY DEF HeadsHeld, WriterOwns, Orphaned, PlanInTurn, HandoffInTurn
<1>. QED BY <1>3, <1>4, <1>5

(* The head of a step is asked for once, for everyone who may train on it. *)
LEMMA PrefetchInv == WriterInv /\ Prefetch => WriterInv'
<1>. SUFFICES ASSUME WriterInv, Prefetch PROVE WriterInv'
  OBVIOUS
<1>. USE DEF WriterInv
<1>1. /\ phase = "learn" /\ plan = NoPlan /\ handoff = NoHandoff /\ registered = step
      /\ StartPrefetch(step, HeadTargets \X Shards)
      /\ UNCHANGED <<step, phase, fallback, failed, ownerVars, quotaVars, workVars, workerVars>>
  BY DEF Prefetch, Free, otherThanHeads
<1>2. /\ ~HeadReady(step, HeadTargets \X Shards)
      /\ pending' = [version |-> step, stage |-> "fetch", targets |-> HeadTargets \X Shards,
                     waiting |-> {}, spared |-> {}]
      /\ UNCHANGED <<ready, holders, heads>>
  BY <1>1 DEF StartPrefetch
<1>. USE <1>1, <1>2 DEF ownerVars, quotaVars, workVars, workerVars
<1>3. step \notin ready /\ debt = TargetSteps
  BY DEF PrefetchInTurn, HeadReady, QuotaInTurn
<1>4. TypeOK'
  <2>1. pending' \in Prefetches
    BY OwnerUsable DEF Prefetches, TypeOK, Workers
  <2>2. HeadsTypeOK'
    BY <2>1 DEF TypeOK, HeadsTypeOK
  <2>3. {fallback, failed, blocked, boundary, claim}' \subseteq BOOLEAN
    BY Zenon DEF TypeOK
  <2>. QED BY <2>2, <2>3 DEF TypeOK
<1>5. QuotaInTurn'
  BY DEF QuotaInTurn
<1>6. PrefetchInTurn'
  <2>1. HeadTargets' = HeadTargets
    BY DEF HeadTargets, Owner, Usable
  <2>. QED BY <1>3, <2>1 DEF PrefetchInTurn
<1>7. HeadsHeld' /\ WriterOwns' /\ PlanInTurn' /\ HandoffInTurn'
  BY DEF HeadsHeld, WriterOwns, Orphaned, PlanInTurn, HandoffInTurn
<1>. QED BY <1>4, <1>5, <1>6, <1>7

(* A head sent out is for the open quota; it is ready when it is in every  *)
(* cache it was sent to; one that is not to be had leaves all as it was.   *)
LEMMA AdvancePrefetchInv == WriterInv /\ AdvancePrefetch => WriterInv'
<1>. SUFFICES ASSUME WriterInv, AdvancePrefetch PROVE WriterInv'
  OBVIOUS
<1>. USE DEF WriterInv
<1>1. /\ plan = NoPlan /\ handoff = NoHandoff
      /\ UNCHANGED <<step, phase, fallback, failed, ownerVars, quotaVars, workVars, workerVars>>
  BY DEF AdvancePrefetch, Free, otherThanHeads
<1>. USE <1>1 DEF ownerVars, quotaVars, workVars, workerVars
<1>2. HeadTargets' = HeadTargets
  BY DEF HeadTargets, Owner, Usable
<1>3. HeadsTypeOK' => TypeOK'
  <2>1. {fallback, failed, blocked, boundary, claim}' \subseteq BOOLEAN
    BY Zenon DEF TypeOK
  <2>. QED BY <2>1 DEF TypeOK
<1>4. QuotaInTurn' /\ WriterOwns' /\ PlanInTurn' /\ HandoffInTurn'
  BY DEF QuotaInTurn, WriterOwns, Orphaned, PlanInTurn, HandoffInTurn
<1>5. CASE Dispatch(Protected)
  <2>1. /\ pending # NoPending /\ pending.stage = "fetch"
        /\ pending' = [pending EXCEPT !.stage = "dispatch", !.waiting = pending.targets,
                                      !.spared = Protected]
        /\ UNCHANGED <<ready, holders, heads>>
    BY <1>5, NothingIsNone DEF Dispatch
  <2>2. pending \in Prefetches
    BY <2>1 DEF TypeOK, HeadsTypeOK
  <2>3. /\ pending' \in Prefetches
        /\ pending'.version = pending.version /\ pending'.targets = pending.targets
        /\ pending'.waiting = pending.targets /\ pending'.stage = "dispatch"
    BY <2>1, <2>2, ProtectedIsOpen DEF Prefetches
  <2>4. HeadsTypeOK'
    BY <2>1, <2>3 DEF TypeOK, HeadsTypeOK
  <2>5. PrefetchInTurn'
    BY <2>1, <2>3, <1>2 DEF PrefetchInTurn
  <2>6. HeadsHeld'
    BY <2>1 DEF HeadsHeld
  <2>. QED BY <1>3, <1>4, <2>4, <2>5, <2>6
<1>6. CASE FetchFails
  <2>1. pending' = NoPending /\ UNCHANGED <<ready, holders, heads>>
    BY <1>6 DEF FetchFails
  <2>2. HeadsTypeOK'
    BY <2>1 DEF TypeOK, HeadsTypeOK
  <2>3. PrefetchInTurn'
    BY <2>1, <1>2 DEF PrefetchInTurn
  <2>4. HeadsHeld'
    BY <2>1 DEF HeadsHeld
  <2>. QED BY <1>3, <1>4, <2>2, <2>3, <2>4
<1>7. CASE MarkReady(Protected)
  <2>. DEFINE known == ready \union {pending.version}
  <2>1. /\ pending # NoPending /\ pending.stage = "dispatch" /\ pending.waiting = {}
        /\ ready' = Retained(known, Protected \union {pending.version})
        /\ holders' = [v \in Versions |->
                         IF v = pending.version THEN pending.targets
                         ELSE IF v \in known \ ready' THEN {} ELSE holders[v]]
        /\ pending' = NoPending /\ heads' = heads
    BY <1>7, NothingIsNone DEF MarkReady
  <2>2. /\ pending \in Prefetches /\ pending.version \in Versions
        /\ pending.version = registered /\ pending.targets \subseteq Workers
    BY <2>1 DEF TypeOK, HeadsTypeOK, Prefetches, PrefetchInTurn
  <2>3. /\ ready' \subseteq known /\ known \subseteq Versions
        /\ holders'[registered] = pending.targets
        /\ \A w \in pending.targets : registered \in heads[w]
    BY <2>1, <2>2, RetainedKeeps DEF PrefetchInTurn, TypeOK, HeadsTypeOK
  <2>4. HeadsTypeOK'
    <3>1. holders' \in [Versions -> SUBSET Workers]
      BY <2>1, <2>2 DEF TypeOK, HeadsTypeOK
    <3>. QED BY <2>1, <2>3, <3>1 DEF TypeOK, HeadsTypeOK
  <2>5. PrefetchInTurn'
    <3>1. \A v \in ready' : v <= registered
      BY <2>2, <2>3, ReadyIsOld
    <3>2. phase = "learn" /\ registered = step => pending.targets = HeadTargets \X Shards
      BY <2>1 DEF PrefetchInTurn
    <3>. QED BY <2>1, <2>3, <3>1, <3>2, <1>2 DEF PrefetchInTurn
  <2>6. HeadsHeld'
    BY <2>1, <2>3 DEF HeadsHeld
  <2>. QED BY <1>3, <1>4, <2>4, <2>5, <2>6
<1>. QED BY <1>5, <1>6, <1>7 DEF AdvancePrefetch

(* A cache takes the head in and never gives up the one of the open quota. *)
LEMMA CacheHeadInv == WriterInv /\ CacheHead => WriterInv'
<1>. SUFFICES ASSUME WriterInv, CacheHead PROVE WriterInv'
  OBVIOUS
<1>. USE DEF WriterInv
<1>1. PICK w \in Workers : ApplyHead(w)
  BY DEF CacheHead
<1>2. UNCHANGED <<step, phase, fallback, failed, ownerVars, quotaVars, workVars, workerVars>>
  BY DEF CacheHead, otherThanHeads
<1>3. /\ w \in pending.waiting /\ pending # NoPending
      /\ heads' = [heads EXCEPT ![w] =
                    Retained(heads[w] \union {pending.version},
                             pending.spared \union {pending.version})]
      /\ pending' = [pending EXCEPT !.waiting = pending.waiting \ {w}]
      /\ UNCHANGED <<ready, holders>>
  BY <1>1, NothingIsNone DEF ApplyHead
<1>4. pending \in Prefetches
  BY <1>3 DEF TypeOK, HeadsTypeOK
<1>5. /\ pending' \in Prefetches
      /\ pending'.version = pending.version /\ pending'.targets = pending.targets
      /\ pending'.waiting = pending.waiting \ {w} /\ pending'.stage = pending.stage
      /\ pending' # NoPending
  BY <1>3, <1>4, NothingIsNone DEF Prefetches
<1>6. /\ plan = NoPlan /\ handoff = NoHandoff /\ debt = TargetSteps
      /\ pending.version = registered /\ registered \notin ready
      /\ pending.stage = "dispatch" =>
           \A u \in pending.targets \ pending.waiting : registered \in heads[u]
      /\ pending.stage = "fetch" => pending.waiting = {}
  BY <1>3 DEF PrefetchInTurn
<1>7. /\ heads' \in [Workers -> SUBSET Versions]
      /\ registered \in heads'[w]
      /\ \A u \in Workers : u # w => heads'[u] = heads[u]
  <2>1. /\ heads \in [Workers -> SUBSET Versions]
        /\ pending.version \in Versions
    BY <1>4 DEF TypeOK, HeadsTypeOK, Prefetches
  <2>. QED BY <2>1, <1>3, <1>6, RetainedKeeps
<1>. USE <1>2 DEF ownerVars, quotaVars, workVars, workerVars
<1>8. TypeOK'
  <2>1. HeadsTypeOK'
    BY <1>3, <1>5, <1>7 DEF TypeOK, HeadsTypeOK
  <2>2. {fallback, failed, blocked, boundary, claim}' \subseteq BOOLEAN
    BY Zenon DEF TypeOK
  <2>. QED BY <2>1, <2>2 DEF TypeOK
<1>9. PrefetchInTurn'
  <2>1. HeadTargets' = HeadTargets
    BY DEF HeadTargets, Owner, Usable
  <2>2. pending.targets \subseteq Workers /\ pending.stage = "dispatch"
    BY <1>3, <1>4, <1>6 DEF Prefetches
  <2>3. \A u \in pending'.targets \ pending'.waiting : registered \in heads'[u]
    BY <2>2, <1>3, <1>5, <1>6, <1>7
  <2>4. phase = "learn" /\ registered = step => pending.targets = HeadTargets \X Shards
    BY <1>3 DEF PrefetchInTurn
  <2>5. \A v \in ready : v <= registered
    BY ReadyIsOld
  <2>. QED BY <2>1, <2>3, <2>4, <2>5, <1>3, <1>5, <1>6 DEF PrefetchInTurn
<1>10. HeadsHeld'
  BY <1>3, <1>6 DEF HeadsHeld
<1>11. QuotaInTurn' /\ WriterOwns' /\ PlanInTurn' /\ HandoffInTurn'
  BY <1>6 DEF QuotaInTurn, WriterOwns, Orphaned, PlanInTurn, HandoffInTurn
<1>. QED BY <1>8, <1>9, <1>10, <1>11

(* A refused head is not ready anywhere.                                   *)
LEMMA PrefetchRejectedInv == WriterInv /\ PrefetchRejected => WriterInv'
<1>. SUFFICES ASSUME WriterInv, PrefetchRejected PROVE WriterInv'
  OBVIOUS
<1>. USE DEF WriterInv
<1>1. /\ plan = NoPlan /\ handoff = NoHandoff
      /\ UNCHANGED <<step, phase, fallback, ownerVars, quotaVars, workVars, workerVars>>
  BY DEF PrefetchRejected, Free, otherThanHeads
<1>2. /\ pending.stage = "dispatch" /\ pending # NoPending
      /\ ready' = ready \ {pending.version}
      /\ holders' = [holders EXCEPT ![pending.version] = {}]
      /\ pending' = NoPending /\ heads' = heads
  BY NothingIsNone DEF PrefetchRejected, RejectHead
<1>3. failed' = TRUE
  BY DEF PrefetchRejected
<1>. USE <1>1 DEF ownerVars, quotaVars, workVars, workerVars
<1>4. TypeOK'
  <2>1. HeadsTypeOK'
    BY <1>2 DEF TypeOK, HeadsTypeOK
  <2>2. {fallback, failed, blocked, boundary, claim}' \subseteq BOOLEAN
    BY <1>3, Zenon DEF TypeOK
  <2>. QED BY <2>1, <2>2 DEF TypeOK
<1>5. pending.version = registered /\ registered \notin ready'
  BY <1>2 DEF PrefetchInTurn
<1>6. PrefetchInTurn'
  BY <1>2, <1>5, ReadyIsOld DEF PrefetchInTurn
<1>7. HeadsHeld'
  BY <1>5 DEF HeadsHeld
<1>8. QuotaInTurn' /\ WriterOwns' /\ PlanInTurn' /\ HandoffInTurn'
  BY <1>2 DEF QuotaInTurn, WriterOwns, Orphaned, PlanInTurn, HandoffInTurn
<1>. QED BY <1>4, <1>6, <1>7, <1>8

(* The update of the actor disturbs nothing.                               *)
LEMMA UpdateActorInv == WriterInv /\ UpdateActor => WriterInv'
<1>. SUFFICES ASSUME WriterInv, UpdateActor PROVE WriterInv'
  OBVIOUS
<1>. USE DEF WriterInv
<1>1. /\ phase' = "settle"
      /\ UNCHANGED <<step, fallback, failed, ownerVars, quotaVars, workVars, workerVars, headVars>>
  BY DEF UpdateActor
<1>. USE <1>1 DEF ownerVars, quotaVars, workVars, workerVars, headVars
<1>2. TypeOK'
  <2>1. HeadsTypeOK'
    BY DEF TypeOK, HeadsTypeOK
  <2>2. {fallback, failed, blocked, boundary, claim}' \subseteq BOOLEAN
    BY Zenon DEF TypeOK
  <2>. QED BY <2>1, <2>2 DEF TypeOK
<1>3. QuotaInTurn' /\ PrefetchInTurn' /\ HeadsHeld'
  BY DEF QuotaInTurn, PrefetchInTurn, HeadsHeld
<1>4. WriterOwns' /\ PlanInTurn' /\ HandoffInTurn'
  BY DEF WriterOwns, Orphaned, PlanInTurn, Owner, Usable, HandoffInTurn
<1>. QED BY <1>2, <1>3, <1>4

(* A plan runs on a group that has the samples and the head, and, once     *)
(* there is state, only on the writer.                                     *)
LEMMA StartPlanInv ==
  ASSUME WriterInv, NEW g \in Usable, NEW n \in 1..debt, NEW topup \in BOOLEAN,
         handoff = NoHandoff, phase # "learn", debt > 0,
         HasData(g), HeadReady(dataVersion, Team(g)),
         Owner' # None => g = Owner',
         plan' = [group |-> g, steps |-> n, topup |-> topup],
         stateVersion # 0 => writer' = writer,
         writer' \in Groups \union {None},
         UNCHANGED <<loopVars, stateVersion, blocked, disabled, pinned, boundary, quotaVars,
                     handoff, attempt, workerVars, headVars>>
  PROVE  WriterInv'
<1>. USE DEF WriterInv, loopVars, quotaVars, workerVars, headVars
<1>1. debt \in 0..TargetSteps /\ g \in Groups \ disabled /\ ~blocked
  BY OwnerUsable DEF TypeOK
<1>2. /\ claim /\ dataVersion = registered /\ registered \in ready
      /\ Team(g) \subseteq holders[registered]
  BY DEF QuotaInTurn, HeadReady
<1>3. TypeOK'
  <2>1. HeadsTypeOK'
    BY DEF TypeOK, HeadsTypeOK
  <2>2. {fallback, failed, blocked, boundary, claim}' \subseteq BOOLEAN
    BY Zenon DEF TypeOK
  <2>3. plan' \in Plans
    BY <1>1 DEF Plans
  <2>. QED BY <2>1, <2>2, <2>3 DEF TypeOK
<1>4. QuotaInTurn'
  BY DEF QuotaInTurn
<1>5. PrefetchInTurn'
  BY <1>2, ReadyIsOld DEF PrefetchInTurn
<1>6. HeadsHeld'
  BY DEF HeadsHeld
<1>7. WriterOwns'
  BY DEF WriterOwns, Orphaned
<1>8. PlanInTurn'
  <2>1. \A w \in Team(g) : data[w] = dataVersion /\ dataVersion \in heads[w]
    BY <1>2 DEF HasData, HeadsHeld
  <2>. QED BY <1>1, <2>1 DEF PlanInTurn, Team
<1>9. HandoffInTurn'
  BY DEF HandoffInTurn
<1>. QED BY <1>3, <1>4, <1>5, <1>6, <1>7, <1>8, <1>9

(* An idle plan; without the head, at most the writer is elected.          *)
LEMMA PlanIdleInv == WriterInv /\ PlanIdle => WriterInv'
<1>. SUFFICES ASSUME WriterInv, PlanIdle PROVE WriterInv'
  OBVIOUS
<1>. USE DEF WriterInv
<1>1. PICK g \in Candidates :
        /\ HasData(g)
        /\ writer' = IF stateVersion = 0 THEN g ELSE writer
        /\ IF HeadReady(dataVersion, Team(g))
           THEN \E n \in Budget : plan' = [group |-> g, steps |-> n, topup |-> FALSE]
           ELSE plan' = plan
  BY DEF PlanIdle
<1>2. /\ phase = "rollout" /\ plan = NoPlan /\ handoff = NoHandoff /\ debt > 0
      /\ UNCHANGED <<loopVars, stateVersion, blocked, disabled, pinned, boundary, quotaVars,
                    handoff, attempt, workerVars, headVars>>
  BY DEF PlanIdle, Free
<1>3. /\ g \in Usable /\ g \in Groups
      /\ stateVersion # 0 /\ Owner # None => g = Owner
  BY OwnerUsable DEF Candidates, Private
<1>4. writer' \in Groups \union {None} /\ (stateVersion # 0 => writer' = writer)
  BY <1>1, <1>3 DEF TypeOK
<1>7. Owner' # None => g = Owner'
  <2>1. Usable' = Usable
    BY <1>2 DEF Usable
  <2>. QED BY <2>1, <1>1, <1>3 DEF Owner
<1>5. CASE HeadReady(dataVersion, Team(g))
  <2>1. PICK n \in 1..debt : plan' = [group |-> g, steps |-> n, topup |-> FALSE]
    BY <1>1, <1>5 DEF Budget
  <2>. QED BY <1>1, <1>2, <1>3, <1>4, <1>5, <1>7, <2>1, StartPlanInv
<1>6. CASE ~HeadReady(dataVersion, Team(g))
  <2>1. plan' = plan
    BY <1>1, <1>6
  <2>0. PlanInTurn'
    BY <1>2, <2>1 DEF PlanInTurn
  <2>. USE <1>2, <1>4, <2>1 DEF loopVars, quotaVars, workerVars, headVars
  <2>2. TypeOK'
    <3>1. HeadsTypeOK'
      BY DEF TypeOK, HeadsTypeOK
    <3>2. {fallback, failed, blocked, boundary, claim}' \subseteq BOOLEAN
      BY Zenon DEF TypeOK
    <3>. QED BY <3>1, <3>2 DEF TypeOK
  <2>3. QuotaInTurn' /\ PrefetchInTurn' /\ HeadsHeld'
    BY DEF QuotaInTurn, PrefetchInTurn, HeadsHeld
  <2>4. WriterOwns' /\ HandoffInTurn'
    BY DEF WriterOwns, Orphaned, HandoffInTurn
  <2>. QED BY <2>0, <2>2, <2>3, <2>4
<1>. QED BY <1>5, <1>6

(* A top-up.                                                               *)
LEMMA TopUpInv == WriterInv /\ TopUp => WriterInv'
<1>. SUFFICES ASSUME WriterInv, TopUp PROVE WriterInv'
  OBVIOUS
<1>. USE DEF WriterInv
<1>1. PICK g \in TopUpGroups, n \in Budget :
        /\ HasData(g) /\ HeadReady(dataVersion, Team(g))
        /\ plan' = [group |-> g, steps |-> n, topup |-> TRUE]
  BY DEF TopUp
<1>2. /\ phase = "settle" /\ handoff = NoHandoff /\ debt > 0
      /\ UNCHANGED <<loopVars, ownerVars, quotaVars, handoff, attempt, workerVars, headVars>>
  BY DEF TopUp, Free
<1>3. g \in Usable /\ (Owner # None => g = Owner)
  BY OwnerUsable DEF TopUpGroups
<1>4. writer' = writer /\ writer \in Groups \union {None} /\ n \in 1..debt
  BY <1>2 DEF ownerVars, TypeOK, Budget
<1>5. Owner' = Owner
  BY <1>2 DEF ownerVars, Owner, Usable
<1>. QED BY <1>1, <1>2, <1>3, <1>4, <1>5, StartPlanInv DEF ownerVars

(* The outcome of a plan: its group is the writer afterwards, and has all  *)
(* the steps, unless it was lost.                                          *)
LEMMA BookInv ==
  ASSUME WriterInv, plan # NoPlan, NEW k \in 0..plan.steps, NEW lost \in BOOLEAN, Book(k, lost)
  PROVE  WriterInv' /\ (stateVersion # 0 /\ ~Orphaned => writer' = writer)
<1>. USE DEF WriterInv
<1>. DEFINE g == plan.group
            kept == IF lost /\ writer = g /\ stateVersion = 0 THEN None ELSE writer
<1>1. /\ plan \in Plans /\ g \in Groups \ disabled /\ plan.steps \in Nat
      /\ handoff = NoHandoff /\ ~blocked /\ pending = NoPending
      /\ phase # "learn"
  BY DEF TypeOK, PlanInTurn, Plans, PrefetchInTurn, QuotaInTurn
<1>2. debt \in 0..TargetSteps /\ k \in Nat /\ k <= debt /\ debt > 0
  BY <1>1 DEF TypeOK, PlanInTurn, Plans
<1>3. writer \in Groups \ disabled => writer = g
  BY <1>1 DEF PlanInTurn, Owner, Usable
<1>4. /\ UNCHANGED <<loopVars, pinned, registered, claim, published, handoff, attempt, data,
                    headVars>>
      /\ plan' = NoPlan
      /\ lost => /\ disabled' = disabled \union {g}
                 /\ blocked' <=> (writer = g /\ stateVersion # 0)
      /\ ~lost => disabled' = disabled /\ blocked' = blocked
  BY <1>1 DEF Book, Disable
<1>5. blocked' \in BOOLEAN /\ disabled' \in SUBSET Groups
  <2>1. CASE lost
    <3>1. blocked' = (blocked \/ (writer = g /\ stateVersion # 0))
      BY <2>1, Zenon DEF Book, Disable
    <3>. QED BY <2>1, <3>1, <1>1, <1>4 DEF TypeOK
  <2>2. CASE ~lost
    BY <2>2, <1>4, Zenon DEF TypeOK
  <2>. QED BY <2>1, <2>2
<1>6. k = 0 => /\ writer' = kept
               /\ UNCHANGED <<stateVersion, boundary, debt, dataVersion, steps, trainedAt, total>>
  BY DEF Book
<1>7. k # 0 => /\ writer' = IF kept \in Groups \ disabled' /\ ~blocked' THEN kept ELSE g
               /\ stateVersion' = IF writer' = g THEN step ELSE stateVersion
               /\ boundary' = FALSE
               /\ debt' = debt - k
               /\ dataVersion' = IF debt = k THEN 0 ELSE dataVersion
               /\ steps' = [w \in Workers |-> IF w[1] = g THEN steps[w] + k ELSE steps[w]]
               /\ trainedAt' = [w \in Workers |-> IF w[1] = g THEN step ELSE trainedAt[w]]
               /\ total' = total + k
  BY Zenon DEF Book
<1>8. k # 0 => writer' = g /\ stateVersion' = step
  <2>1. disabled \subseteq disabled'
    BY <1>4
  <2>2. None \notin Groups
    OBVIOUS
  <2>3. k # 0 /\ kept \in Groups \ disabled' => kept = g
    BY <1>3, <2>1, <2>2
  <2>. QED BY <1>7, <2>3
<1>9. k = 0 /\ stateVersion # 0 => writer' = writer
  BY <1>6
<1>. HIDE DEF kept
<1>10. TypeOK'
  <2>1. HeadsTypeOK'
    BY <1>4 DEF TypeOK, HeadsTypeOK, headVars
  <2>2. {fallback, failed, blocked, boundary, claim}' \subseteq BOOLEAN
    <3>1. boundary' \in BOOLEAN
      BY <1>6, <1>7, Zenon DEF TypeOK
    <3>. QED BY <1>4, <1>5, <3>1, Zenon DEF TypeOK, loopVars
  <2>3. writer' \in Groups \union {None}
    BY <1>1, <1>6, <1>8 DEF TypeOK, kept
  <2>4. /\ stateVersion' \in {0} \union Versions /\ dataVersion' \in {0} \union Versions
        /\ debt' \in 0..TargetSteps /\ total' \in Nat
    BY <1>2, <1>6, <1>7, <1>8 DEF TypeOK
  <2>5. steps' \in [Workers -> Nat] /\ trainedAt' \in [Workers -> {0} \union Versions]
    BY <1>2, <1>6, <1>7 DEF TypeOK
  <2>. QED BY <1>4, <1>5, <2>1, <2>2, <2>3, <2>4, <2>5 DEF TypeOK, loopVars
<1>11. QuotaInTurn'
  BY <1>1, <1>2, <1>4, <1>6, <1>7 DEF QuotaInTurn, loopVars
<1>12. PrefetchInTurn' /\ HeadsHeld'
  BY <1>1, <1>4 DEF PrefetchInTurn, HeadsHeld, loopVars, headVars
<1>13. PlanInTurn' /\ HandoffInTurn'
  BY <1>1, <1>4 DEF PlanInTurn, HandoffInTurn
<1>14. steps \in [Workers -> Nat] /\ total \in Nat /\ step \in Versions /\ step # 0
  BY DEF TypeOK, Versions
<1>15. \A w \in Workers : /\ steps'[w] >= steps[w]
                          /\ w[1] # g => steps'[w] = steps[w]
  BY <1>2, <1>6, <1>7, <1>14
<1>16. Orphaned /\ ~blocked' => Orphaned'
  <2>1. disabled \subseteq disabled'
    BY <1>4
  <2>2. \A w \in Workers : steps[w] > 0 => steps'[w] > 0
    BY <1>15, <1>6, <1>7, <1>14, <1>2
  <2>. QED BY <2>1, <2>2 DEF Orphaned
<1>17. stateVersion # 0 /\ ~Orphaned => writer = g
  BY <1>1, <1>3 DEF WriterOwns
<1>18. WriterOwns'
  <2>1. CASE k = 0
    <3>1. stateVersion = 0 => ~blocked'
      BY <1>1, <1>4
    <3>2. lost /\ stateVersion # 0 /\ ~blocked' => Orphaned
      BY <1>4, <1>17
    <3>3. ~lost => disabled' = disabled
      BY <1>4
    <3>4. UNCHANGED <<stateVersion, steps, trainedAt, total>>
      BY <2>1, <1>6
    <3>5. stateVersion' # 0 /\ ~blocked' /\ ~Orphaned' =>
            /\ stateVersion # 0 /\ ~blocked /\ ~Orphaned
            /\ disabled' = disabled /\ writer' = writer
      BY <2>1, <1>1, <1>9, <1>16, <3>2, <3>3, <3>4, Zenon
    <3>6. stateVersion' = 0 => total' = 0 /\ ~blocked' /\ \A w \in Workers : steps'[w] = 0
      BY <3>1, <3>4 DEF WriterOwns
    <3>7. stateVersion' # 0 /\ ~blocked' /\ ~Orphaned' =>
            /\ writer' \in Groups \ disabled'
            /\ \A w \in Team(writer') : steps'[w] = total' /\ trainedAt'[w] = stateVersion'
      BY <3>4, <3>5 DEF WriterOwns
    <3>. QED BY <3>6, <3>7, Zenon DEF WriterOwns, Team
  <2>2. CASE k # 0
    <3>1. \A w \in Team(g) : /\ w \in Workers /\ w[1] = g
                             /\ steps'[w] = steps[w] + k /\ trainedAt'[w] = step
      BY <2>2, <1>1, <1>7, TeamWorkers
    <3>2. CASE lost
      <4>1. <<g, First>> \in Workers /\ <<g, First>>[1] = g /\ <<g, First>> \in Team(g)
        BY <1>1, TeamWorkers
      <4>2. steps'[<<g, First>>] > 0
        BY <4>1, <3>1, <1>2, <1>14, <2>2
      <4>3. ~blocked' => Orphaned'
        BY <3>2, <4>1, <4>2, <1>4 DEF Orphaned
      <4>. QED BY <2>2, <4>3, <1>8, <1>14 DEF WriterOwns
    <3>3. CASE ~lost
      <4>1. disabled' = disabled /\ ~blocked'
        BY <3>3, <1>1, <1>4
      <4>2. ~Orphaned => \A w \in Team(g) : steps[w] = total
        BY <3>1, <1>1, <1>17 DEF WriterOwns
      <4>3. ~Orphaned' => \A w \in Team(g) : steps'[w] = total'
        BY <4>1, <4>2, <3>1, <1>7, <1>16, <2>2
      <4>. QED BY <2>2, <3>1, <4>1, <4>3, <1>1, <1>8, <1>14 DEF WriterOwns, Team
    <3>. QED BY <3>2, <3>3
  <2>. QED BY <2>1, <2>2
<1>19. stateVersion # 0 /\ ~Orphaned => writer' = writer
  BY <1>8, <1>9, <1>17
<1>. QED BY <1>10, <1>11, <1>12, <1>13, <1>18, <1>19

(* A plan that ends, or is lost.                                           *)
LEMMA PlanOverInv ==
  WriterInv /\ (EndPlan \/ LosePlan) =>
    WriterInv' /\ (stateVersion # 0 /\ ~Orphaned => writer' = writer)
<1>. SUFFICES ASSUME WriterInv, EndPlan \/ LosePlan
              PROVE  WriterInv' /\ (stateVersion # 0 /\ ~Orphaned => writer' = writer)
  OBVIOUS
<1>1. plan # NoPlan
  BY DEF EndPlan, LosePlan, Training
<1>2. plan.steps \in Nat \ {0}
  BY <1>1 DEF WriterInv, TypeOK, Plans
<1>3. PICK k \in 0..plan.steps, lost \in BOOLEAN : Book(k, lost)
  <2>1. plan.steps \in 0..plan.steps /\ 0 \in 0..plan.steps
        /\ 0..(plan.steps - 1) \subseteq 0..plan.steps
        /\ 1..(plan.steps - 1) \subseteq 0..plan.steps
    BY <1>2
  <2>. QED BY <2>1, Zenon DEF EndPlan, LosePlan
<1>. QED BY <1>1, <1>3, BookInv

(* An exception, or a remembered refusal, changes nothing else.            *)
LEMMA NothingElseInv ==
  ASSUME WriterInv,
         failed' \in BOOLEAN, attempt' \in Attempts \union {NoAttempt},
         UNCHANGED <<step, phase, fallback, ownerVars, quotaVars, plan, handoff, workerVars,
                     headVars>>
  PROVE  WriterInv'
<1>. USE DEF WriterInv, ownerVars, quotaVars, workerVars, headVars
<1>1. TypeOK'
  <2>1. HeadsTypeOK'
    BY DEF TypeOK, HeadsTypeOK
  <2>2. {fallback, failed, blocked, boundary, claim}' \subseteq BOOLEAN
    BY Zenon DEF TypeOK
  <2>. QED BY <2>1, <2>2 DEF TypeOK
<1>2. HeadTargets' = HeadTargets /\ Owner' = Owner
  BY DEF HeadTargets, Owner, Usable
<1>3. QuotaInTurn' /\ PrefetchInTurn' /\ HeadsHeld'
  BY <1>2 DEF QuotaInTurn, PrefetchInTurn, HeadsHeld
<1>4. WriterOwns' /\ HandoffInTurn'
  BY DEF WriterOwns, Orphaned, HandoffInTurn
<1>5. PlanInTurn'
  BY <1>2 DEF PlanInTurn
<1>. QED BY <1>1, <1>3, <1>4, <1>5

(* A failed top-up or a failed import ends the run.                        *)
LEMMA FailureInv == WriterInv /\ (TopUpFails \/ ImportFails) => WriterInv'
<1>. SUFFICES ASSUME WriterInv, TopUpFails \/ ImportFails PROVE WriterInv'
  OBVIOUS
<1>1. failed' = TRUE
  BY DEF TopUpFails, ImportFails
<1>2. failed' \in BOOLEAN
  BY <1>1, Zenon
<1>3. UNCHANGED <<step, phase, fallback, ownerVars, quotaVars, workVars, workerVars, headVars>>
  BY DEF TopUpFails, ImportFails
<1>4. attempt' \in Attempts \union {NoAttempt}
  BY <1>3 DEF workVars, WriterInv, TypeOK
<1>. QED BY <1>2, <1>3, <1>4, NothingElseInv DEF workVars

(* A publication ends a quota that owes nothing.                           *)
LEMMA PublishInv == WriterInv /\ Publish => WriterInv'
<1>. SUFFICES ASSUME WriterInv, Publish PROVE WriterInv'
  OBVIOUS
<1>. USE DEF WriterInv
<1>1. /\ plan = NoPlan /\ handoff = NoHandoff /\ debt = 0
      /\ claim' = FALSE /\ boundary' = TRUE
      /\ UNCHANGED <<loopVars, writer, stateVersion, blocked, disabled, pinned, debt,
                    dataVersion, registered, workVars, workerVars, headVars>>
  BY DEF Publish, Free
<1>2. published' \in {0} \union Versions
  <2>1. PICK v \in {stateVersion, stateVersion + 1} : v <= step /\ published' = v
    BY DEF Publish
  <2>. QED BY <2>1 DEF TypeOK, Versions
<1>. USE <1>1 DEF loopVars, workVars, workerVars, headVars
<1>3. TypeOK'
  <2>1. HeadsTypeOK'
    BY DEF TypeOK, HeadsTypeOK
  <2>2. {fallback, failed, blocked, boundary, claim}' \subseteq BOOLEAN
    BY Zenon DEF TypeOK
  <2>. QED BY <2>1, <2>2, <1>2 DEF TypeOK
<1>4. QuotaInTurn'
  BY DEF QuotaInTurn
<1>5. PrefetchInTurn'
  <2>1. HeadTargets' = HeadTargets
    BY DEF HeadTargets, Owner, Usable
  <2>. QED BY <2>1 DEF PrefetchInTurn
<1>6. HeadsHeld' /\ WriterOwns' /\ PlanInTurn' /\ HandoffInTurn'
  BY DEF HeadsHeld, WriterOwns, Orphaned, PlanInTurn, HandoffInTurn
<1>. QED BY <1>3, <1>4, <1>5, <1>6

(* A checkpoint elects a group only if none owns state.                    *)
LEMMA CheckpointInv ==
  WriterInv /\ Checkpoint => WriterInv' /\ (stateVersion = 0 \/ Orphaned)
<1>. SUFFICES ASSUME WriterInv, Checkpoint PROVE WriterInv' /\ (stateVersion = 0 \/ Orphaned)
  OBVIOUS
<1>. USE DEF WriterInv
<1>1. /\ phase = "settle" /\ plan = NoPlan /\ handoff = NoHandoff
      /\ Owner = None
      /\ UNCHANGED <<loopVars, stateVersion, blocked, disabled, pinned, boundary, quotaVars,
                    workVars, workerVars, headVars>>
  BY DEF Checkpoint, Free
<1>2. writer' \in Usable
  BY DEF Checkpoint
<1>3. stateVersion = 0 \/ Orphaned
  BY <1>1, <1>2, OwnerUsable DEF WriterOwns, Usable
<1>. USE <1>1 DEF loopVars, quotaVars, workVars, workerVars, headVars
<1>4. TypeOK'
  <2>1. HeadsTypeOK'
    BY DEF TypeOK, HeadsTypeOK
  <2>2. {fallback, failed, blocked, boundary, claim}' \subseteq BOOLEAN
    BY Zenon DEF TypeOK
  <2>. QED BY <2>1, <2>2, <1>2, OwnerUsable DEF TypeOK
<1>5. QuotaInTurn' /\ PrefetchInTurn' /\ HeadsHeld'
  BY DEF QuotaInTurn, PrefetchInTurn, HeadsHeld
<1>6. WriterOwns'
  BY <1>3 DEF WriterOwns, Orphaned
<1>7. PlanInTurn' /\ HandoffInTurn'
  BY DEF PlanInTurn, HandoffInTurn
<1>. QED BY <1>3, <1>4, <1>5, <1>6, <1>7

(* The next step is newer than every quota.                                *)
LEMMA NextStepInv == WriterInv /\ NextStep => WriterInv'
<1>. SUFFICES ASSUME WriterInv, NextStep PROVE WriterInv'
  OBVIOUS
<1>. USE DEF WriterInv
<1>1. /\ plan = NoPlan /\ handoff = NoHandoff /\ step < MaxStep
      /\ step' = step + 1 /\ phase' = "rollout"
      /\ UNCHANGED <<fallback, failed, ownerVars, quotaVars, workVars, workerVars, headVars>>
  BY DEF NextStep, Free
<1>. USE <1>1 DEF ownerVars, quotaVars, workVars, workerVars, headVars
<1>2. step' \in Versions
  BY DEF TypeOK, Versions
<1>3. TypeOK'
  <2>1. HeadsTypeOK'
    BY DEF TypeOK, HeadsTypeOK
  <2>2. {fallback, failed, blocked, boundary, claim}' \subseteq BOOLEAN
    BY Zenon DEF TypeOK
  <2>. QED BY <2>1, <2>2, <1>2 DEF TypeOK
<1>4. QuotaInTurn'
  BY ReadyIsOld DEF QuotaInTurn
<1>5. PrefetchInTurn' /\ HeadsHeld'
  BY DEF PrefetchInTurn, HeadsHeld
<1>6. WriterOwns' /\ PlanInTurn' /\ HandoffInTurn'
  BY DEF WriterOwns, Orphaned, PlanInTurn, HandoffInTurn
<1>. QED BY <1>3, <1>4, <1>5, <1>6

(* When a transfer is useful, the writer has everything the target needs.  *)
LEMMA UsefulHandoff ==
  ASSUME WriterInv, NEW g \in Groups, HandoffUseful(g)
  PROVE  /\ phase = "rollout" /\ plan = NoPlan /\ handoff = NoHandoff /\ pending = NoPending
         /\ Owner = writer /\ writer \in Groups /\ g \notin disabled \union {writer}
         /\ stateVersion # 0 /\ ~blocked
         /\ debt = TargetSteps /\ dataVersion \in Versions
         /\ \A w \in Team(writer) : dataVersion \in heads[w]
<1>. USE DEF WriterInv
<1>1. /\ phase = "rollout" /\ plan = NoPlan /\ handoff = NoHandoff
      /\ Owner # None /\ stateVersion # 0 /\ boundary /\ debt > 0
      /\ HeadReady(dataVersion, Team(Owner))
      /\ g \in Usable \ {Owner}
  BY DEF HandoffUseful, Free, Private
<1>2. Owner = writer /\ writer \in Groups /\ g \notin disabled \union {writer} /\ ~blocked
  BY <1>1, OwnerUsable
<1>3. /\ debt = TargetSteps /\ claim /\ dataVersion = registered /\ dataVersion \in Versions
  BY <1>1 DEF QuotaInTurn, TypeOK
<1>4. dataVersion \in ready /\ Team(writer) \subseteq holders[dataVersion]
  BY <1>1, <1>2 DEF HeadReady
<1>5. pending = NoPending
  BY <1>3, <1>4 DEF PrefetchInTurn
<1>6. \A w \in Team(writer) : dataVersion \in heads[w]
  BY <1>3, <1>4 DEF HeadsHeld
<1>. QED BY <1>1, <1>2, <1>3, <1>5, <1>6

(* The state goes out as the writer has it.                                *)
LEMMA BeginHandoffInv == WriterInv /\ BeginHandoff => WriterInv'
<1>. SUFFICES ASSUME WriterInv, BeginHandoff PROVE WriterInv'
  OBVIOUS
<1>. USE DEF WriterInv
<1>1. PICK g \in Groups :
        /\ HandoffUseful(g) /\ SourceComplete
        /\ handoff' = [target |-> g, stage |-> "validate", waiting |-> Shards,
                       state |-> [s \in Shards |-> Export(s)]]
  BY DEF BeginHandoff
<1>2. UNCHANGED <<loopVars, ownerVars, quotaVars, plan, workerVars, headVars, attempt>>
  BY DEF BeginHandoff, otherThanTransfer
<1>3. /\ phase = "rollout" /\ plan = NoPlan /\ pending = NoPending
      /\ Owner = writer /\ writer \in Groups /\ g \notin disabled \union {writer}
      /\ stateVersion # 0 /\ ~blocked
      /\ debt = TargetSteps /\ dataVersion \in Versions
      /\ \A w \in Team(writer) : dataVersion \in heads[w]
  BY <1>1, UsefulHandoff
<1>4. \A s \in Shards :
        /\ <<writer, s>> \in Workers /\ <<writer, s>> \in Team(writer)
        /\ Export(s) = [steps |-> steps[<<writer, s>>], trainedAt |-> trainedAt[<<writer, s>>],
                        data |-> data[<<writer, s>>], heads |-> heads[<<writer, s>>]]
  BY <1>3, TeamWorkers DEF Export
<1>5. \A s \in Shards :
        /\ Export(s) \in Exports
        /\ Export(s).trainedAt = trainedAt[<<writer, s>>] /\ Export(s).steps = steps[<<writer, s>>]
        /\ Export(s).heads = heads[<<writer, s>>]
  BY <1>4 DEF Exports, TypeOK, HeadsTypeOK
<1>6. /\ handoff'.target = g /\ handoff'.stage = "validate" /\ handoff'.waiting = Shards
      /\ \A s \in Shards : handoff'.state[s] = Export(s)
  BY <1>1
<1>. USE <1>2 DEF loopVars, ownerVars, quotaVars, workerVars, headVars
<1>7. TypeOK'
  <2>1. HeadsTypeOK'
    BY DEF TypeOK, HeadsTypeOK
  <2>2. {fallback, failed, blocked, boundary, claim}' \subseteq BOOLEAN
    BY Zenon DEF TypeOK
  <2>3. handoff' \in Handoffs
    BY <1>1, <1>5 DEF Handoffs
  <2>. QED BY <2>1, <2>2, <2>3 DEF TypeOK
<1>8. QuotaInTurn' /\ PrefetchInTurn' /\ HeadsHeld'
  BY <1>3 DEF QuotaInTurn, PrefetchInTurn, HeadsHeld
<1>9. WriterOwns' /\ PlanInTurn'
  BY <1>3 DEF WriterOwns, Orphaned, PlanInTurn
<1>10. HandoffInTurn'
  <2>1. \A s \in Shards : Export(s).trainedAt = published /\ dataVersion \in Export(s).heads
    BY <1>1, <1>3, <1>4, <1>5 DEF SourceComplete
  <2>2. ~Orphaned => \A s \in Shards :
          Export(s).steps = total /\ Export(s).trainedAt = stateVersion
    BY <1>3, <1>4, <1>5 DEF WriterOwns
  <2>. QED BY <1>3, <1>6, <2>1, <2>2 DEF HandoffInTurn, Orphaned
<1>. QED BY <1>7, <1>8, <1>9, <1>10

(* A refusal is remembered.                                                *)
LEMMA NotOfferedInv == WriterInv /\ NotOffered => WriterInv'
<1>. SUFFICES ASSUME WriterInv, NotOffered PROVE WriterInv'
  OBVIOUS
<1>1. PICK g \in Groups :
        HandoffUseful(g) /\ attempt' = <<Owner, g, published, dataVersion>>
  BY DEF NotOffered
<1>2. UNCHANGED <<loopVars, ownerVars, quotaVars, plan, workerVars, headVars, handoff>>
  BY DEF NotOffered, otherThanTransfer
<1>3. attempt' \in Attempts
  BY <1>1, UsefulHandoff DEF Attempts, WriterInv, TypeOK
<1>4. failed' \in BOOLEAN
  BY <1>2, Zenon DEF loopVars, WriterInv, TypeOK
<1>. QED BY <1>2, <1>3, <1>4, NothingElseInv DEF loopVars

(* What a transfer under way may count on.                                 *)
LEMMA MovingHandoff ==
  ASSUME WriterInv, handoff # NoHandoff
  PROVE  /\ handoff \in Handoffs /\ handoff.target \in Groups
         /\ plan = NoPlan /\ pending = NoPending /\ phase # "learn"
         /\ writer \in Groups /\ handoff.target \notin disabled \union {writer}
         /\ debt = TargetSteps /\ claim /\ dataVersion = registered /\ dataVersion \in Versions
BY DEF WriterInv, TypeOK, HeadsTypeOK, Handoffs, PlanInTurn, PrefetchInTurn, QuotaInTurn,
       HandoffInTurn

(* Validation changes no worker.                                           *)
LEMMA ValidateInv == WriterInv /\ Validate => WriterInv'
<1>. SUFFICES ASSUME WriterInv, Validate PROVE WriterInv'
  OBVIOUS
<1>. USE DEF WriterInv
<1>1. handoff # NoHandoff /\ handoff.stage = "validate"
  BY NothingIsNone DEF Validate, Moving
<1>2. UNCHANGED <<loopVars, ownerVars, quotaVars, plan, workerVars, headVars>>
  BY DEF Validate, otherThanTransfer
<1>3. \/ handoff' = [handoff EXCEPT !.stage = "import"] /\ attempt' = attempt
      \/ /\ handoff' = NoHandoff
         /\ attempt' = <<writer, handoff.target, published, dataVersion>>
  BY DEF Validate
<1>4. attempt' \in Attempts \union {NoAttempt}
  BY <1>1, <1>3, MovingHandoff DEF Attempts, TypeOK
<1>5. \/ handoff' = NoHandoff
      \/ /\ handoff' \in Handoffs /\ handoff'.target = handoff.target
         /\ handoff'.state = handoff.state /\ handoff'.waiting = handoff.waiting
         /\ handoff'.stage = "import"
  BY <1>1, <1>3, MovingHandoff DEF Handoffs
<1>. USE <1>2 DEF loopVars, ownerVars, quotaVars, workerVars, headVars
<1>6. TypeOK'
  <2>1. HeadsTypeOK'
    BY DEF TypeOK, HeadsTypeOK
  <2>2. {fallback, failed, blocked, boundary, claim}' \subseteq BOOLEAN
    BY Zenon DEF TypeOK
  <2>. QED BY <2>1, <2>2, <1>4, <1>5 DEF TypeOK
<1>7. QuotaInTurn' /\ PrefetchInTurn' /\ HeadsHeld'
  BY <1>1, MovingHandoff DEF QuotaInTurn, PrefetchInTurn, HeadsHeld
<1>8. WriterOwns' /\ PlanInTurn'
  BY <1>1, MovingHandoff DEF WriterOwns, Orphaned, PlanInTurn
<1>9. HandoffInTurn'
  BY <1>1, <1>5 DEF HandoffInTurn, Orphaned
<1>. QED BY <1>6, <1>7, <1>8, <1>9

(* A shard takes over the whole state of its counterpart, and nobody else  *)
(* changes: neither the writer nor a group that is out.                    *)
LEMMA ImportShardInv == ASSUME NEW s \in Shards PROVE WriterInv /\ ImportShard(s) => WriterInv'
<1>. SUFFICES ASSUME WriterInv, ImportShard(s) PROVE WriterInv'
  OBVIOUS
<1>. USE DEF WriterInv
<1>. DEFINE w == <<handoff.target, s>>
            state == handoff.state[s]
<1>1. /\ handoff # NoHandoff /\ handoff.stage = "import" /\ s \in handoff.waiting
      /\ steps' = [steps EXCEPT ![w] = state.steps]
      /\ trainedAt' = [trainedAt EXCEPT ![w] = state.trainedAt]
      /\ data' = [data EXCEPT ![w] = state.data]
      /\ heads' = [heads EXCEPT ![w] = state.heads]
      /\ handoff' = [handoff EXCEPT !.waiting = handoff.waiting \ {s}]
      /\ UNCHANGED <<loopVars, ownerVars, quotaVars, plan, attempt, total, pending, ready,
                    holders>>
  BY NothingIsNone DEF ImportShard, Moving
<1>2. /\ handoff \in Handoffs /\ handoff.target \in Groups
      /\ plan = NoPlan /\ pending = NoPending /\ phase # "learn"
      /\ writer \in Groups /\ handoff.target \notin disabled \union {writer}
      /\ debt = TargetSteps /\ claim /\ dataVersion = registered /\ dataVersion \in Versions
  BY <1>1, MovingHandoff
<1>3. /\ state.steps \in Nat /\ state.trainedAt \in {0} \union Versions
      /\ state.data \in {0} \union Versions /\ state.heads \in SUBSET Versions
  BY <1>2 DEF Handoffs, Exports
<1>4. /\ w \in Workers /\ w[1] = handoff.target
      /\ \A u \in Workers : u[1] # handoff.target => u # w
      /\ \A t \in Shards : <<handoff.target, t>> \in Workers /\ (t # s => <<handoff.target, t>> # w)
  BY <1>2, TeamWorkers
<1>5. /\ handoff' \in Handoffs /\ handoff'.target = handoff.target
      /\ handoff'.stage = "import" /\ handoff'.state = handoff.state
      /\ handoff'.waiting = handoff.waiting \ {s}
  BY <1>1, <1>2 DEF Handoffs
<1>6. /\ steps'[w] = state.steps /\ trainedAt'[w] = state.trainedAt /\ heads'[w] = state.heads
      /\ \A u \in Workers : u # w =>
           steps'[u] = steps[u] /\ trainedAt'[u] = trainedAt[u] /\ heads'[u] = heads[u]
  BY <1>1, <1>4 DEF TypeOK, HeadsTypeOK
<1>7. registered \in state.heads
  BY <1>1, <1>2 DEF HandoffInTurn
<1>8. TypeOK'
  <2>1. HeadsTypeOK'
    BY <1>1, <1>3, <1>4 DEF TypeOK, HeadsTypeOK
  <2>2. {fallback, failed, blocked, boundary, claim}' \subseteq BOOLEAN
    BY <1>1, Zenon DEF TypeOK, loopVars, ownerVars, quotaVars
  <2>3. /\ steps' \in [Workers -> Nat]
        /\ trainedAt' \in [Workers -> {0} \union Versions]
        /\ data' \in [Workers -> {0} \union Versions]
    BY <1>1, <1>3, <1>4 DEF TypeOK
  <2>. HIDE DEF w, state
  <2>. QED BY <2>1, <2>2, <2>3, <1>1, <1>5 DEF TypeOK, loopVars, ownerVars, quotaVars
<1>. HIDE DEF w, state
<1>9. QuotaInTurn' /\ PrefetchInTurn' /\ PlanInTurn'
  BY <1>1, <1>2 DEF QuotaInTurn, PrefetchInTurn, PlanInTurn, loopVars, ownerVars, quotaVars
<1>10. HeadsHeld'
  <2>1. holders[registered] \subseteq Workers
    BY <1>2 DEF TypeOK, HeadsTypeOK
  <2>. QED BY <2>1, <1>1, <1>6, <1>7 DEF HeadsHeld, quotaVars
<1>11. Orphaned' <=> Orphaned
  BY <1>1, <1>2, <1>4, <1>6 DEF Orphaned, ownerVars
<1>12. WriterOwns'
  <2>1. \A u \in Team(writer) : u \in Workers /\ u # w
    BY <1>2, <1>4, TeamWorkers
  <2>2. stateVersion # 0
    BY <1>1 DEF HandoffInTurn
  <2>. QED BY <2>1, <2>2, <1>1, <1>6, <1>11 DEF WriterOwns, ownerVars, Team
<1>13. HandoffInTurn'
  <2>1. \A t \in Shards \ handoff'.waiting :
          /\ steps'[<<handoff.target, t>>] = handoff.state[t].steps
          /\ trainedAt'[<<handoff.target, t>>] = handoff.state[t].trainedAt
          /\ heads'[<<handoff.target, t>>] = handoff.state[t].heads
    <3>. TAKE t \in Shards \ handoff'.waiting
    <3>1. CASE t = s
      BY <3>1, <1>6 DEF w, state
    <3>2. CASE t # s
      BY <3>2, <1>1, <1>4, <1>5, <1>6 DEF HandoffInTurn
    <3>. QED BY <3>1, <3>2
  <2>. QED BY <2>1, <1>1, <1>5, <1>11 DEF HandoffInTurn, ownerVars, quotaVars
<1>. QED BY <1>8, <1>9, <1>10, <1>12, <1>13

(* When all shards have the state the target is the writer.                *)
LEMMA CompleteHandoffInv ==
  WriterInv /\ CompleteHandoff =>
    WriterInv' /\ debt = TargetSteps /\ plan = NoPlan /\ (~Orphaned => published = stateVersion)
<1>. SUFFICES ASSUME WriterInv, CompleteHandoff
              PROVE  /\ WriterInv' /\ debt = TargetSteps /\ plan = NoPlan
                     /\ ~Orphaned => published = stateVersion
  OBVIOUS
<1>. USE DEF WriterInv
<1>1. /\ handoff # NoHandoff /\ handoff.waiting = {}
      /\ writer' = handoff.target /\ boundary' = FALSE
      /\ ShareHeads(handoff.state[First].heads, Team(handoff.target))
      /\ handoff' = NoHandoff
      /\ UNCHANGED <<loopVars, stateVersion, blocked, disabled, pinned, quotaVars, plan,
                    attempt, workerVars>>
  BY NothingIsNone DEF CompleteHandoff, Moving
<1>2. /\ handoff \in Handoffs /\ handoff.target \in Groups
      /\ plan = NoPlan /\ pending = NoPending /\ phase # "learn"
      /\ handoff.target \notin disabled
      /\ debt = TargetSteps /\ claim /\ dataVersion = registered /\ dataVersion \in Versions
  BY <1>1, MovingHandoff
<1>3. \A w \in Team(handoff.target) :
        /\ w \in Workers
        /\ registered \in heads[w]
        /\ ~Orphaned => steps[w] = total /\ trainedAt[w] = stateVersion
  <2>. SUFFICES ASSUME NEW w \in Team(handoff.target)
                PROVE  /\ w \in Workers
                       /\ registered \in heads[w]
                       /\ ~Orphaned => steps[w] = total /\ trainedAt[w] = stateVersion
    OBVIOUS
  <2>1. w \in Workers /\ w[2] \in Shards /\ w = <<handoff.target, w[2]>>
    BY <1>2, TeamWorkers
  <2>2. /\ dataVersion \in handoff.state[w[2]].heads
        /\ heads[w] = handoff.state[w[2]].heads
        /\ steps[w] = handoff.state[w[2]].steps
        /\ trainedAt[w] = handoff.state[w[2]].trainedAt
        /\ ~Orphaned => /\ handoff.state[w[2]].steps = total
                        /\ handoff.state[w[2]].trainedAt = stateVersion
    BY <2>1, <1>1 DEF HandoffInTurn
  <2>. QED BY <2>1, <2>2, <1>2
<1>4. ~Orphaned => published = stateVersion
  BY <1>1 DEF HandoffInTurn
<1>. USE DEF loopVars, quotaVars, workerVars
<1>5. /\ UNCHANGED <<pending, ready, heads>>
      /\ holders' \in [Versions -> SUBSET Workers]
      /\ \A w \in holders'[registered] : w \in holders[registered] \/ w \in Team(handoff.target)
  BY <1>1, <1>2, <1>3 DEF ShareHeads, TypeOK, HeadsTypeOK
<1>6. TypeOK'
  <2>1. HeadsTypeOK'
    BY <1>5 DEF TypeOK, HeadsTypeOK
  <2>2. {fallback, failed, blocked, boundary, claim}' \subseteq BOOLEAN
    BY <1>1, Zenon DEF TypeOK
  <2>. QED BY <2>1, <2>2, <1>1, <1>2 DEF TypeOK
<1>7. QuotaInTurn' /\ PrefetchInTurn' /\ PlanInTurn' /\ HandoffInTurn'
  BY <1>1, <1>2, <1>5 DEF QuotaInTurn, PrefetchInTurn, PlanInTurn, HandoffInTurn
<1>8. HeadsHeld'
  BY <1>1, <1>3, <1>5 DEF HeadsHeld
<1>9. WriterOwns'
  <2>1. Orphaned' <=> Orphaned
    BY <1>1 DEF Orphaned
  <2>2. Team(writer') = Team(handoff.target) /\ writer' \in Groups \ disabled'
    BY <1>1, <1>2 DEF Team
  <2>3. stateVersion # 0
    BY <1>1 DEF HandoffInTurn
  <2>. QED BY <2>1, <2>2, <2>3, <1>1, <1>3 DEF WriterOwns
<1>. QED BY <1>2, <1>4, <1>6, <1>7, <1>8, <1>9

(* Nothing is owned or owed at first.                                      *)
LEMMA InitInv == Init => WriterInv
<1>. SUFFICES ASSUME Init PROVE WriterInv
  OBVIOUS
<1>. USE DEF Init, HeadsInit
<1>1. TypeOK
  <2>1. HeadsTypeOK
    BY DEF HeadsTypeOK
  <2>2. {fallback, failed, blocked, boundary, claim} \subseteq BOOLEAN
    BY Zenon
  <2>. QED BY <2>1, <2>2 DEF TypeOK, Versions
<1>2. ~boundary /\ ~claim /\ ~blocked
  BY Zenon
<1>3. QuotaInTurn /\ PrefetchInTurn /\ HeadsHeld
  BY <1>2 DEF QuotaInTurn, PrefetchInTurn, HeadsHeld
<1>4. WriterOwns /\ PlanInTurn /\ HandoffInTurn
  BY <1>2 DEF WriterOwns, PlanInTurn, HandoffInTurn
<1>. QED BY <1>1, <1>3, <1>4 DEF WriterInv

(* Every step keeps the invariant.                                         *)
LEMMA NextInv == WriterInv /\ [Next]_vars => WriterInv'
<1>. SUFFICES ASSUME WriterInv, [Next]_vars PROVE WriterInv'
  OBVIOUS
<1>1. CASE Collection
  BY <1>1, CollectInv, CollectNothingInv DEF Collection
<1>2. CASE Heads
  BY <1>2, PrefetchInv, AdvancePrefetchInv, CacheHeadInv, PrefetchRejectedInv DEF Heads
<1>3. CASE Plan
  BY <1>3, PlanIdleInv, TopUpInv, PlanOverInv, FailureInv DEF Plan
<1>4. CASE Loop
  BY <1>4, UpdateActorInv, PublishInv, CheckpointInv, NextStepInv DEF Loop
<1>5. CASE Transfer
  BY <1>5, BeginHandoffInv, NotOfferedInv, ValidateInv, ImportShardInv, FailureInv,
     CompleteHandoffInv DEF Transfer
<1>6. CASE UNCHANGED vars
  <2>1. UNCHANGED <<step, phase, fallback, failed, ownerVars, quotaVars, plan, handoff, attempt,
                    workerVars, headVars>>
    BY <1>6 DEF vars, loopVars, workVars
  <2>2. failed' \in BOOLEAN
    BY <2>1, Zenon DEF WriterInv, TypeOK
  <2>3. attempt' \in Attempts \union {NoAttempt}
    BY <2>1 DEF WriterInv, TypeOK
  <2>. QED BY <2>1, <2>2, <2>3, NothingElseInv
<1>. QED BY <1>1, <1>2, <1>3, <1>4, <1>5, <1>6 DEF Next

-----------------------------------------------------------------------------
(* The writer group and the heads keep to the invariant: a quota, its head *)
(* and a transfer of the state follow each other, and the writer has all   *)
(* the state unless its loss was final or its first steps were orphaned.   *)
THEOREM WriterInvariant == Spec => []WriterInv
<1>1. Init => WriterInv
  BY InitInv
<1>2. WriterInv /\ [Next]_vars => WriterInv'
  BY NextInv
<1>. QED BY <1>1, <1>2, PTL DEF Spec

(* The driver's, the workers' and the transfer's variables keep their      *)
(* types: no budget or debt leaves 0..TargetSteps, no version the run.     *)
THEOREM WriterTypes == Spec => []TypeOK
<1>1. WriterInv => TypeOK
  BY DEF WriterInv
<1>. QED BY <1>1, WriterInvariant, PTL

(* A plan runs only on a group every shard of which has all the optimizer  *)
(* steps of the run and the samples of the quota, across elections, lost   *)
(* groups and transfers (drafter_scheduler.py:998), unless the scheduler   *)
(* has orphaned the first steps (5350, 5420-5446).                         *)
THEOREM StateComplete == Spec => []NoStaleTraining
<1>1. WriterInv => NoStaleTraining
  <2>. SUFFICES ASSUME WriterInv, plan # NoPlan, ~Orphaned,
                       NEW w \in Team(plan.group)
                PROVE  steps[w] = total /\ data[w] = dataVersion
    BY DEF NoStaleTraining
  <2>1. ~blocked /\ data[w] = dataVersion /\ (Owner # None => plan.group = Owner)
    BY DEF WriterInv, PlanInTurn
  <2>2. plan.group \in Groups
    BY DEF WriterInv, TypeOK, Plans
  <2>3. w \in Workers
    BY <2>2, TeamWorkers
  <2>4. CASE stateVersion = 0
    BY <2>1, <2>3, <2>4 DEF WriterInv, WriterOwns
  <2>5. CASE stateVersion # 0
    <3>1. /\ writer \in Groups \ disabled
          /\ \A u \in Team(writer) : steps[u] = total
      BY <2>1, <2>5 DEF WriterInv, WriterOwns
    <3>2. plan.group = writer
      BY <2>1, <3>1 DEF Owner, Usable
    <3>. QED BY <2>1, <3>1, <3>2
  <2>. QED BY <2>4, <2>5
<1>. QED BY <1>1, WriterInvariant, PTL

(* The workers' caches, which evict on their own, never lose the head of   *)
(* the open quota: where the driver believes it is, and wherever a plan    *)
(* runs, it is, for every size of the caches.                              *)
THEOREM HeadsInPlace == Spec => []HeadInPlace
<1>1. WriterInv => HeadInPlace
  <2>. SUFFICES ASSUME WriterInv PROVE HeadInPlace
    OBVIOUS
  <2>1. \A v \in Protected \intersect ready : \A w \in holders[v] : v \in heads[w]
    BY ProtectedIsOpen DEF WriterInv, HeadsHeld
  <2>2. plan # NoPlan => \A w \in Team(plan.group) : dataVersion \in heads[w]
    BY DEF WriterInv, PlanInTurn
  <2>. QED BY <2>1, <2>2 DEF HeadInPlace
<1>. QED BY <1>1, WriterInvariant, PTL

(* A group that owns training state is replaced only between a publication *)
(* and the first step of the next quota, never under a running plan        *)
(* (bubble_time_drafter_training.md:700-701).                              *)
THEOREM SwitchesAtBoundary == Spec => NoMidQuotaSwitch
<1>. DEFINE Switch == stateVersion # 0 /\ ~Orphaned /\ writer' # writer
            Held   == debt = TargetSteps /\ published = stateVersion /\ plan = NoPlan /\ plan' = NoPlan
<1>1. WriterInv /\ [Next]_vars => (Switch => Held)
  <2>. SUFFICES ASSUME WriterInv, [Next]_vars, stateVersion # 0, ~Orphaned, writer' # writer
                PROVE  Held
    OBVIOUS
  <2>1. CASE Collection
    <3>1. writer' = writer \/ ElectCollector
      BY <2>1 DEF Collection, Collect, CollectNothing, ownerVars
    <3>. QED BY <3>1 DEF ElectCollector
  <2>2. CASE Heads
    BY <2>2 DEF Heads, Prefetch, AdvancePrefetch, CacheHead, PrefetchRejected, otherThanHeads,
       ownerVars
  <2>3. CASE Plan
    <3>1. CASE EndPlan \/ LosePlan
      BY <3>1, PlanOverInv
    <3>2. CASE PlanIdle
      BY <3>2 DEF PlanIdle
    <3>3. CASE TopUp \/ TopUpFails
      BY <3>3 DEF TopUp, TopUpFails, ownerVars
    <3>. QED BY <2>3, <3>1, <3>2, <3>3 DEF Plan
  <2>4. CASE Loop
    <3>1. CASE Checkpoint
      BY <3>1, CheckpointInv
    <3>2. CASE UpdateActor \/ Publish \/ NextStep
      BY <3>2 DEF UpdateActor, Publish, NextStep, ownerVars
    <3>. QED BY <2>4, <3>1, <3>2 DEF Loop
  <2>5. CASE Transfer
    <3>1. CASE CompleteHandoff
      <4>1. plan' = plan
        BY <3>1 DEF CompleteHandoff
      <4>. QED BY <3>1, <4>1, CompleteHandoffInv
    <3>2. CASE BeginHandoff \/ NotOffered \/ Validate
      BY <3>2 DEF BeginHandoff, NotOffered, Validate, otherThanTransfer, ownerVars
    <3>3. CASE ImportFails
      BY <3>3 DEF ImportFails, ownerVars
    <3>4. ASSUME NEW s \in Shards, ImportShard(s) PROVE FALSE
      BY <3>4 DEF ImportShard, ownerVars
    <3>. QED BY <2>5, <3>1, <3>2, <3>3, <3>4 DEF Transfer
  <2>6. CASE UNCHANGED vars
    BY <2>6 DEF vars, ownerVars
  <2>. QED BY <2>1, <2>2, <2>3, <2>4, <2>5, <2>6 DEF Next
<1>2. WriterInv /\ [Next]_vars =>
        [stateVersion # 0 /\ ~Orphaned /\ writer' # writer =>
           /\ debt = TargetSteps /\ published = stateVersion
           /\ plan = NoPlan /\ plan' = NoPlan]_vars
  BY <1>1
<1>. QED BY <1>2, WriterInvariant, PTL DEF Spec, NoMidQuotaSwitch
=============================================================================
