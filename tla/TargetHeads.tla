---------------------------- MODULE TargetHeads ----------------------------
(***************************************************************************)
(* The target heads of Bubble Time: the frozen LM head that the samples of *)
(* a version need in training.  The driver exports the actor's head before *)
(* the actor update, dispatches it to the workers that may train on it,    *)
(* and believes a head to be ready where every one of them acknowledged    *)
(* it; each worker caches HeadLimit versions and evicts on its own.        *)
(***************************************************************************)
EXTENDS Naturals, FiniteSets

CONSTANTS
  Groups,     \* replica-local training groups
  Shards,     \* positions of a worker in its group
  MaxStep,    \* bound: steps of the training loop
  HeadLimit   \* _target_lm_head_snapshot_limit, and the driver's limit

ASSUME HeadsAssumption == MaxStep \in Nat \ {0} /\ HeadLimit \in Nat \ {0}

Workers  == Groups \X Shards
Versions == 1..MaxStep

VARIABLES
  pending,  \* _pending_target_lm_head_sync
  ready,    \* _speco_ready_target_lm_head_versions
  holders,  \* _speco_ready_target_lm_head_workers
  heads     \* _target_lm_head_snapshots of every worker

headVars == <<pending, ready, holders, heads>>

NoPending == [version |-> 0, stage |-> "none", targets |-> {}, waiting |-> {}, spared |-> {}]

Prefetches ==
  [version : Versions, stage : {"fetch", "dispatch"}, targets : SUBSET Workers,
   waiting : SUBSET Workers, spared : SUBSET Versions]

HeadsTypeOK ==
  /\ pending \in Prefetches \union {NoPending}
  /\ ready \in SUBSET Versions
  /\ holders \in [Versions -> SUBSET Workers]
  /\ heads \in [Workers -> SUBSET Versions]

HeadsInit ==
  /\ pending = NoPending
  /\ ready = {}
  /\ holders = [v \in Versions |-> {}]
  /\ heads = [w \in Workers |-> {}]

(* A full cache evicts its oldest versions, but none that is spared.       *)
Retained(versions, spared) ==
  LET spare == versions \ spared IN
  {v \in versions :
     \/ v \in spared
     \/ Cardinality(versions) - Cardinality({u \in spare : u < v}) <= HeadLimit}

(* The driver knows that all of these workers hold the head.               *)
HeadReady(version, workers) == version \in ready /\ workers \subseteq holders[version]

-----------------------------------------------------------------------------
(* The actor is asked for its head.                                        *)
StartPrefetch(version, targets) ==
  /\ pending = NoPending
  /\ ~HeadReady(version, targets)
  /\ pending' = [version |-> version, stage |-> "fetch", targets |-> targets,
                 waiting |-> {}, spared |-> {}]
  /\ UNCHANGED <<ready, holders, heads>>

(* The exported head goes out, with the versions its receivers must keep.  *)
Dispatch(spared) ==
  /\ pending.stage = "fetch"
  /\ pending' = [pending EXCEPT !.stage = "dispatch", !.waiting = pending.targets,
                                !.spared = spared]
  /\ UNCHANGED <<ready, holders, heads>>

(* The actor had no head to give.                                          *)
FetchFails ==
  /\ pending.stage = "fetch"
  /\ pending' = NoPending
  /\ UNCHANGED <<ready, holders, heads>>

(* A worker caches the head.                                               *)
ApplyHead(w) ==
  /\ w \in pending.waiting
  /\ heads' = [heads EXCEPT ![w] =
                 Retained(@ \union {pending.version}, pending.spared \union {pending.version})]
  /\ pending' = [pending EXCEPT !.waiting = @ \ {w}]
  /\ UNCHANGED <<ready, holders>>

(* Mutant: the first acknowledgement will do.                              *)
MarkReadyEarly(spared) ==
  LET version == pending.version IN
  /\ pending.stage = "dispatch" /\ pending.waiting # pending.targets
  /\ ready' = ready \union {version}
  /\ holders' = [holders EXCEPT ![version] = pending.targets]
  /\ pending' = NoPending
  /\ UNCHANGED heads

(* All acknowledgements are in.                                            *)
MarkReady(spared) ==
  LET version == pending.version
      known   == ready \union {version}
  IN
  /\ pending.stage = "dispatch" /\ pending.waiting = {}
  /\ ready' = Retained(known, spared \union {version})
  /\ holders' = [v \in Versions |->
                   IF v = version THEN pending.targets
                   ELSE IF v \in known \ ready' THEN {}
                   ELSE holders[v]]
  /\ pending' = NoPending
  /\ UNCHANGED heads

(* A worker that has not cached the head answers all the same.             *)
RejectHead ==
  /\ pending.stage = "dispatch" /\ pending.waiting # {}
  /\ ready' = ready \ {pending.version}
  /\ holders' = [holders EXCEPT ![pending.version] = {}]
  /\ pending' = NoPending
  /\ UNCHANGED heads

(* Heads that came with a writer's state are ready at its new group.       *)
ShareHeads(versions, workers) ==
  /\ holders' = [v \in Versions |->
                   IF v \in versions THEN holders[v] \union workers ELSE holders[v]]
  /\ UNCHANGED <<pending, ready, heads>>
=============================================================================
