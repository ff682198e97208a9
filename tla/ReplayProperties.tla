-------------------------- MODULE ReplayProperties --------------------------
(***************************************************************************)
(* Correctness of the sample buffer and its replay sessions.               *)
(***************************************************************************)
EXTENDS ReplayBuffer

(* "Samples reserved by another in-flight plan are hidden", and no other:  *)
(* a sample in the buffer is reserved only by the plan in flight.          *)
HiddenOnlyInFlight ==
  \A s \in buffer : reserved[s] # 0 => plan.id # 0 /\ reserved[s] = plan.id

(* validate_checkpoint_buffer_ownership: once the quota is published, no   *)
(* sample in the buffer is reserved or pinned, and a checkpoint is taken.  *)
CheckpointAccepted == ~unpublished /\ ~collection.open => Protected = {}

(* A quota is registered with data, and keeps some that its next plan can  *)
(* train on, whatever the buffer evicts, consumes or rolls back.           *)
QuotaHasData ==
  owed > 0 => \E s \in buffer : version[s] = current /\ reserved[s] \in {0, plan.id}

(* A protected sample leaves the buffer only through the finalization of   *)
(* its session, after training on it: neither evicted nor rolled back.     *)
ProtectedStay ==
  [][\A s \in Protected \ buffer' :
        /\ plan.training /\ plan' = NoPlan
        /\ s \in sessions[current].used]_vars

(* What a plan trains on does not change between its preflight and its     *)
(* end, whatever is collected, evicted or rolled back in the meantime.     *)
ReservationStable ==
  [][plan.id # 0 /\ plan'.id = plan.id =>
       {s \in buffer' : reserved'[s] = plan.id} = Reserved]_vars

-----------------------------------------------------------------------------
(* The argument for the safety properties.  Flags are set when a plan is   *)
(* prepared, which no collection meets: what is protected was there when   *)
(* the snapshot was taken, and stays.                                      *)

PlanInv ==
  /\ plan.id = 0 => plan = NoPlan
  /\ plan.id # 0 => /\ plan.id <= plans /\ plan.steps \in 1..owed
                    /\ plan.done <= plan.steps
  /\ collection.open /\ plan.id # 0 => plan.training
  /\ owed > 0 => unpublished
  /\ unpublished \/ collection.open => current # 0

FlagInv ==
  /\ \A s \in Samples : reserved[s] <= plans
  /\ \A s \in Samples : s > made => reserved[s] = 0 /\ s \notin pinned
  /\ \A s \in buffer \union collection.snapshot : s <= made
  /\ made + collection.left <= MaxSamples

SnapshotInv ==
  /\ ~collection.open => collection.snapshot = {}
  /\ collection.open => Protected \subseteq collection.snapshot
  /\ Cardinality(collection.snapshot) <= Capacity
  /\ \A s \in collection.snapshot :
        plan.id # 0 /\ reserved[s] = plan.id => s \in buffer

(* With no rollback after a finalization, what a rollback would bring back *)
(* has no flags but those of samples that never left.                      *)
ReservedInv ==
  /\ HiddenOnlyInFlight
  /\ collection.snapshot \intersect consumed = {} =>
       \A s \in collection.snapshot : reserved[s] # 0 \/ s \in pinned => s \in buffer

(* With no top-up past an abandoned session, pins belong to the session of *)
(* the quota, and end with it.                                             *)
SessionInv ==
  /\ \A s \in buffer \intersect pinned : current # 0 /\ s \in sessions[current].items
  /\ owed = 0 /\ current # 0 => sessions[current] = NoSession
  /\ \A v \in Versions : v > current => sessions[v] = NoSession

(* With no pin left over, the newest sample of a new version is stored:    *)
(* the quota has data, and a rollback of a later collection brings it back.*)
Data(S) == {s \in S : version[s] = current}
DataInv ==
  /\ owed > 0 => Data(buffer) # {}
  /\ collection.open /\ owed > 0 => Data(collection.snapshot) # {}
  /\ collection.open /\ ~unpublished /\ collection.left = 0 => Data(buffer) # {}

BufferInv ==
  /\ TypeOK /\ PlanInv /\ FlagInv /\ SnapshotInv
  /\ ~LateRollback => ReservedInv
  /\ ~LateRollback /\ ~AbandonedAttempts => SessionInv /\ DataInv
=============================================================================
