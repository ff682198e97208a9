------------------------------ MODULE LeaseBus ------------------------------
(***************************************************************************)
(* The rollout idle event bus: the actor that lends the devices of a       *)
(* rollout replica either to its requests or to idle training, and tells   *)
(* the trainer when a replica starts and ends serving.  Every method of    *)
(* the actor is one step; the clients are in IdleTraining.                 *)
(*                                                                         *)
(* A replica asks for one lease at a time (its server holds a lock while   *)
(* it does), so one open request per replica is enough.  A training lease  *)
(* is taken with expiry 0 and ends only when it is released.               *)
(***************************************************************************)
EXTENDS Naturals, Sequences

CONSTANTS
  Workers,    \* devices that rollout and drafter training share
  Replicas,   \* rollout replicas
  ReplicaOf,  \* the replica each worker belongs to (_replica_groups)
  MaxPlans    \* bound: training plans, numbered from 1

ASSUME ReplicasAssumption == ReplicaOf \in [Workers -> Replicas]
ASSUME GroupsAssumption == \A r \in Replicas : \E w \in Workers : ReplicaOf[w] = r
ASSUME PlansAssumption == MaxPlans \in Nat

VARIABLES
  rolloutOwners,   \* _rollout_owners: requests served on each worker
  trainingOwners,  \* _training_owners: plan that trains on each worker, 0 for none
  pendingGroups,   \* _pending_rollout_groups: replicas whose request waits
  requests,        \* _rollout_requests: the open request of each replica
  reclaims,        \* _training_reclaims: plans asked to stop
  overlap,         \* _overlap_required_plans: plans that need a rollout beside them
  events           \* _events: lifecycle events the trainer has not drained

busVars == <<rolloutOwners, trainingOwners, pendingGroups, requests, reclaims,
             overlap, events>>

Plans    == 1..MaxPlans
Group(r) == {w \in Workers : ReplicaOf[w] = r}
Event    == [type : {"started", "idle"}, replica : Replicas, released : BOOLEAN]

Started(r)        == [type |-> "started", replica |-> r, released |-> FALSE]
Idle(r, released) == [type |-> "idle", replica |-> r, released |-> released]

BusTypeOK ==
  /\ rolloutOwners \in [Workers -> Nat]
  /\ trainingOwners \in [Workers -> {0} \union Plans]
  /\ pendingGroups \subseteq Replicas
  /\ requests \in [Replicas -> {"none", "waiting", "owned"}]
  /\ reclaims \subseteq Plans
  /\ overlap \subseteq Plans
  /\ events \in Seq(Event)

BusInit ==
  /\ rolloutOwners = [w \in Workers |-> 0]
  /\ trainingOwners = [w \in Workers |-> 0]
  /\ pendingGroups = {}
  /\ requests = [r \in Replicas |-> "none"]
  /\ reclaims = {}
  /\ overlap = {}
  /\ events = <<>>

PlansOn(W)        == {trainingOwners[w] : w \in W} \ {0}
Serves(owners, W) == \E w \in W : owners[w] > 0

Shared(r) ==
  [w \in Workers |-> IF w \in Group(r) THEN rolloutOwners[w] + 1 ELSE rolloutOwners[w]]
Returned(r) ==
  [w \in Workers |-> IF w \in Group(r) /\ rolloutOwners[w] > 0
                     THEN rolloutOwners[w] - 1 ELSE rolloutOwners[w]]

(* Plans without a lease are forgotten.                                    *)
Live(plans) == plans \intersect PlansOn(Workers)

-----------------------------------------------------------------------------
(* Rollout leases *)

(* A replica that finds a plan on its devices has the plan reclaimed and   *)
(* waits.  The trainer is told once per wait.                              *)
BlockRollout(r) ==
  /\ requests[r] # "owned"
  /\ PlansOn(Group(r)) # {}
  /\ requests' = [requests EXCEPT ![r] = "waiting"]
  /\ reclaims' = Live(reclaims) \union PlansOn(Group(r))
  /\ overlap' = Live(overlap)
  /\ pendingGroups' = pendingGroups \union {r}
  /\ events' = IF r \in pendingGroups THEN events ELSE Append(events, Started(r))
  /\ UNCHANGED <<rolloutOwners, trainingOwners>>

(* A replica that has waited was announced when it began to.               *)
GrantRollout(r) ==
  /\ requests[r] # "owned"
  /\ PlansOn(Group(r)) = {}
  /\ requests' = [requests EXCEPT ![r] = "owned"]
  /\ rolloutOwners' = Shared(r)
  /\ reclaims' = Live(reclaims)
  /\ overlap' = Live(overlap)
  /\ pendingGroups' = pendingGroups \ {r}
  /\ events' = IF r \in pendingGroups \/ Serves(rolloutOwners, Group(r))
               THEN events ELSE Append(events, Started(r))
  /\ UNCHANGED trainingOwners

(* _reclaim_finished_overlap: with the last rollout gone, the plans that   *)
(* were admitted beside one are asked to stop.                             *)
ReclaimFinishedOverlap ==
  reclaims' = IF Serves(rolloutOwners', Workers) THEN reclaims
              ELSE reclaims \union (overlap \intersect PlansOn(Workers))

(* Mutant: the group stays marked as waiting.                              *)
CancelKeepingPending(r) ==
  /\ requests[r] # "none"
  /\ requests' = [requests EXCEPT ![r] = "none"]
  /\ rolloutOwners' = IF requests[r] = "owned" THEN Returned(r) ELSE rolloutOwners
  /\ events' = IF Serves(rolloutOwners', Group(r)) THEN events
               ELSE Append(events, Idle(r, TRUE))
  /\ ReclaimFinishedOverlap
  /\ UNCHANGED <<pendingGroups, trainingOwners, overlap>>

(* Mutant: an acquire completed during cancellation keeps its lease.       *)
CancelKeepingLease(r) ==
  /\ requests[r] # "none"
  /\ requests' = [requests EXCEPT ![r] = "none"]
  /\ pendingGroups' = pendingGroups \ {r}
  /\ events' = IF Serves(rolloutOwners, Group(r)) THEN events
               ELSE Append(events, Idle(r, TRUE))
  /\ UNCHANGED <<rolloutOwners, trainingOwners, overlap, reclaims>>

(* Mutant: plans that need a rollout beside them are not looked at.        *)
CancelIgnoringOverlap(r) ==
  /\ requests[r] # "none"
  /\ requests' = [requests EXCEPT ![r] = "none"]
  /\ rolloutOwners' = IF requests[r] = "owned" THEN Returned(r) ELSE rolloutOwners
  /\ pendingGroups' = pendingGroups \ {r}
  /\ events' = IF Serves(rolloutOwners', Group(r)) THEN events
               ELSE Append(events, Idle(r, TRUE))
  /\ UNCHANGED <<trainingOwners, overlap, reclaims>>

(* Cancelling a granted request returns its lease; the replica is          *)
(* announced as idle, its memory as released.                              *)
CancelRolloutWait(r) ==
  /\ requests[r] # "none"
  /\ requests' = [requests EXCEPT ![r] = "none"]
  /\ rolloutOwners' = IF requests[r] = "owned" THEN Returned(r) ELSE rolloutOwners
  /\ pendingGroups' = pendingGroups \ {r}
  /\ events' = IF Serves(rolloutOwners', Group(r)) THEN events
               ELSE Append(events, Idle(r, TRUE))
  /\ ReclaimFinishedOverlap
  /\ UNCHANGED <<trainingOwners, overlap>>

ReleaseRollout(r, verified) ==
  /\ requests' = IF requests[r] = "owned" THEN [requests EXCEPT ![r] = "none"]
                 ELSE requests
  /\ rolloutOwners' = Returned(r)
  /\ events' = IF Serves(rolloutOwners', Group(r)) THEN events
               ELSE Append(events, Idle(r, verified))
  /\ ReclaimFinishedOverlap
  /\ UNCHANGED <<trainingOwners, pendingGroups, overlap>>

-----------------------------------------------------------------------------
(* Training leases *)

Reservable(W, p) ==
  /\ Serves(rolloutOwners, Workers)
  /\ \A w \in W : /\ rolloutOwners[w] = 0
                  /\ ReplicaOf[w] \notin pendingGroups
                  /\ trainingOwners[w] \in {0, p}

ReserveTraining(W, p) ==
  /\ Reservable(W, p)
  /\ trainingOwners' = [w \in Workers |-> IF w \in W THEN p ELSE trainingOwners[w]]
  /\ overlap' = Live(overlap) \union {p}
  /\ reclaims' = Live(reclaims)
  /\ UNCHANGED <<rolloutOwners, pendingGroups, requests, events>>

RejectTraining(W, p) ==
  /\ ~Reservable(W, p)
  /\ overlap' = Live(overlap)
  /\ reclaims' = Live(reclaims)
  /\ UNCHANGED <<rolloutOwners, trainingOwners, pendingGroups, requests, events>>

(* The lease of a plan covers all workers the plan holds.                  *)
ReleaseTraining(p) ==
  /\ trainingOwners' = [w \in Workers |-> IF trainingOwners[w] = p THEN 0
                                          ELSE trainingOwners[w]]
  /\ reclaims' = reclaims \ {p}
  /\ overlap' = overlap \ {p}
  /\ UNCHANGED <<rolloutOwners, pendingGroups, requests, events>>

(* The plans that a reclaim of some workers asks to stop are added.        *)
Reclaimed(W) == reclaims \union PlansOn(W)
=============================================================================
