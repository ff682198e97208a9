----------------------- MODULE IdleTrainingProperties -----------------------
(***************************************************************************)
(* Correctness of idle training and of the lease bus.                      *)
(***************************************************************************)
EXTENDS IdleTraining

(* The devices are used as DeviceUse promises: serving, idle training and   *)
(* the update exclude each other, whatever gives up, fails or comes late.  *)
Used(w) ==
  {purpose \in {"serving", "training", "updating"} :
     \/ purpose = "serving" /\ stage[ReplicaOf[w]] = "serving"
     \/ purpose = "training" /\ work[w] \in OnDevice
     \/ purpose = "updating" /\ phase = "update"}

Use == INSTANCE DeviceUse WITH Devices <- Workers, use <- [w \in Workers |-> Used(w)]
UseSpec == Use!Spec

(* "Keep the ownership decision in this actor so a request cannot race a   *)
(* just-admitted Bubble plan": no replica serves while one of its workers  *)
(* is prepared for training, trains or cleans up.                          *)
NoOverlap ==
  \A w \in Workers : stage[ReplicaOf[w]] = "serving" => work[w] \notin OnDevice

About(r) == {i \in DOMAIN events : events[i].replica = r}

StartedLast(r) ==
  \E i \in About(r) : events[i].type = "started" /\ \A j \in About(r) : j <= i

Announced(r) ==
  IF About(r) = {} THEN \A w \in Group(r) : view[w] # "idle" ELSE StartedLast(r)

Busy(r) == r \in pendingGroups \/ Serves(rolloutOwners, Group(r))

(* A replica that serves, or waits to, is not offered to training: the     *)
(* last news of it says so, however late or often it is drained.           *)
BusyIsAnnounced == \A r \in Replicas : Busy(r) => Announced(r)

(* "A cancelled waiter must not retain generation priority forever": every *)
(* lease and every wait on the bus belongs to a request, or to a call that *)
(* is about to give it back; every training lease to the driver's plan.    *)
NothingLeaks ==
  /\ \A r \in Replicas :
       r \in pendingGroups => stage[r] = "acquiring" \/ late[r] \in {"acquire", "cancel"}
  /\ \A w \in Workers :
       rolloutOwners[w] > 0 => \/ stage[ReplicaOf[w]] \in {"granted", "serving", "releasing"}
                               \/ late[ReplicaOf[w]] \in {"cancel", "release"}
  /\ \A w \in Workers : trainingOwners[w] \in {0, leased}
  /\ leased # 0 => /\ leased = plan
                   /\ status \in {"submitted", "running"} \/ loop = "abort"

(* A plan is admitted only beside a rollout, and is asked to stop when the *)
(* last one ends, however it ends.                                         *)
OverlapReclaimed ==
  ~Serves(rolloutOwners, Workers) => overlap \subseteq reclaims

(* A replica that waits, waits only for plans that were asked to stop.     *)
WaitersReclaim == \A r \in pendingGroups : PlansOn(Group(r)) \subseteq reclaims

(* "This accounts quota exactly once": until an error is kept, every       *)
(* optimizer step of every worker is accounted, or is one of the running   *)
(* plan.                                                                   *)
StepsAccounted ==
  ~fatal /\ phase # "dead" =>
    \A w \in Team :
      total[w] = accounted + IF status = "running" THEN steps[w] ELSE 0

(* "Do not let Bubble work leak into old_log_prob, ref, or update_actor":  *)
(* during the update no worker trains, and nothing is left of a plan.      *)
NothingInUpdate ==
  phase = "update" =>
    /\ \A w \in Workers : work[w] = "none" /\ trainingOwners[w] = 0
    /\ reclaims = {} /\ overlap = {} /\ leased = 0

(* A reclaim stops the plan it was meant for: one that arrives late does   *)
(* not stop the next plan.                                                 *)
ReclaimIsOfThisPlan ==
  \A w \in Workers : flag[w] /\ work[w] \in Training => plan \in reclaims

(* A request that waits for training to give way gets its lease, or gives  *)
(* up.                                                                     *)
WaiterServed ==
  \A r \in Replicas : stage[r] = "acquiring" ~> stage[r] # "acquiring"

(* When the rollout has returned, training ends and the update starts, or  *)
(* the job fails.                                                          *)
BoundaryReached == phase = "closing" ~> phase \in {"update", "dead"}

-----------------------------------------------------------------------------
(* The argument for the safety properties: what follows is inductive.      *)

Serving == {"granted", "serving", "releasing"}

ServedIsActive == \A r \in Replicas : stage[r] = "serving" => active[r] > 0

PlanIsNumbered == loop # "idle" \/ status = "running" => plan # 0

(* The bus and the servers agree on who holds and awaits rollout leases.   *)
RolloutLeases ==
  \A r \in Replicas :
    /\ \A w \in Group(r) : rolloutOwners[w] = IF requests[r] = "owned" THEN 1 ELSE 0
    /\ r \in pendingGroups <=> requests[r] = "waiting"
    /\ stage[r] \in Serving => requests[r] = "owned" /\ late[r] = "none"
    /\ requests[r] = "owned" => stage[r] \in Serving \/ late[r] \in {"cancel", "release"}
    /\ requests[r] = "waiting" => stage[r] = "acquiring" \/ late[r] \in {"acquire", "cancel"}
    /\ late[r] = "release" => requests[r] = "owned"

(* Where the launch and the plan are, by turns of the event loop, the main *)
(* thread and the workers.                                                 *)
Launching == {"asked", "prepared", "unready", "declined", "raised"}
PlanPhases ==
  /\ loop = "idle" => status # "submitted"
  /\ loop = "reserve" => status \in {"idle", "failed"}
  /\ loop = "preflight" => status = "submitted"
  /\ loop = "abort" => status \in {"submitted", "failed"}
  /\ phase \in {"boundary", "update"} => loop = "idle"
  /\ phase = "update" => status # "running"
  /\ phase \in {"closing", "boundary", "update"} => \A r \in Replicas : stage[r] = "free"
  /\ \A w \in Workers :
       work[w] \in IF w \notin Team THEN {"none"}
                  ELSE IF loop = "preflight" THEN Launching
                  ELSE IF loop = "abort" THEN {"aborting", "declined", "raised"}
                  ELSE IF status = "running" THEN Training \union Answered
                  ELSE {"none"}

(* The plan holds its team from its reservation to its end, beside no      *)
(* rollout lease.                                                          *)
TrainingLeases ==
  /\ leased = IF status = "running" \/ loop \in {"preflight", "abort"} THEN plan ELSE 0
  /\ leased # 0 => status \in {"submitted", "running"} \/ loop = "abort"
  /\ \A w \in Workers :
       /\ trainingOwners[w] = IF w \in Team THEN leased ELSE 0
       /\ trainingOwners[w] # 0 => rolloutOwners[w] = 0
  /\ reclaims \union overlap \subseteq {leased} \ {0}
  /\ ~Serves(rolloutOwners, Workers) => overlap \subseteq reclaims

(* A reclaim on its way is one of an earlier plan, or of the plan that it  *)
(* was sent to.                                                            *)
ReclaimsInTime ==
  /\ \A d \in delivering :
       /\ d[2] <= plan
       /\ loop = "reserve" => d[2] # plan
       /\ leased = d[2] => d[2] \in reclaims
  /\ \A w \in Workers :
       /\ work[w] = "prepared" => ~flag[w]
       /\ flag[w] /\ work[w] \in Training => plan \in reclaims

(* Steps are counted while the plan runs.                                  *)
StepsCounted ==
  /\ status # "running" => \A w \in Workers : steps[w] = 0
  /\ StepsAccounted

LeaseInv ==
  /\ TypeOK /\ ServedIsActive /\ PlanIsNumbered
  /\ RolloutLeases /\ PlanPhases /\ TrainingLeases /\ ReclaimsInTime
  /\ StepsCounted

(* An optimizer step is a collective: the team enters and leaves it        *)
(* together.                                                               *)
StepTogether == \A v, w \in Team : work[v] = "stepping" => work[w] = "stepping"

(* A plan that runs can go on: nobody is left at the agreement or in the   *)
(* optimizer step to wait for a worker that never comes.  Either the team  *)
(* is there in full, or some worker is on its way out, or one that waits   *)
(* can notice that another has left.                                       *)
NeverHangs ==
  status = "running" =>
    \/ AllAnswered
    \/ \A w \in Team : work[w] = "control"
    \/ \A w \in Team : work[w] = "stepping"
    \/ \E w \in Team : work[w] \in {"cleanup", "broken"}
    \/ \E v, w \in Team : work[v] = "control" /\ work[w] \in Answered
=============================================================================
