---------------------------- MODULE IdleTraining ----------------------------
(***************************************************************************)
(* Training of the drafter on rollout workers that are idle while other    *)
(* replicas still generate.  Three parties share the devices through the   *)
(* lease bus:                                                              *)
(*   - the server of each replica, which holds a rollout lease from its    *)
(*     first request to its last;                                          *)
(*   - the driver, whose event loop follows the bus, launches one plan at  *)
(*     a time during the rollout and takes it back before the update;      *)
(*   - the workers of the training group, which agree before each          *)
(*     optimizer step whether to go on.                                    *)
(*                                                                         *)
(* Calls of one server reach the bus in order.  A failed optimizer step or *)
(* a failed park raises in the driver; calls to the bus do not fail.       *)
(***************************************************************************)
EXTENDS LeaseBus

CONSTANTS
  Team,           \* the collective training group
  MaxBatches,     \* max_batches of every plan
  MaxActive,      \* bound: requests served together by one replica
  MaxRequests,    \* bound: requests in all
  MaxRollouts,    \* bound: rollouts
  Faults          \* what may fail: "request", "preflight", "step", "park", "join"

ASSUME TeamAssumption == Team \subseteq Workers /\ Team # {}
ASSUME BatchesAssumption == MaxBatches \in Nat \ {0}
ASSUME LimitsAssumption == {MaxActive, MaxRequests, MaxRollouts} \subseteq Nat
ASSUME FaultsAssumption ==
  Faults \subseteq {"request", "preflight", "step", "park", "join"}

VARIABLES
  stage,      \* what the lease lock of each server is doing
  active,     \* _speco_rollout_active_requests
  verified,   \* _speco_rollout_release_verified of the latest serving
  late,       \* call of an interrupted request that has yet to reach the bus
  left,       \* requests still to come
  phase,      \* phase of the main thread
  rollouts,   \* rollouts so far
  loop,       \* where the event loop is in a launch
  plan,       \* the latest plan
  status,     \* status of the runtime state
  leased,     \* plan of _speco_rollout_training_lease, 0 for none
  reclaimSent,\* _speco_runtime_reclaim_requested_plan_id
  view,       \* scheduler's status of each worker
  released,   \* workers the scheduler believes to have released their memory
  fatal,      \* _speco_idle_completion_error
  accounted,  \* optimizer steps accounted by the scheduler
  work,       \* what each worker does for the drafter
  flag,       \* _drafter_reclaim_requested
  delivering, \* reclaims on their way from a watcher thread to its worker
  steps,      \* successful_steps of the worker's current plan
  total,      \* optimizer_steps_total
  residue     \* workers whose training memory could not be parked

serverVars == <<stage, active, verified, late, left>>
driverVars == <<phase, rollouts, loop, plan, status, leased, reclaimSent, view,
                released, fatal, accounted>>
workerVars == <<work, flag, delivering, steps, total, residue>>
vars == <<busVars, serverVars, driverVars, workerVars>>

Training == {"control", "stepping", "cleanup", "broken"}
OnDevice == {"prepared", "unready", "aborting"} \union Training
Answered == {"done", "raised"}

ServersTypeOK ==
  /\ stage \in [Replicas -> {"free", "acquiring", "granted", "serving", "releasing"}]
  /\ active \in [Replicas -> Nat]
  /\ verified \in [Replicas -> BOOLEAN]
  /\ late \in [Replicas -> {"none", "acquire", "cancel", "release"}]
  /\ left \in Nat

DriverTypeOK ==
  /\ phase \in {"rollout", "closing", "boundary", "update", "dead"}
  /\ rollouts \in Nat
  /\ loop \in {"idle", "reserve", "preflight", "abort"}
  /\ plan \in {0} \union Plans
  /\ status \in {"idle", "submitted", "running", "failed"}
  /\ leased \in {0} \union Plans
  /\ reclaimSent \in {0} \union Plans
  /\ view \in [Workers -> {"generating", "idle", "reclaiming"}]
  /\ released \subseteq Workers
  /\ fatal \in BOOLEAN
  /\ accounted \in Nat

WorkersTypeOK ==
  /\ work \in [Workers -> {"none", "asked", "declined"} \union OnDevice \union Answered]
  /\ flag \in [Workers -> BOOLEAN]
  /\ delivering \subseteq Workers \X Plans
  /\ steps \in [Workers -> Nat]
  /\ total \in [Workers -> Nat]
  /\ residue \subseteq Workers

TypeOK == BusTypeOK /\ ServersTypeOK /\ DriverTypeOK /\ WorkersTypeOK

Init ==
  /\ BusInit
  /\ stage = [r \in Replicas |-> "free"]
  /\ active = [r \in Replicas |-> 0]
  /\ verified = [r \in Replicas |-> TRUE]
  /\ late = [r \in Replicas |-> "none"]
  /\ left = MaxRequests
  /\ phase = "rollout" /\ rollouts = 1
  /\ loop = "idle" /\ plan = 0 /\ status = "idle"
  /\ leased = 0 /\ reclaimSent = 0
  /\ view = [w \in Workers |-> "generating"]
  /\ released = {}
  /\ fatal = FALSE /\ accounted = 0
  /\ work = [w \in Workers |-> "none"]
  /\ flag = [w \in Workers |-> FALSE]
  /\ delivering = {}
  /\ steps = [w \in Workers |-> 0]
  /\ total = [w \in Workers |-> 0]
  /\ residue = {}

-----------------------------------------------------------------------------
(* The server of a replica: generate *)

(* With nobody served yet, a request holds the lock while it acquires the  *)
(* lease; the others wait for the lock.                                    *)
Request(r) ==
  /\ phase = "rollout" /\ left > 0
  /\ stage[r] = "free"
  /\ stage' = [stage EXCEPT ![r] = "acquiring"]
  /\ left' = left - 1
  /\ UNCHANGED <<busVars, active, verified, late, driverVars, workerVars>>

Join(r) ==
  /\ phase = "rollout" /\ left > 0
  /\ stage[r] = "serving" /\ active[r] < MaxActive
  /\ active' = [active EXCEPT ![r] = @ + 1]
  /\ left' = left - 1
  /\ UNCHANGED <<busVars, stage, verified, late, driverVars, workerVars>>

(* acquire_rollout_resource_lease asks again until the lease is granted.   *)
Blocked(r) ==
  /\ stage[r] = "acquiring" /\ late[r] = "none"
  /\ BlockRollout(r)
  /\ UNCHANGED <<serverVars, driverVars, workerVars>>

Granted(r) ==
  /\ stage[r] = "acquiring" /\ late[r] = "none"
  /\ GrantRollout(r)
  /\ stage' = [stage EXCEPT ![r] = "granted"]
  /\ UNCHANGED <<active, verified, late, left, driverVars, workerVars>>

Enter(r) ==
  /\ stage[r] = "granted"
  /\ stage' = [stage EXCEPT ![r] = "serving"]
  /\ active' = [active EXCEPT ![r] = 1]
  /\ verified' = [verified EXCEPT ![r] = TRUE]
  /\ UNCHANGED <<busVars, late, left, driverVars, workerVars>>

(* The wait is cancelled or times out: the request is withdrawn, after the *)
(* acquire that may be under way.  The server does not wait long for it.   *)
GiveUp(r) ==
  /\ late[r] = "none"
  /\ \/ /\ stage[r] = "acquiring"
        /\ late' \in {[late EXCEPT ![r] = call] : call \in {"acquire", "cancel"}}
     \/ /\ stage[r] = "granted"
        /\ late' = [late EXCEPT ![r] = "cancel"]
  /\ stage' = [stage EXCEPT ![r] = "free"]
  /\ UNCHANGED <<busVars, active, verified, left, driverVars, workerVars>>

(* One request that fails leaves the release of its serving unverified.    *)
Finish(r) ==
  /\ stage[r] = "serving"
  /\ \E ok \in {TRUE} \union {~f : f \in {"request" \in Faults}} :
       verified' = [verified EXCEPT ![r] = @ /\ ok]
  /\ active' = [active EXCEPT ![r] = @ - 1]
  /\ stage' = IF active[r] = 1 THEN [stage EXCEPT ![r] = "releasing"] ELSE stage
  /\ UNCHANGED <<busVars, late, left, driverVars, workerVars>>

Released(r) ==
  /\ stage[r] = "releasing"
  /\ ReleaseRollout(r, verified[r])
  /\ stage' = [stage EXCEPT ![r] = "free"]
  /\ UNCHANGED <<active, verified, late, left, driverVars, workerVars>>

(* The last request is cancelled while it releases.                        *)
Interrupt(r) ==
  /\ stage[r] = "releasing"
  /\ stage' = [stage EXCEPT ![r] = "free"]
  /\ late' = [late EXCEPT ![r] = "release"]
  /\ UNCHANGED <<busVars, active, verified, left, driverVars, workerVars>>

LateCall(r) ==
  /\ \/ /\ late[r] = "acquire"
        /\ BlockRollout(r) \/ GrantRollout(r)
        /\ late' = [late EXCEPT ![r] = "cancel"]
     \/ /\ late[r] = "cancel" /\ requests[r] # "none"
        /\ CancelRolloutWait(r)
        /\ late' = [late EXCEPT ![r] = "none"]
     \/ /\ late[r] = "cancel" /\ requests[r] = "none"
        /\ late' = [late EXCEPT ![r] = "none"]
        /\ UNCHANGED busVars
     \/ /\ late[r] = "release"
        /\ ReleaseRollout(r, verified[r])
        /\ late' = [late EXCEPT ![r] = "none"]
  /\ UNCHANGED <<stage, active, verified, left, driverVars, workerVars>>

-----------------------------------------------------------------------------
(* The event loop of the driver.  It stops at the first failed completion. *)

Serviced == loop = "idle" /\ phase \in {"rollout", "closing"} /\ ~fatal

Reclaiming == [w \in Workers |-> IF w \in Team THEN "reclaiming" ELSE view[w]]
Seen(r, status_of) ==
  [w \in Workers |-> IF w \in Group(r) THEN status_of ELSE view[w]]

(* A replica of the running plan that starts, or waits to, has the plan    *)
(* reclaimed, once per plan.                                               *)
ObserveStarted ==
  /\ Serviced /\ events # <<>> /\ Head(events).type = "started"
  /\ LET r == Head(events).replica IN
       /\ released' = released \ Group(r)
       /\ IF status = "running" /\ Group(r) \intersect Team # {} /\ reclaimSent # plan
          THEN /\ view' = [w \in Workers |-> IF w \in Team THEN "reclaiming"
                                             ELSE Seen(r, "generating")[w]]
               /\ reclaims' = Reclaimed(Team)
               /\ reclaimSent' = plan
          ELSE /\ view' = Seen(r, "generating")
               /\ UNCHANGED <<reclaims, reclaimSent>>
  /\ events' = Tail(events)
  /\ UNCHANGED <<rolloutOwners, trainingOwners, pendingGroups, requests, overlap,
                 serverVars, phase, rollouts, loop, plan, status, leased, fatal,
                 accounted, workerVars>>

ObserveIdle ==
  /\ Serviced /\ events # <<>> /\ Head(events).type = "idle"
  /\ LET r == Head(events).replica IN
       /\ view' = Seen(r, "idle")
       /\ released' = IF Head(events).released THEN released \union Group(r)
                      ELSE released \ Group(r)
  /\ events' = Tail(events)
  /\ UNCHANGED <<rolloutOwners, trainingOwners, pendingGroups, requests, reclaims,
                 overlap, serverVars, phase, rollouts, loop, plan, status, leased,
                 reclaimSent, fatal, accounted, workerVars>>

Available(w) == view[w] = "idle" /\ w \in released

(* The scheduler may launch a plan when the whole group is idle and some   *)
(* replica is not.                                                         *)
Launch ==
  /\ Serviced /\ phase = "rollout"
  /\ status \in {"idle", "failed"} /\ plan < MaxPlans
  /\ \A w \in Team : Available(w)
  /\ \E w \in Workers : ~Available(w)
  /\ plan' = plan + 1
  /\ loop' = "reserve"
  /\ UNCHANGED <<busVars, serverVars, phase, rollouts, status, leased, reclaimSent,
                 view, released, fatal, accounted, workerVars>>

Reserve ==
  /\ loop = "reserve" /\ phase = "rollout"
  /\ ReserveTraining(Team, plan)
  /\ leased' = plan /\ reclaimSent' = 0
  /\ status' = "submitted"
  /\ loop' = "preflight"
  /\ work' = [w \in Workers |-> IF w \in Team THEN "asked" ELSE work[w]]
  /\ UNCHANGED <<serverVars, phase, rollouts, plan, view, released, fatal, accounted,
                 flag, delivering, steps, total, residue>>

(* The rollout has taken the devices back, or has returned.                *)
NotReserved ==
  /\ loop = "reserve"
  /\ \/ phase = "rollout" /\ RejectTraining(Team, plan)
     \/ phase # "rollout" /\ UNCHANGED busVars
  /\ loop' = "idle"
  /\ UNCHANGED <<serverVars, phase, rollouts, plan, status, leased, reclaimSent, view,
                 released, fatal, accounted, workerVars>>

(* The results of a plan are read.                                         *)
Rested ==
  /\ work' = [w \in Workers |-> IF w \in Team THEN "none" ELSE work[w]]
  /\ steps' = [w \in Workers |-> 0]

Submit ==
  /\ loop = "preflight"
  /\ \A w \in Team : work[w] = "prepared"
  /\ work' = [w \in Workers |-> IF w \in Team THEN "control" ELSE work[w]]
  /\ status' = "running"
  /\ loop' = "idle"
  /\ UNCHANGED <<busVars, serverVars, phase, rollouts, plan, leased, reclaimSent, view,
                 released, fatal, accounted, flag, delivering, steps, total, residue>>

LeftPrepared(w) ==
  \/ work[w] \in {"prepared", "unready"}
  \/ work[w] = "raised" /\ w \in residue

(* An abort reaches a worker after its preflight, and cleans up what is    *)
(* marked as prepared.                                                     *)
Abort ==
  /\ loop = "preflight"
  /\ \A w \in Team : work[w] # "asked"
  /\ \E w \in Team : work[w] # "prepared"
  /\ work' = [w \in Workers |-> IF w \notin Team THEN work[w]
                                ELSE IF LeftPrepared(w) THEN "aborting" ELSE "declined"]
  /\ status' = IF \E w \in Team : work[w] = "raised" THEN "failed" ELSE status
  /\ loop' = "abort"
  /\ UNCHANGED <<busVars, serverVars, phase, rollouts, plan, leased, reclaimSent, view,
                 released, fatal, accounted, flag, delivering, steps, total, residue>>

(* Mutant: a failed launch keeps its lease.                                *)
AbortedKeepingLease ==
  /\ loop = "abort"
  /\ \A w \in Team : work[w] # "aborting"
  /\ IF status = "failed" \/ \E w \in Team : work[w] = "raised"
     THEN status' = "failed" /\ UNCHANGED <<busVars, leased>>
     ELSE status' = "idle" /\ ReleaseTraining(plan) /\ leased' = 0
  /\ Rested
  /\ loop' = "idle"
  /\ UNCHANGED <<serverVars, phase, rollouts, plan, reclaimSent, view, released, fatal,
                 accounted, flag, delivering, total, residue>>

(* What a worker raised, in its preflight or its abort, ends the launch:   *)
(* the lease is returned and the event loop goes on.                       *)
Aborted ==
  /\ loop = "abort"
  /\ \A w \in Team : work[w] # "aborting"
  /\ ReleaseTraining(plan)
  /\ leased' = 0
  /\ status' = IF status = "failed" \/ \E w \in Team : work[w] = "raised" THEN "failed"
               ELSE "idle"
  /\ Rested
  /\ loop' = "idle"
  /\ UNCHANGED <<serverVars, phase, rollouts, plan, reclaimSent, view, released, fatal,
                 accounted, flag, delivering, total, residue>>

-----------------------------------------------------------------------------
(* The end of a plan *)

(* Mutant: a worker that raised is waited for.                             *)
AllDone == status = "running" /\ \A w \in Team : work[w] = "done"

AllAnswered == status = "running" /\ \A w \in Team : work[w] \in Answered

(* Mutant: the steps of the workers are not compared.                      *)
ConsistentAnswers == \A w \in Team : work[w] = "done"

Consistent  == /\ \A w \in Team : work[w] = "done"
               /\ \A v, w \in Team : steps[v] = steps[w]
Successful  == CHOOSE n \in {steps[w] : w \in Team} : \A w \in Team : n >= steps[w]

(* Results that agree are accounted once.  Others that advanced a worker,  *)
(* or a worker that raised, are kept as the error of the next boundary;    *)
(* the lease is returned either way.                                       *)
Complete ==
  /\ Serviced /\ AllAnswered
  /\ ReleaseTraining(plan)
  /\ leased' = 0
  /\ Rested
  /\ IF \E w \in Team : work[w] = "raised"
     THEN status' = "failed" /\ fatal' = TRUE /\ UNCHANGED accounted
     ELSE /\ status' = "idle"
          /\ IF Consistent THEN accounted' = accounted + Successful /\ UNCHANGED fatal
             ELSE fatal' = TRUE /\ UNCHANGED accounted
  /\ UNCHANGED <<serverVars, phase, rollouts, loop, plan, reclaimSent, view, released,
                 flag, delivering, total, residue>>

-----------------------------------------------------------------------------
(* The main thread *)

(* generate_sequences returns when every request has.                      *)
EndRollout ==
  /\ phase = "rollout"
  /\ \A r \in Replicas : stage[r] = "free"
  /\ phase' = "closing"
  /\ UNCHANGED <<busVars, serverVars, rollouts, loop, plan, status, leased, reclaimSent,
                 view, released, fatal, accounted, workerVars>>

(* The event loop is joined and its events are drained; then a plan that   *)
(* is left is reclaimed.  A worker that is not training ignores that.      *)
Boundary ==
  /\ phase = "closing" /\ loop = "idle"
  /\ ~fatal /\ events = <<>>
  /\ phase' = "boundary"
  /\ IF status \in {"running", "failed"}
     THEN reclaims' = Reclaimed(Team) /\ view' = Reclaiming
     ELSE UNCHANGED <<reclaims, view>>
  /\ UNCHANGED <<rolloutOwners, trainingOwners, pendingGroups, requests, overlap, events,
                 serverVars, rollouts, loop, plan, status, leased, reclaimSent, released,
                 fatal, accounted, workerVars>>

(* Mutant: the lease is left to expire.                                    *)
WaitKeepingLease ==
  /\ phase = "boundary" /\ AllAnswered /\ Consistent
  /\ Rested
  /\ status' = "idle"
  /\ accounted' = accounted + Successful
  /\ UNCHANGED <<busVars, serverVars, leased, phase, rollouts, loop, plan, reclaimSent,
                 view, released, fatal, flag, delivering, total, residue>>

(* _speco_wait_pending_drafter_training: the lease is returned only when   *)
(* nothing was raised.                                                     *)
Wait ==
  /\ phase = "boundary" /\ AllAnswered /\ Consistent
  /\ ReleaseTraining(plan)
  /\ leased' = 0
  /\ Rested
  /\ status' = "idle"
  /\ accounted' = accounted + Successful
  /\ UNCHANGED <<serverVars, phase, rollouts, loop, plan, reclaimSent, view, released,
                 fatal, flag, delivering, total, residue>>

(* The job fails: an error is kept, the wait raises, a park raises, or the *)
(* event loop does not end in time.                                        *)
Die ==
  /\ \/ phase = "closing" /\ loop = "idle" /\ fatal
     \/ phase = "boundary" /\ AllAnswered /\ ~Consistent
     \/ phase = "boundary" /\ status # "running" /\ "park" \in Faults
     \/ phase = "closing" /\ loop # "idle" /\ "join" \in Faults
  /\ phase' = "dead"
  /\ UNCHANGED <<busVars, serverVars, rollouts, loop, plan, status, leased, reclaimSent,
                 view, released, fatal, accounted, workerVars>>

(* Mutant: the plan that was reclaimed is not waited for.                  *)
UpdateAtOnce ==
  /\ phase = "boundary"
  /\ phase' = "update"
  /\ residue' = {}
  /\ UNCHANGED <<busVars, serverVars, rollouts, loop, plan, status, leased, reclaimSent,
                 view, released, fatal, accounted, work, flag, delivering, steps, total>>

(* What training memory is left on the workers is parked first.            *)
Update ==
  /\ phase = "boundary" /\ status # "running"
  /\ phase' = "update"
  /\ residue' = {}
  /\ UNCHANGED <<busVars, serverVars, rollouts, loop, plan, status, leased, reclaimSent,
                 view, released, fatal, accounted, work, flag, delivering, steps, total>>

NextRollout ==
  /\ phase = "update" /\ rollouts < MaxRollouts
  /\ phase' = "rollout"
  /\ rollouts' = rollouts + 1
  /\ view' = [w \in Workers |-> "generating"]
  /\ released' = {}
  /\ UNCHANGED <<busVars, serverVars, loop, plan, status, leased, reclaimSent, fatal,
                 accounted, workerVars>>

-----------------------------------------------------------------------------
(* A worker: preflight and abort *)

Stays == UNCHANGED <<busVars, serverVars, driverVars>>

Prepare(w) ==
  /\ work[w] = "asked"
  /\ work' = [work EXCEPT ![w] = "prepared"]
  /\ flag' = [flag EXCEPT ![w] = FALSE]
  /\ Stays /\ UNCHANGED <<delivering, steps, total, residue>>

(* The plan is stale or has expired.                                       *)
Decline(w) ==
  /\ work[w] = "asked"
  /\ work' = [work EXCEPT ![w] = "declined"]
  /\ Stays /\ UNCHANGED <<flag, delivering, steps, total, residue>>

(* The activation fails or takes too long.  Out of an activation that took *)
(* too long the memory is parked, which may fail.                          *)
NotReady(w) ==
  /\ work[w] = "asked" /\ "preflight" \in Faults
  /\ work' = [work EXCEPT ![w] = "unready"]
  /\ flag' = [flag EXCEPT ![w] = FALSE]
  /\ Stays /\ UNCHANGED <<delivering, steps, total, residue>>

PreflightRaises(w) ==
  /\ work[w] = "asked"
  /\ \/ "preflight" \in Faults /\ UNCHANGED <<flag, residue>>
     \/ /\ "park" \in Faults
        /\ flag' = [flag EXCEPT ![w] = FALSE]
        /\ residue' = residue \union {w}
  /\ work' = [work EXCEPT ![w] = "raised"]
  /\ Stays /\ UNCHANGED <<delivering, steps, total>>

(* abort_drafter_training_preflight                                        *)
AbortPreflight(w) ==
  /\ work[w] = "aborting"
  /\ \/ /\ work' = [work EXCEPT ![w] = "declined"]
        /\ residue' = residue \ {w}
     \/ /\ "park" \in Faults
        /\ work' = [work EXCEPT ![w] = "raised"]
        /\ residue' = residue \union {w}
  /\ Stays /\ UNCHANGED <<flag, delivering, steps, total>>

-----------------------------------------------------------------------------
(* A worker: train_drafter *)

(* TrainingReclaimWatcher: a thread of its own asks the bus, and calls     *)
(* _receive_drafter_reclaim, perhaps when its plan is over.                *)
Watch(w) ==
  /\ work[w] \in Training /\ ~flag[w]
  /\ trainingOwners[w] = plan /\ plan \in reclaims
  /\ delivering' = delivering \union {<<w, plan>>}
  /\ Stays /\ UNCHANGED <<work, flag, steps, total, residue>>

(* Mutant: whichever plan runs when the reclaim arrives is stopped.        *)
ReceiveByAnyPlan(w) ==
  \E p \in Plans :
    /\ <<w, p>> \in delivering
    /\ delivering' = delivering \ {<<w, p>>}
    /\ flag' = IF work[w] \in Training THEN [flag EXCEPT ![w] = TRUE] ELSE flag
    /\ Stays /\ UNCHANGED <<work, steps, total, residue>>

Receive(w) ==
  \E p \in Plans :
    /\ <<w, p>> \in delivering
    /\ delivering' = delivering \ {<<w, p>>}
    /\ flag' = IF work[w] \in Training /\ p = plan THEN [flag EXCEPT ![w] = TRUE]
               ELSE flag
    /\ Stays /\ UNCHANGED <<work, steps, total, residue>>

(* _bubble_optimizer_stop_reason: the group stops when one of it wants to, *)
(* or when the deadline is too close for a batch.                          *)
Agree ==
  /\ \A w \in Team : work[w] = "control"
  /\ \E expired \in BOOLEAN :
       LET stop == expired \/ \E w \in Team : flag[w]
       IN  work' = [w \in Workers |-> IF w \in Team
                                      THEN IF stop THEN "cleanup" ELSE "stepping"
                                      ELSE work[w]]
  /\ Stays /\ UNCHANGED <<flag, delivering, steps, total, residue>>

(* Where the step fails the loop ends; the others notice when they next    *)
(* need the group, unless this was their last batch.                       *)
Step ==
  /\ \A w \in Team : work[w] = "stepping"
  /\ \E failed \in IF "step" \in Faults THEN SUBSET Team ELSE {{}} :
       LET Advances(w) == w \in Team \ failed IN
         /\ steps' = [w \in Workers |-> IF Advances(w) THEN steps[w] + 1 ELSE steps[w]]
         /\ total' = [w \in Workers |-> IF Advances(w) THEN total[w] + 1 ELSE total[w]]
         /\ work' = [w \in Workers |->
              IF w \notin Team THEN work[w]
              ELSE IF Advances(w) /\ steps[w] + 1 < MaxBatches THEN "control"
              ELSE "cleanup"]
  /\ Stays /\ UNCHANGED <<flag, delivering, residue>>

(* CollectiveTimeout: the agreement waits for a worker that has left.      *)
LoseGroup(w) ==
  /\ work[w] = "control"
  /\ \E v \in Team : work[v] \in {"cleanup", "broken"} \union Answered
  /\ work' = [work EXCEPT ![w] = "broken"]
  /\ Stays /\ UNCHANGED <<flag, delivering, steps, total, residue>>

(* A worker that has advanced keeps its training memory for the next plan; *)
(* another parks it.                                                       *)
CleanUp(w) ==
  /\ work[w] \in {"cleanup", "broken"}
  /\ \/ /\ work' = [work EXCEPT ![w] = IF @ = "broken" THEN "raised" ELSE "done"]
        /\ residue' = IF steps[w] = 0 THEN residue \ {w} ELSE residue
     \/ /\ "park" \in Faults /\ steps[w] = 0
        /\ work' = [work EXCEPT ![w] = "raised"]
        /\ residue' = residue \union {w}
  /\ Stays /\ UNCHANGED <<flag, delivering, steps, total>>

-----------------------------------------------------------------------------
(* What runs on by itself, thread by thread, and what is left to chance:   *)
(* requests come, give up and are interrupted, plans start, and the        *)
(* rollout and the update end, or not.                                     *)

Serve(r) ==
  \/ Blocked(r) \/ Granted(r) \/ Enter(r) \/ Finish(r) \/ Released(r) \/ LateCall(r)

EventLoop ==
  \/ ObserveStarted \/ ObserveIdle \/ Complete
  \/ Reserve \/ NotReserved \/ Submit \/ Abort \/ Aborted

MainThread == Boundary \/ Wait \/ Die \/ Update

Answer(w) ==
  \/ Prepare(w) \/ Decline(w) \/ NotReady(w) \/ PreflightRaises(w) \/ AbortPreflight(w)
  \/ LoseGroup(w) \/ CleanUp(w)

WatcherThread(w) == Watch(w) \/ Receive(w)

Optimize == Agree \/ Step

Next ==
  \/ \E r \in Replicas : Serve(r) \/ Request(r) \/ Join(r) \/ GiveUp(r) \/ Interrupt(r)
  \/ EventLoop \/ Launch
  \/ MainThread \/ EndRollout \/ NextRollout
  \/ \E w \in Workers : Answer(w) \/ WatcherThread(w)
  \/ Optimize

Spec == Init /\ [][Next]_vars

Fairness ==
  /\ \A r \in Replicas : WF_vars(Serve(r))
  /\ WF_vars(EventLoop) /\ WF_vars(MainThread)
  /\ \A w \in Team : WF_vars(Answer(w)) /\ WF_vars(WatcherThread(w))
  /\ WF_vars(Optimize)

FairSpec == Spec /\ Fairness
=============================================================================
