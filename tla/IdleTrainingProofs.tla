-------------------------- MODULE IdleTrainingProofs --------------------------
(***************************************************************************)
(* Proofs about idle training and the lease bus, for every group of        *)
(* workers, every plan and every fault.                                    *)
(***************************************************************************)
EXTENDS IdleTrainingProperties, SequenceTheorems, TLAPS

-----------------------------------------------------------------------------
(* Types *)

(* Every variable of idle training keeps its type.                         *)
LEMMA TypeInit == Init => TypeOK
<1>. SUFFICES ASSUME Init PROVE TypeOK
  OBVIOUS
<1>1. BusTypeOK
  BY EmptySeq, SMT DEF Init, BusInit, BusTypeOK
<1>2. ServersTypeOK
  BY LimitsAssumption, SMT DEF Init, ServersTypeOK
<1>3. DriverTypeOK
  <2>1. fatal \in BOOLEAN
    BY Zenon DEF Init
  <2>. QED BY <2>1, SMT DEF Init, DriverTypeOK
<1>4. WorkersTypeOK
  BY SMT DEF Init, WorkersTypeOK
<1>. QED BY <1>1, <1>2, <1>3, <1>4 DEF TypeOK

(* Each call of a rollout keeps the types of the bus.                      *)
LEMMA RolloutCallTypes ==
  ASSUME BusTypeOK, NEW r \in Replicas, NEW verify \in BOOLEAN,
         \/ BlockRollout(r) \/ GrantRollout(r) \/ CancelRolloutWait(r)
         \/ ReleaseRollout(r, verify)
  PROVE  BusTypeOK'
<1>1. PlansOn(Group(r)) \subseteq Plans /\ PlansOn(Workers) \subseteq Plans
  BY SMT DEF BusTypeOK, PlansOn, Group
<1>2. Shared(r) \in [Workers -> Nat] /\ Returned(r) \in [Workers -> Nat]
  BY SMT DEF BusTypeOK, Shared, Returned
<1>3. Started(r) \in Event /\ Idle(r, TRUE) \in Event /\ Idle(r, verify) \in Event
  BY SMT DEF Started, Idle, Event
<1>4. \A e \in Event : Append(events, e) \in Seq(Event)
  BY AppendProperties DEF BusTypeOK
<1>. USE DEF BusTypeOK, Live
<1>5. CASE BlockRollout(r)
  BY <1>5, <1>1, <1>3, <1>4, SMT DEF BlockRollout
<1>6. CASE GrantRollout(r)
  BY <1>6, <1>1, <1>2, <1>3, <1>4, SMT DEF GrantRollout
<1>7. CASE CancelRolloutWait(r)
  <2>1. rolloutOwners' \in [Workers -> Nat]
    BY <1>7, <1>2, Zenon DEF CancelRolloutWait
  <2>2. events' \in Seq(Event)
    BY <1>7, <1>3, <1>4, Zenon DEF CancelRolloutWait
  <2>3. /\ requests' = [requests EXCEPT ![r] = "none"]
        /\ pendingGroups' = pendingGroups \ {r}
        /\ ReclaimFinishedOverlap
        /\ UNCHANGED <<trainingOwners, overlap>>
    BY <1>7, Zenon DEF CancelRolloutWait
  <2>. QED BY <1>1, <2>1, <2>2, <2>3, SMT DEF ReclaimFinishedOverlap
<1>8. CASE ReleaseRollout(r, verify)
  BY <1>8, <1>1, <1>2, <1>3, <1>4, SMT DEF ReleaseRollout, ReclaimFinishedOverlap
<1>. QED BY <1>5, <1>6, <1>7, <1>8

(* Each call for training keeps the types of the bus.                      *)
LEMMA TrainingCallTypes ==
  ASSUME BusTypeOK, NEW p \in {0} \union Plans, NEW W \in SUBSET Workers,
         \/ p # 0 /\ ReserveTraining(W, p)
         \/ RejectTraining(W, p) \/ ReleaseTraining(p)
  PROVE  BusTypeOK'
<1>. USE DEF BusTypeOK, Live
<1>1. CASE p # 0 /\ ReserveTraining(W, p)
  BY <1>1, SMT DEF ReserveTraining
<1>2. CASE RejectTraining(W, p)
  BY <1>2, SMT DEF RejectTraining
<1>3. CASE ReleaseTraining(p)
  BY <1>3, SMT DEF ReleaseTraining
<1>. QED BY <1>1, <1>2, <1>3

(* Which part of the state each party changes.                              *)
LEMMA PartsChanged ==
  ASSUME Next
  PROVE  /\ EventLoop \/ Launch => UNCHANGED <<serverVars, flag, delivering, total, residue>>
         /\ MainThread \/ EndRollout \/ NextRollout => UNCHANGED serverVars
         /\ Optimize => UNCHANGED <<busVars, serverVars, driverVars>>
         /\ \A w \in Workers : Answer(w) \/ WatcherThread(w) =>
               UNCHANGED <<busVars, serverVars, driverVars>>
         /\ \A r \in Replicas : Serve(r) \/ Request(r) \/ Join(r) \/ GiveUp(r) \/ Interrupt(r)
               => UNCHANGED <<driverVars, workerVars>>
<1>1. EventLoop \/ Launch => UNCHANGED <<serverVars, flag, delivering, total, residue>>
  BY Zenon DEF EventLoop, Launch, ObserveStarted, ObserveIdle, Complete, Reserve,
     NotReserved, Submit, Abort, Aborted, workerVars
<1>2. MainThread \/ EndRollout \/ NextRollout => UNCHANGED serverVars
  BY Zenon DEF MainThread, EndRollout, NextRollout, Boundary, Wait, Die, Update
<1>3. Optimize => UNCHANGED <<busVars, serverVars, driverVars>>
  BY Zenon DEF Optimize, Agree, Step, Stays
<1>4. \A w \in Workers : Answer(w) \/ WatcherThread(w) =>
        UNCHANGED <<busVars, serverVars, driverVars>>
  BY Zenon DEF Answer, Prepare, Decline, NotReady, PreflightRaises, AbortPreflight,
     LoseGroup, CleanUp, WatcherThread, Watch, Receive, Stays
<1>5. \A r \in Replicas : Serve(r) \/ Request(r) \/ Join(r) \/ GiveUp(r) \/ Interrupt(r)
        => UNCHANGED <<driverVars, workerVars>>
  BY Zenon DEF Serve, Request, Join, GiveUp, Interrupt, Blocked, Granted, Enter, Finish,
     Released, LateCall
<1>. QED BY <1>1, <1>2, <1>3, <1>4, <1>5

(* A server that serves counts its requests.                               *)
LEMMA ServersTypes ==
  ASSUME TypeOK, ServedIsActive, [Next]_vars
  PROVE  ServersTypeOK' /\ ServedIsActive'
<1>. USE DEF TypeOK, ServersTypeOK, ServedIsActive
<1>1. CASE UNCHANGED serverVars
  BY <1>1, SMT DEF serverVars
<1>2. CASE UNCHANGED vars
  BY <1>1, <1>2 DEF vars
<1>3. ASSUME NEW r \in Replicas, Request(r) \/ Join(r)
      PROVE  ServersTypeOK' /\ ServedIsActive'
  BY <1>3, SMT DEF Request, Join
<1>4. ASSUME NEW r \in Replicas, Blocked(r) \/ Granted(r)
      PROVE  ServersTypeOK' /\ ServedIsActive'
  BY <1>4, SMT DEF Blocked, Granted, serverVars
<1>5. ASSUME NEW r \in Replicas, Enter(r)
      PROVE  ServersTypeOK' /\ ServedIsActive'
  BY <1>5, SMT DEF Enter
<1>6. ASSUME NEW r \in Replicas, GiveUp(r) \/ Interrupt(r)
      PROVE  ServersTypeOK' /\ ServedIsActive'
  BY <1>6, SMT DEF GiveUp, Interrupt
<1>7. ASSUME NEW r \in Replicas, Finish(r)
      PROVE  ServersTypeOK' /\ ServedIsActive'
  <2>1. verified' \in [Replicas -> BOOLEAN]
    BY <1>7, SMT DEF Finish
  <2>2. /\ active' \in [Replicas -> Nat]
        /\ stage' \in [Replicas -> {"free", "acquiring", "granted", "serving", "releasing"}]
        /\ ServedIsActive'
    BY <1>7, SMT DEF Finish
  <2>. QED BY <1>7, <2>1, <2>2, SMT DEF Finish
<1>8. ASSUME NEW r \in Replicas, Released(r) \/ LateCall(r)
      PROVE  ServersTypeOK' /\ ServedIsActive'
  BY <1>8, SMT DEF Released, LateCall
<1>. QED BY PartsChanged, <1>1, <1>2, <1>3, <1>4, <1>5, <1>6, <1>7, <1>8 DEF Next, Serve

(* The bus changes by its methods, by drained events and by reclaims.      *)
LEMMA BusSteps ==
  ASSUME TypeOK, PlanIsNumbered, [Next]_vars
  PROVE  BusTypeOK'
<1>. USE DEF TypeOK, DriverTypeOK
<1>1. CASE UNCHANGED busVars
  BY <1>1, SMT DEF busVars, BusTypeOK
<1>2. CASE UNCHANGED vars
  BY <1>1, <1>2 DEF vars
<1>3. ASSUME NEW r \in Replicas,
             Serve(r) \/ Request(r) \/ Join(r) \/ GiveUp(r) \/ Interrupt(r)
      PROVE  BusTypeOK'
  <2>1. verified[r] \in BOOLEAN
    BY SMT DEF ServersTypeOK
  <2>2. \/ UNCHANGED busVars
        \/ BlockRollout(r) \/ GrantRollout(r) \/ CancelRolloutWait(r)
        \/ ReleaseRollout(r, verified[r])
    BY <1>3, Zenon DEF Serve, Request, Join, GiveUp, Interrupt, Blocked, Granted, Enter,
       Finish, Released, LateCall
  <2>. QED BY <1>1, <2>1, <2>2, RolloutCallTypes, Zenon
<1>4. PlansOn(Team) \subseteq Plans
  BY TeamAssumption, SMT DEF PlansOn, BusTypeOK
<1>5. CASE ObserveStarted
  <2>1. events' \in Seq(Event)
    BY <1>5, HeadTailProperties DEF ObserveStarted, BusTypeOK
  <2>. QED BY <1>4, <1>5, <2>1, SMT DEF ObserveStarted, BusTypeOK, Reclaimed
<1>6. CASE ObserveIdle
  <2>1. events' \in Seq(Event)
    BY <1>6, HeadTailProperties DEF ObserveIdle, BusTypeOK
  <2>. QED BY <1>6, <2>1, SMT DEF ObserveIdle, BusTypeOK
<1>7. CASE \/ Complete \/ Reserve \/ NotReserved \/ Submit \/ Abort \/ Aborted
           \/ Wait \/ Die \/ Update \/ EndRollout \/ NextRollout \/ Launch
  <2>1. Reserve => plan # 0
    BY SMT DEF Reserve, PlanIsNumbered
  <2>3. \/ UNCHANGED busVars
        \/ plan # 0 /\ ReserveTraining(Team, plan)
        \/ RejectTraining(Team, plan) \/ ReleaseTraining(plan)
    BY <1>7, <2>1, Zenon DEF Complete, Reserve, NotReserved, Submit, Abort, Aborted, Wait,
       Die, Update, EndRollout, NextRollout, Launch
  <2>2. Team \in SUBSET Workers
    BY TeamAssumption
  <2>. QED BY <1>1, <2>2, <2>3, TrainingCallTypes, Zenon
<1>8. CASE Boundary
  BY <1>4, <1>8, SMT DEF Boundary, BusTypeOK, Reclaimed
<1>. QED BY PartsChanged, <1>1, <1>2, <1>3, <1>5, <1>6, <1>7, <1>8
     DEF Next, EventLoop, MainThread

(* Results that agree are all the same number of steps.                    *)
LEMMA SuccessfulAgrees ==
  ASSUME WorkersTypeOK, Consistent
  PROVE  Successful \in Nat /\ \A w \in Team : Successful = steps[w]
<1>1. PICK v \in Team : TRUE
  BY TeamAssumption
<1>2. \A w \in Team : steps[w] = steps[v] /\ steps[w] \in Nat
  BY TeamAssumption, SMT DEF Consistent, WorkersTypeOK
<1>3. {steps[w] : w \in Team} = {steps[v]}
  BY <1>2
<1>4. \A w \in Team : steps[v] >= steps[w]
  BY <1>2, SMT
<1>5. Successful \in {steps[w] : w \in Team}
  BY <1>3, <1>4, Zenon DEF Successful
<1>. QED BY <1>2, <1>3, <1>5, SMT

(* A plan is launched only while its number is a plan.                     *)
LEMMA DriverTypes ==
  ASSUME TypeOK, PlanIsNumbered, [Next]_vars
  PROVE  DriverTypeOK' /\ PlanIsNumbered'
<1>. USE DEF TypeOK, DriverTypeOK, PlanIsNumbered
<1>1. CASE UNCHANGED driverVars
  BY <1>1, SMT DEF driverVars
<1>2. CASE UNCHANGED vars
  BY <1>1, <1>2 DEF vars
<1>3. \A r \in Replicas : /\ Seen(r, "generating") \in [Workers -> {"generating", "idle", "reclaiming"}]
                          /\ Seen(r, "idle") \in [Workers -> {"generating", "idle", "reclaiming"}]
                          /\ Group(r) \subseteq Workers
  BY SMT DEF Seen, Group
<1>4. CASE ObserveStarted
  <2>1. Head(events) \in Event
    BY <1>4, HeadTailProperties DEF ObserveStarted, BusTypeOK
  <2>2. Head(events).replica \in Replicas
    BY <2>1, SMT DEF Event
  <2>3. /\ released' \subseteq Workers /\ reclaimSent' \in {0} \union Plans
        /\ view' \in [Workers -> {"generating", "idle", "reclaiming"}]
    BY <1>3, <1>4, <2>2, SMT DEF ObserveStarted
  <2>. QED BY <1>4, <2>3, Zenon DEF ObserveStarted
<1>5. CASE ObserveIdle
  <2>1. Head(events) \in Event
    BY <1>5, HeadTailProperties DEF ObserveIdle, BusTypeOK
  <2>2. Head(events).replica \in Replicas
    BY <2>1, SMT DEF Event
  <2>3. released' \subseteq Workers
    BY <1>3, <1>5, <2>2, SMT DEF ObserveIdle
  <2>4. view' \in [Workers -> {"generating", "idle", "reclaiming"}]
    BY <1>3, <1>5, <2>2, Zenon DEF ObserveIdle
  <2>. QED BY <1>5, <2>3, <2>4, Zenon DEF ObserveIdle
<1>6. CASE Launch
  BY <1>6, PlansAssumption, SMT DEF Launch, Plans
<1>7. CASE Reserve \/ NotReserved
  BY <1>7, SMT DEF Reserve, NotReserved
<1>8. CASE Submit \/ Abort \/ Aborted
  BY <1>8, SMT DEF Submit, Abort, Aborted
<1>9. Consistent => Successful \in Nat
  BY SuccessfulAgrees
<1>10. CASE Complete
  <2>1. fatal' \in BOOLEAN
    BY <1>10, Zenon DEF Complete
  <2>2. accounted' \in Nat /\ status' \in {"idle", "failed"} /\ leased' = 0
    BY <1>9, <1>10, SMT DEF Complete
  <2>. QED BY <1>10, <2>1, <2>2, Zenon DEF Complete
<1>11. CASE Boundary
  BY <1>11, SMT DEF Boundary, Reclaiming
<1>12. CASE Wait
  BY <1>9, <1>12, SMT DEF Wait
<1>13. CASE Die \/ Update \/ EndRollout
  BY <1>13, SMT DEF Die, Update, EndRollout
<1>14. CASE NextRollout
  BY <1>14, SMT DEF NextRollout
<1>. QED BY PartsChanged, <1>1, <1>2, <1>4, <1>5, <1>6, <1>7, <1>8, <1>10, <1>11, <1>12,
            <1>13, <1>14
     DEF Next, EventLoop, MainThread
(* What one optimizer step of the team does: those that do not fail        *)
(* advance.                                                                *)
LEMMA StepEffect ==
  ASSUME Step
  PROVE  /\ \A w \in Team : work[w] = "stepping"
         /\ \E failed :
              /\ steps' = [w \in Workers |-> IF w \in Team \ failed THEN steps[w] + 1 ELSE steps[w]]
              /\ total' = [w \in Workers |-> IF w \in Team \ failed THEN total[w] + 1 ELSE total[w]]
              /\ work' = [w \in Workers |->
                   IF w \notin Team THEN work[w]
                   ELSE IF w \in Team \ failed /\ steps[w] + 1 < MaxBatches THEN "control"
                   ELSE "cleanup"]
         /\ UNCHANGED <<flag, delivering, residue>>
  BY Zenon DEF Step

(* After a step every worker of the team goes on or cleans up.             *)
LEMMA StepLeaves ==
  ASSUME Step
  PROVE  /\ \A w \in Team : work[w] = "stepping"
         /\ \A w \in Workers : \/ w \in Team /\ work'[w] \in {"control", "cleanup"}
                               \/ w \notin Team /\ work'[w] = work[w]
         /\ work' = [w \in Workers |-> work'[w]]
<1>1. PICK failed \in SUBSET Team :
        work' = [w \in Workers |->
                   IF w \notin Team THEN work[w]
                   ELSE IF w \in Team \ failed /\ steps[w] + 1 < MaxBatches THEN "control"
                   ELSE "cleanup"]
  BY Zenon DEF Step
<1>2. ASSUME NEW w \in Workers
      PROVE  \/ w \in Team /\ work'[w] \in {"control", "cleanup"}
             \/ w \notin Team /\ work'[w] = work[w]
  BY <1>1, SMT
<1>3. work' = [w \in Workers |-> work'[w]]
  BY <1>1, Zenon
<1>4. \A w \in Team : work[w] = "stepping"
  BY DEF Step
<1>. QED BY <1>2, <1>3, <1>4

(* Plans and workers leave every worker in a state of its own.             *)
LEMMA WorkersTypes ==
  ASSUME TypeOK, [Next]_vars
  PROVE  WorkersTypeOK'
<1>. USE DEF TypeOK, WorkersTypeOK
<1>1. CASE UNCHANGED workerVars
  BY <1>1, SMT DEF workerVars
<1>2. CASE UNCHANGED vars
  BY <1>1, <1>2 DEF vars
<1>3. CASE ObserveStarted \/ ObserveIdle \/ NotReserved \/ Launch \/ Boundary \/ Die
           \/ EndRollout \/ NextRollout
  BY <1>1, <1>3, Zenon DEF ObserveStarted, ObserveIdle, NotReserved, Launch, Boundary, Die,
     EndRollout, NextRollout
<1>4. CASE Reserve \/ Submit \/ Abort
  BY <1>4, SMT DEF Reserve, Submit, Abort, OnDevice, Training
<1>5. CASE Aborted \/ Complete \/ Wait
  BY <1>5, SMT DEF Aborted, Complete, Wait, Rested
<1>6. CASE Update
  BY <1>6, SMT DEF Update
<1>7. ASSUME NEW w \in Workers, Prepare(w) \/ Decline(w) \/ NotReady(w)
      PROVE  WorkersTypeOK'
  <2>1. flag' = flag \/ flag' = [flag EXCEPT ![w] = FALSE]
    BY <1>7, Zenon DEF Prepare, Decline, NotReady
  <2>2. flag' \in [Workers -> BOOLEAN]
    BY <2>1, Zenon
  <2>3. \E s \in {"prepared", "declined", "unready"} : work' = [work EXCEPT ![w] = s]
    BY <1>7, Zenon DEF Prepare, Decline, NotReady
  <2>4. UNCHANGED <<delivering, steps, total, residue>>
    BY <1>7, Zenon DEF Prepare, Decline, NotReady
  <2>. QED BY <2>2, <2>3, <2>4, SMT DEF OnDevice, Training
<1>8. ASSUME NEW w \in Workers, PreflightRaises(w) \/ AbortPreflight(w)
      PROVE  WorkersTypeOK'
  <2>1. flag' = flag \/ flag' = [flag EXCEPT ![w] = FALSE]
    BY <1>8, Zenon DEF PreflightRaises, AbortPreflight
  <2>2. flag' \in [Workers -> BOOLEAN]
    BY <2>1, Zenon
  <2>3. \E s \in {"raised", "declined"} : work' = [work EXCEPT ![w] = s]
    BY <1>8, Zenon DEF PreflightRaises, AbortPreflight
  <2>4. /\ UNCHANGED <<delivering, steps, total>>
        /\ residue' \in {residue, residue \union {w}, residue \ {w}}
    BY <1>8, SMT DEF PreflightRaises, AbortPreflight
  <2>. QED BY <2>2, <2>3, <2>4, SMT DEF Answered
<1>9. ASSUME NEW w \in Workers, Watch(w) PROVE WorkersTypeOK'
  <2>1. plan \in Plans
    BY <1>9, SMT DEF Watch, BusTypeOK
  <2>. QED BY <1>9, <2>1, SMT DEF Watch
<1>10. ASSUME NEW w \in Workers, Receive(w) PROVE WorkersTypeOK'
  <2>1. flag' \in [Workers -> BOOLEAN]
    BY <1>10, SMT DEF Receive
  <2>2. delivering' \subseteq delivering /\ UNCHANGED <<work, steps, total, residue>>
    BY <1>10, Zenon DEF Receive
  <2>. QED BY <2>1, <2>2, SMT
<1>11. CASE Agree
  BY <1>11, SMT DEF Agree, OnDevice, Training
<1>12. CASE Step
  <2>1. PICK failed :
          /\ steps' = [w \in Workers |-> IF w \in Team \ failed THEN steps[w] + 1 ELSE steps[w]]
          /\ total' = [w \in Workers |-> IF w \in Team \ failed THEN total[w] + 1 ELSE total[w]]
          /\ work' = [w \in Workers |->
               IF w \notin Team THEN work[w]
               ELSE IF w \in Team \ failed /\ steps[w] + 1 < MaxBatches THEN "control"
               ELSE "cleanup"]
    BY <1>12, StepEffect
  <2>2. UNCHANGED <<flag, delivering, residue>>
    BY <1>12, StepEffect
  <2>. QED BY <2>1, <2>2, SMT DEF OnDevice, Training
<1>13. ASSUME NEW w \in Workers, LoseGroup(w) \/ CleanUp(w) PROVE WorkersTypeOK'
  BY <1>13, SMT DEF LoseGroup, CleanUp, OnDevice, Training, Answered
<1>. QED BY PartsChanged, <1>1, <1>2, <1>3, <1>4, <1>5, <1>6, <1>7, <1>8, <1>9, <1>10,
            <1>11, <1>12, <1>13
     DEF Next, EventLoop, MainThread, Optimize, Answer, WatcherThread

(* Type correctness of idle training and of the bus: in particular leases, *)
(* reclaims and deliveries are of plans, and no counter drops below zero.  *)
THEOREM IdleTypeCorrect == Spec => []TypeOK
<1>. DEFINE Inv == TypeOK /\ ServedIsActive /\ PlanIsNumbered
<1>1. Init => Inv
  <2>1. Init => ServedIsActive /\ PlanIsNumbered
    BY SMT DEF Init, ServedIsActive, PlanIsNumbered
  <2>. QED BY TypeInit, <2>1
<1>2. Inv /\ [Next]_vars => Inv'
  BY BusSteps, ServersTypes, DriverTypes, WorkersTypes DEF TypeOK
<1>3. Inv => TypeOK
  OBVIOUS
<1>. QED BY <1>1, <1>2, <1>3, PTL DEF Spec
-----------------------------------------------------------------------------
(* Leases *)

(* No step of the driver or of a worker touches a rollout lease.           *)
LEMMA RolloutLeasesElsewhere ==
  ASSUME Next, ~\E r \in Replicas : Serve(r)
  PROVE  UNCHANGED <<rolloutOwners, pendingGroups, requests>>
<1>1. ASSUME EventLoop \/ Launch
      PROVE  UNCHANGED <<rolloutOwners, pendingGroups, requests>>
  BY <1>1, Zenon DEF EventLoop, Launch, ObserveStarted, ObserveIdle, Complete, Reserve,
     NotReserved, Submit, Abort, Aborted, ReserveTraining, RejectTraining, ReleaseTraining,
     busVars
<1>2. ASSUME MainThread \/ EndRollout \/ NextRollout
      PROVE  UNCHANGED <<rolloutOwners, pendingGroups, requests>>
  BY <1>2, Zenon DEF MainThread, EndRollout, NextRollout, Boundary, Wait, Die, Update,
     ReleaseTraining, busVars
<1>3. ASSUME NEW r \in Replicas, Request(r) \/ Join(r) \/ GiveUp(r) \/ Interrupt(r)
      PROVE  UNCHANGED <<rolloutOwners, pendingGroups, requests>>
  BY <1>3, Zenon DEF Request, Join, GiveUp, Interrupt, busVars
<1>. QED BY PartsChanged, <1>1, <1>2, <1>3, Zenon DEF Next, busVars

(* A request, its lease on the bus and the calls still on their way agree, *)
(* whichever of them gives up first.                                       *)
LEMMA RolloutLeasesKept ==
  ASSUME TypeOK, RolloutLeases, [Next]_vars
  PROVE  RolloutLeases'
<1>. USE DEF TypeOK, BusTypeOK, ServersTypeOK, RolloutLeases, Serving, Group
<1>1. CASE UNCHANGED <<rolloutOwners, pendingGroups, requests, stage, late>>
  BY <1>1, SMT
<1>2. ASSUME NEW r \in Replicas, Request(r) PROVE RolloutLeases'
  BY <1>2, SMT DEF Request, busVars
<1>3. ASSUME NEW r \in Replicas, Join(r) PROVE RolloutLeases'
  BY <1>1, <1>3, Zenon DEF Join, busVars
<1>4. ASSUME NEW r \in Replicas, Blocked(r) PROVE RolloutLeases'
  BY <1>4, SMT DEF Blocked, BlockRollout, serverVars
<1>5. ASSUME NEW r \in Replicas, Granted(r) PROVE RolloutLeases'
  BY <1>5, SMT DEF Granted, GrantRollout, Shared
<1>6. ASSUME NEW r \in Replicas, Enter(r) PROVE RolloutLeases'
  BY <1>6, SMT DEF Enter, busVars
<1>7. ASSUME NEW r \in Replicas, GiveUp(r) PROVE RolloutLeases'
  BY <1>7, SMT DEF GiveUp, busVars
<1>8. ASSUME NEW r \in Replicas, Finish(r) PROVE RolloutLeases'
  BY <1>8, SMT DEF Finish, busVars
<1>9. ASSUME NEW r \in Replicas, Released(r) PROVE RolloutLeases'
  BY <1>9, SMT DEF Released, ReleaseRollout, Returned
<1>10. ASSUME NEW r \in Replicas, Interrupt(r) PROVE RolloutLeases'
  BY <1>10, SMT DEF Interrupt, busVars
<1>11. ASSUME NEW r \in Replicas, LateCall(r) PROVE RolloutLeases'
  <2>. UNCHANGED stage
    BY <1>11, Zenon DEF LateCall
  <2>1. CASE BlockRollout(r) /\ late[r] = "acquire" /\ late' = [late EXCEPT ![r] = "cancel"]
    BY <2>1, SMT DEF BlockRollout
  <2>2. CASE GrantRollout(r) /\ late[r] = "acquire" /\ late' = [late EXCEPT ![r] = "cancel"]
    BY <2>2, SMT DEF GrantRollout, Shared
  <2>3. CASE CancelRolloutWait(r) /\ late[r] = "cancel" /\ late' = [late EXCEPT ![r] = "none"]
    <3>1. /\ requests' = [requests EXCEPT ![r] = "none"]
          /\ rolloutOwners' = IF requests[r] = "owned" THEN Returned(r) ELSE rolloutOwners
          /\ pendingGroups' = pendingGroups \ {r}
      BY <2>3, Zenon DEF CancelRolloutWait
    <3>. QED BY <2>3, <3>1, SMT DEF Returned
  <2>4. CASE UNCHANGED busVars /\ late[r] = "cancel" /\ requests[r] = "none"
             /\ late' = [late EXCEPT ![r] = "none"]
    BY <2>4, SMT DEF busVars
  <2>5. CASE ReleaseRollout(r, verified[r]) /\ late[r] = "release"
             /\ late' = [late EXCEPT ![r] = "none"]
    BY <2>5, SMT DEF ReleaseRollout, Returned
  <2>. QED BY <1>11, <2>1, <2>2, <2>3, <2>4, <2>5, Zenon DEF LateCall
<1>12. ASSUME Next, ~\E r \in Replicas : Serve(r) \/ Request(r) \/ Join(r) \/ GiveUp(r)
                                         \/ Interrupt(r)
       PROVE  RolloutLeases'
  <2>1. UNCHANGED serverVars
    BY <1>12, PartsChanged, Zenon DEF Next, serverVars
  <2>. QED BY <1>1, <1>12, <2>1, RolloutLeasesElsewhere, Zenon DEF serverVars
<1>13. CASE UNCHANGED vars
  BY <1>1, <1>13 DEF vars, busVars, serverVars
<1>. QED BY <1>2, <1>3, <1>4, <1>5, <1>6, <1>7, <1>8, <1>9, <1>10, <1>11, <1>12, <1>13
     DEF Serve
(* The launch, the plan and the workers move together, and the rollout is  *)
(* over before the boundary.                                               *)
LEMMA PlanPhasesKept ==
  ASSUME TypeOK, PlanPhases, [Next]_vars
  PROVE  PlanPhases'
<1>. USE DEF TypeOK, ServersTypeOK, DriverTypeOK, WorkersTypeOK, PlanPhases
<1>1. CASE UNCHANGED <<loop, status, phase, stage, work>>
  BY <1>1, SMT
<1>2. CASE UNCHANGED vars
  BY <1>1, <1>2 DEF vars, serverVars, driverVars, workerVars
<1>3. ASSUME NEW r \in Replicas, \/ Request(r) \/ Join(r) \/ Blocked(r) \/ Granted(r)
                                \/ Enter(r) \/ LateCall(r)
      PROVE  PlanPhases'
  <2>1. UNCHANGED <<loop, status, phase, work>>
    BY <1>3, Zenon DEF Request, Join, Blocked, Granted, Enter, LateCall, driverVars,
       workerVars
  <2>2. UNCHANGED stage \/ phase = "rollout" \/ stage[r] # "free"
    BY <1>3, SMT DEF Request, Join, Blocked, Granted, Enter, LateCall, serverVars
  <2>. QED BY <2>1, <2>2, <1>1, SMT
<1>4. ASSUME NEW r \in Replicas, GiveUp(r) \/ Finish(r) \/ Released(r) \/ Interrupt(r)
      PROVE  PlanPhases'
  <2>1. UNCHANGED <<loop, status, phase, work>>
    BY <1>4, Zenon DEF GiveUp, Finish, Released, Interrupt, driverVars, workerVars
  <2>2. stage[r] # "free"
    <3>1. GiveUp(r) => stage[r] \in {"acquiring", "granted"}
      BY Zenon DEF GiveUp
    <3>2. Finish(r) \/ Released(r) \/ Interrupt(r) => stage[r] \in {"serving", "releasing"}
      BY Zenon DEF Finish, Released, Interrupt
    <3>. QED BY <1>4, <3>1, <3>2, SMT
  <2>. QED BY <2>1, <2>2, SMT
<1>5. CASE ObserveStarted \/ ObserveIdle
  BY <1>1, <1>5, Zenon DEF ObserveStarted, ObserveIdle, serverVars, workerVars
<1>6. CASE Launch
  BY <1>6, SMT DEF Launch, Serviced, serverVars, workerVars
<1>7. CASE Reserve
  BY <1>7, SMT DEF Reserve, serverVars, Launching
<1>8. CASE NotReserved
  BY <1>8, SMT DEF NotReserved, serverVars, workerVars
<1>9. CASE Submit
  BY <1>9, SMT DEF Submit, serverVars, Training
<1>10. CASE Abort
  BY <1>10, SMT DEF Abort, serverVars
<1>11. CASE Aborted
  BY <1>11, SMT DEF Aborted, Rested, serverVars
<1>12. CASE Complete
  <2>1. status' \in {"idle", "failed"} /\ status = "running" /\ loop = "idle"
    BY <1>12, SMT DEF Complete, Serviced, AllAnswered
  <2>2. /\ work' = [w \in Workers |-> IF w \in Team THEN "none" ELSE work[w]]
        /\ UNCHANGED <<loop, phase, stage>>
    BY <1>12, Zenon DEF Complete, Rested, serverVars
  <2>. QED BY <2>1, <2>2, SMT
<1>13. CASE Wait
  BY <1>13, SMT DEF Wait, Rested, serverVars
<1>14. CASE Boundary \/ Die \/ EndRollout \/ NextRollout \/ Update
  BY <1>14, SMT DEF Boundary, Die, EndRollout, NextRollout, Update, serverVars, workerVars
<1>15. ASSUME NEW w \in Workers, Answer(w) \/ WatcherThread(w)
       PROVE  PlanPhases'
  <2>1. UNCHANGED <<loop, status, phase, stage>>
    BY <1>15, PartsChanged, Zenon DEF serverVars, driverVars, Next
  <2>2. \/ work[w] = "asked" /\ \E s \in {"prepared", "declined", "unready", "raised"} :
                                     work' = [work EXCEPT ![w] = s]
        \/ work[w] = "aborting" /\ \E s \in {"declined", "raised"} :
                                     work' = [work EXCEPT ![w] = s]
        \/ work[w] \in Training /\ \E s \in {"broken", "done", "raised"} :
                                     work' = [work EXCEPT ![w] = s]
        \/ UNCHANGED work
    <3>1. CASE Prepare(w) \/ Decline(w) \/ NotReady(w) \/ PreflightRaises(w)
      BY <3>1, Zenon DEF Prepare, Decline, NotReady, PreflightRaises
    <3>2. CASE AbortPreflight(w)
      BY <3>2, Zenon DEF AbortPreflight
    <3>3. CASE LoseGroup(w) \/ CleanUp(w)
      BY <3>3, SMT DEF LoseGroup, CleanUp, Training
    <3>4. CASE Watch(w) \/ Receive(w)
      BY <3>4, Zenon DEF Watch, Receive
    <3>. QED BY <1>15, <3>1, <3>2, <3>3, <3>4, Zenon DEF Answer, WatcherThread
  <2>. QED BY <2>1, <2>2, SMT DEF Launching, Training, Answered
<1>16. CASE Optimize
  <2>1. UNCHANGED <<loop, status, phase, stage>>
    BY <1>16, PartsChanged, Zenon DEF serverVars, driverVars, Next
  <2>2. /\ \A w \in Team : work[w] \in Training
        /\ work' \in [Workers -> {"none", "asked", "declined"} \union OnDevice \union Answered]
        /\ \A w \in Workers : work'[w] \in IF w \in Team THEN Training ELSE {work[w]}
    <3>1. CASE Agree
      BY <3>1, SMT DEF Agree, Training, OnDevice
    <3>2. CASE Step
      <4>1. /\ \A w \in Team : work[w] = "stepping"
            /\ \A w \in Workers : \/ w \in Team /\ work'[w] \in {"control", "cleanup"}
                                  \/ w \notin Team /\ work'[w] = work[w]
            /\ work' = [w \in Workers |-> work'[w]]
        BY <3>2, StepLeaves
      <4>2. {"control", "stepping", "cleanup"} \subseteq Training /\ Training \subseteq OnDevice
        BY DEF Training, OnDevice
      <4>3. \A w \in Workers : \/ w \in Team /\ work'[w] \in Training
                               \/ w \notin Team /\ work'[w] = work[w]
        BY <4>1, <4>2, Zenon
      <4>4. \A w \in Workers : work'[w] \in IF w \in Team THEN Training ELSE {work[w]}
        BY <4>3, Zenon
      <4>5. \A w \in Workers : work[w] \in {"none", "asked", "declined"}
                                          \union OnDevice \union Answered
        BY DEF TypeOK, WorkersTypeOK
      <4>6. work' \in [Workers -> {"none", "asked", "declined"} \union OnDevice \union Answered]
        BY <4>1, <4>2, <4>3, <4>5, Zenon
      <4>7. \A w \in Team : work[w] \in Training
        BY <4>1, <4>2, Zenon
      <4>. QED BY <4>4, <4>6, <4>7
    <3>. QED BY <1>16, <3>1, <3>2 DEF Optimize
  <2>3. PICK v \in Team : TRUE
    BY TeamAssumption
  <2>4. status = "running" /\ loop \notin {"preflight", "abort"}
    BY <2>2, <2>3, TeamAssumption, SMT DEF Launching, Training, Answered
  <2>. QED BY <2>1, <2>2, <2>4, SMT
<1>. QED BY <1>2, <1>3, <1>4, <1>5, <1>6, <1>7, <1>8, <1>9, <1>10, <1>11, <1>12, <1>13,
            <1>14, <1>15, <1>16
     DEF Next, Serve, EventLoop, MainThread
(* The plans that hold a lease.                                            *)
LEMMA LivePlans ==
  ASSUME TypeOK, TrainingLeases
  PROVE  /\ PlansOn(Workers) = {leased} \ {0}
         /\ PlansOn(Team) = {leased} \ {0}
         /\ \A r \in Replicas : PlansOn(Group(r)) \subseteq {leased} \ {0}
         /\ \A r \in Replicas : Group(r) # {}
<1>1. Team # {} /\ Team \subseteq Workers
  BY TeamAssumption
<1>2. \A w \in Workers : trainingOwners[w] = IF w \in Team THEN leased ELSE 0
  BY DEF TrainingLeases
<1>3. PICK v \in Team : TRUE
  BY <1>1
<1>. QED BY <1>1, <1>2, <1>3, GroupsAssumption, SMT DEF PlansOn, Group

(* A rollout call leaves training leases alone, takes devices from no      *)
(* plan, and has the plans that wait for its end reclaimed.                *)
LEMMA RolloutCallLeases ==
  ASSUME TypeOK, RolloutLeases, TrainingLeases, NEW r \in Replicas, NEW verify \in BOOLEAN,
         UNCHANGED <<leased, status, loop, plan>>,
         \/ BlockRollout(r) \/ GrantRollout(r) \/ CancelRolloutWait(r)
         \/ requests[r] = "owned" /\ ReleaseRollout(r, verify)
  PROVE  TrainingLeases'
<1>. USE LivePlans DEF TypeOK, BusTypeOK, TrainingLeases, Serves, Live, RolloutLeases
<1>1. CASE BlockRollout(r)
  BY <1>1, SMT DEF BlockRollout
<1>2. CASE GrantRollout(r)
  <2>1. /\ PlansOn(Group(r)) = {}
        /\ rolloutOwners' = Shared(r)
        /\ reclaims' = reclaims \intersect PlansOn(Workers)
        /\ overlap' = overlap \intersect PlansOn(Workers)
        /\ UNCHANGED trainingOwners
    BY <1>2, Zenon DEF GrantRollout
  <2>2. \A w \in Group(r) : trainingOwners[w] = 0
    <3>1. \A w \in Group(r) : trainingOwners[w] \in PlansOn(Group(r)) \union {0}
      BY Zenon DEF PlansOn
    <3>. QED BY <2>1, <3>1, Zenon
  <2>. QED BY <2>1, <2>2, SMT DEF Shared
<1>3. CASE CancelRolloutWait(r) \/ ReleaseRollout(r, verify)
  <2>1. /\ ReclaimFinishedOverlap
        /\ UNCHANGED <<trainingOwners, overlap>>
        /\ rolloutOwners' = Returned(r) \/ rolloutOwners' = rolloutOwners
    BY <1>3, Zenon DEF CancelRolloutWait, ReleaseRollout
  <2>2. \A w \in Workers : rolloutOwners[w] = 0 => rolloutOwners'[w] = 0
    BY <2>1, SMT DEF Returned
  <2>. QED BY <2>1, <2>2, SMT DEF ReclaimFinishedOverlap
<1>. QED BY <1>1, <1>2, <1>3

(* The driver's plan holds its team exactly from its reservation to its    *)
(* end, wherever the plan fails.                                           *)
LEMMA TrainingLeasesKept ==
  ASSUME TypeOK, PlanIsNumbered, RolloutLeases, PlanPhases, TrainingLeases, [Next]_vars
  PROVE  TrainingLeases'
<1>. USE DEF TypeOK, BusTypeOK, DriverTypeOK, TrainingLeases, Serves
<1>1. CASE UNCHANGED <<busVars, leased, status, loop, plan>>
  BY <1>1, SMT DEF busVars
<1>2. CASE UNCHANGED vars
  BY <1>1, <1>2, Zenon DEF vars, driverVars
<1>3. ASSUME NEW r \in Replicas,
             Serve(r) \/ Request(r) \/ Join(r) \/ GiveUp(r) \/ Interrupt(r)
      PROVE  TrainingLeases'
  <2>1. UNCHANGED <<leased, status, loop, plan>>
    BY <1>3, Zenon DEF Serve, Request, Join, GiveUp, Interrupt, Blocked, Granted, Enter,
       Finish, Released, LateCall, driverVars
  <2>2. verified[r] \in BOOLEAN
    BY SMT DEF ServersTypeOK
  <2>3. stage[r] = "releasing" \/ late[r] = "release" => requests[r] = "owned"
    BY SMT DEF RolloutLeases, Serving
  <2>4. \/ UNCHANGED busVars
        \/ BlockRollout(r) \/ GrantRollout(r) \/ CancelRolloutWait(r)
        \/ requests[r] = "owned" /\ ReleaseRollout(r, verified[r])
    BY <1>3, <2>3, Zenon DEF Serve, Request, Join, GiveUp, Interrupt, Blocked, Granted,
       Enter, Finish, Released, LateCall
  <2>. QED BY <1>1, <2>1, <2>2, <2>4, RolloutCallLeases, Zenon
<1>4. CASE Optimize \/ \E w \in Workers : Answer(w) \/ WatcherThread(w)
  <2>1. UNCHANGED <<busVars, driverVars>>
    BY <1>4, PartsChanged, Zenon DEF Next
  <2>. QED BY <1>1, <2>1, Zenon DEF driverVars
<1>5. CASE ObserveStarted
  BY <1>5, LivePlans, SMT DEF ObserveStarted, Reclaimed
<1>6. CASE ObserveIdle
  BY <1>6, SMT DEF ObserveIdle
<1>7. CASE Launch
  <2>1. leased = 0 /\ leased' = 0 /\ loop' = "reserve" /\ status' = status
    BY <1>7, SMT DEF Launch, Serviced
  <2>2. UNCHANGED busVars /\ status # "running"
    BY <1>7, SMT DEF Launch
  <2>. QED BY <2>1, <2>2, SMT DEF busVars
<1>8. CASE Reserve
  <2>1. /\ \A w \in Workers : trainingOwners'[w] = IF w \in Team THEN plan ELSE trainingOwners[w]
        /\ \A w \in Team : rolloutOwners[w] = 0
        /\ Serves(rolloutOwners, Workers)
        /\ rolloutOwners' = rolloutOwners
        /\ reclaims' = Live(reclaims) /\ overlap' = Live(overlap) \union {plan}
    BY <1>8, SMT DEF Reserve, ReserveTraining, Reservable
  <2>2. leased = 0
    BY <1>8, SMT DEF Reserve, PlanPhases
  <2>3. leased' = plan /\ status' = "submitted" /\ loop' = "preflight" /\ plan' = plan /\ plan # 0
    BY <1>8, SMT DEF Reserve, PlanIsNumbered
  <2>4. reclaims' = {} /\ overlap' = {plan}
    BY <2>1, <2>2, LivePlans, SMT DEF Live
  <2>. QED BY <2>1, <2>2, <2>3, <2>4, SMT
<1>9. CASE NotReserved
  <2>1. UNCHANGED <<rolloutOwners, trainingOwners, leased, status, plan>> /\ loop' = "idle"
    BY <1>9, Zenon DEF NotReserved, RejectTraining, busVars
  <2>2. leased = 0 /\ status # "running"
    BY <1>9, SMT DEF NotReserved, PlanPhases
  <2>3. reclaims' \subseteq reclaims /\ overlap' \subseteq overlap
    BY <1>9, SMT DEF NotReserved, RejectTraining, busVars, Live
  <2>4. overlap = {}
    BY <2>2, SMT
  <2>. QED BY <2>1, <2>2, <2>3, <2>4, SMT
<1>10. CASE Submit \/ Abort
  BY <1>10, SMT DEF Submit, Abort, busVars, PlanPhases
<1>11. ASSUME ReleaseTraining(plan), leased' = 0, leased = plan, loop' = "idle", plan' = plan,
              status' \in {"idle", "failed"}
       PROVE  TrainingLeases'
  BY <1>11, SMT DEF ReleaseTraining
<1>12. CASE Aborted
  <2>1. status' \in {"idle", "failed"}
    BY <1>12, Zenon DEF Aborted
  <2>. QED BY <1>11, <1>12, <2>1, SMT DEF Aborted
<1>13. CASE Complete
  <2>1. status' \in {"idle", "failed"} /\ status = "running" /\ loop = "idle"
    BY <1>13, SMT DEF Complete, Serviced, AllAnswered
  <2>2. ReleaseTraining(plan) /\ leased' = 0 /\ loop' = loop /\ plan' = plan
    BY <1>13, Zenon DEF Complete
  <2>. QED BY <1>11, <2>1, <2>2, SMT
<1>14. CASE Wait
  BY <1>11, <1>14, SMT DEF Wait, AllAnswered, PlanPhases
<1>15. CASE Boundary
  BY <1>15, LivePlans, SMT DEF Boundary, Reclaimed
<1>16. CASE Die \/ EndRollout \/ NextRollout \/ Update
  BY <1>1, <1>16, Zenon DEF Die, EndRollout, NextRollout, Update
<1>. QED BY <1>2, <1>3, <1>4, <1>5, <1>6, <1>7, <1>8, <1>9, <1>10, <1>12, <1>13, <1>14,
            <1>15, <1>16
     DEF Next, EventLoop, MainThread
-----------------------------------------------------------------------------
(* Reclaims and optimizer steps *)

(* No call of the bus forgets the reclaim of a plan that has its lease.    *)
LEMMA ReclaimsStay ==
  ASSUME TypeOK, TrainingLeases, NEW r \in Replicas, NEW verify \in BOOLEAN,
         \/ UNCHANGED busVars \/ BlockRollout(r) \/ GrantRollout(r)
         \/ CancelRolloutWait(r) \/ ReleaseRollout(r, verify)
  PROVE  reclaims \subseteq reclaims'
<1>1. reclaims \subseteq PlansOn(Workers)
  BY LivePlans, SMT DEF TrainingLeases
<1>2. CASE UNCHANGED busVars
  BY <1>2 DEF busVars
<1>3. CASE BlockRollout(r)
  BY <1>1, <1>3, SMT DEF BlockRollout, Live
<1>4. CASE GrantRollout(r)
  BY <1>1, <1>4, SMT DEF GrantRollout, Live
<1>5. CASE CancelRolloutWait(r) \/ ReleaseRollout(r, verify)
  <2>1. ReclaimFinishedOverlap
    BY <1>5, Zenon DEF CancelRolloutWait, ReleaseRollout
  <2>. QED BY <2>1, SMT DEF ReclaimFinishedOverlap
<1>. QED BY <1>2, <1>3, <1>4, <1>5

(* A reclaim that is still on its way when its plan ends finds no other    *)
(* plan under its number, and each plan starts without one.                *)
LEMMA ReclaimsInTimeKept ==
  ASSUME TypeOK, RolloutLeases, PlanPhases, TrainingLeases, ReclaimsInTime, [Next]_vars
  PROVE  ReclaimsInTime'
<1>. USE DEF TypeOK, DriverTypeOK, WorkersTypeOK, ReclaimsInTime
<1>0. \A d \in delivering : d[2] \in Nat \ {0}
  BY PlansAssumption, SMT DEF Plans
<1>1. ASSUME reclaims \subseteq reclaims',
             UNCHANGED <<delivering, plan, loop, leased, work, flag>>
      PROVE  ReclaimsInTime'
  BY <1>1, SMT
<1>2. CASE UNCHANGED vars
  BY <1>1, <1>2, Zenon DEF vars, busVars, driverVars, workerVars
<1>3. ASSUME NEW r \in Replicas,
             Serve(r) \/ Request(r) \/ Join(r) \/ GiveUp(r) \/ Interrupt(r)
      PROVE  ReclaimsInTime'
  <2>1. verified[r] \in BOOLEAN
    BY SMT DEF ServersTypeOK
  <2>2. \/ UNCHANGED busVars \/ BlockRollout(r) \/ GrantRollout(r)
        \/ CancelRolloutWait(r) \/ ReleaseRollout(r, verified[r])
    BY <1>3, Zenon DEF Serve, Request, Join, GiveUp, Interrupt, Blocked, Granted,
       Enter, Finish, Released, LateCall
  <2>3. UNCHANGED <<driverVars, workerVars>>
    BY <1>3, PartsChanged, Zenon DEF Next, Serve, Request, Join, GiveUp, Interrupt, Blocked,
       Granted, Enter, Finish, Released, LateCall
  <2>. QED BY <1>1, <2>1, <2>2, <2>3, ReclaimsStay, Zenon DEF driverVars, workerVars
<1>4. CASE ObserveStarted
  <2>1. reclaims \subseteq reclaims'
    BY <1>4, SMT DEF ObserveStarted, Reclaimed
  <2>2. UNCHANGED <<delivering, plan, loop, leased, work, flag>>
    BY <1>4, Zenon DEF ObserveStarted, workerVars
  <2>. QED BY <1>1, <2>1, <2>2
<1>5. CASE ObserveIdle
  BY <1>1, <1>5, Zenon DEF ObserveIdle, workerVars
<1>6. CASE Launch
  <2>1. /\ plan' = plan + 1 /\ UNCHANGED <<delivering, work, flag, reclaims, leased>>
        /\ status # "running" /\ loop = "idle"
    BY <1>6, SMT DEF Launch, Serviced, workerVars, busVars
  <2>2. \A w \in Workers : work[w] = "none"
    BY <2>1, SMT DEF PlanPhases
  <2>3. plan \in Nat
    BY PlansAssumption, SMT DEF Plans
  <2>4. leased = 0
    BY <2>1, SMT DEF TrainingLeases
  <2>5. \A d \in delivering : d[2] <= plan + 1 /\ d[2] # plan + 1 /\ d[2] # 0
    BY <1>0, <2>3, SMT
  <2>. QED BY <2>1, <2>2, <2>4, <2>5, SMT DEF Training
<1>7. CASE Reserve
  <2>1. /\ loop = "reserve" /\ loop' = "preflight" /\ leased' = plan
        /\ work' = [w \in Workers |-> IF w \in Team THEN "asked" ELSE work[w]]
        /\ UNCHANGED <<delivering, plan, flag>>
    BY <1>7, Zenon DEF Reserve
  <2>2. \A w \in Workers : work[w] = "none"
    BY <2>1, SMT DEF PlanPhases, Training, Answered
  <2>. QED BY <2>1, <2>2, SMT DEF Training
<1>8. CASE NotReserved
  <2>1. loop = "reserve" /\ UNCHANGED <<delivering, plan, leased, work, flag>> /\ loop' = "idle"
    BY <1>8, Zenon DEF NotReserved, workerVars
  <2>2. leased = 0 /\ status # "running"
    BY <2>1, SMT DEF TrainingLeases, PlanPhases
  <2>3. \A w \in Workers : work[w] = "none"
    BY <2>1, <2>2, SMT DEF PlanPhases
  <2>. QED BY <1>0, <2>1, <2>2, <2>3, SMT DEF Training
<1>9. CASE Submit
  BY <1>9, SMT DEF Submit, busVars, PlanPhases, Training
<1>10. CASE Abort
  <2>1. /\ loop' = "abort" /\ UNCHANGED <<delivering, plan, leased, flag, reclaims>>
        /\ \A w \in Workers : work'[w] \notin {"prepared"} \union Training
    BY <1>10, SMT DEF Abort, busVars, PlanPhases, Training
  <2>. QED BY <2>1, SMT
<1>11. ASSUME Rested, leased' = 0, UNCHANGED <<delivering, plan, flag>>, loop' = "idle"
       PROVE  ReclaimsInTime'
  <2>1. \A w \in Workers : work'[w] = "none"
    BY <1>11, SMT DEF Rested, PlanPhases
  <2>. QED BY <1>0, <1>11, <2>1, SMT DEF Training
<1>12. CASE Aborted
  BY <1>11, <1>12, Zenon DEF Aborted
<1>13. CASE Complete
  BY <1>11, <1>13, Zenon DEF Complete, Serviced
<1>14. CASE Wait
  <2>1. loop = "idle"
    BY <1>14, SMT DEF Wait, PlanPhases
  <2>. QED BY <1>11, <1>14, <2>1, Zenon DEF Wait
<1>15. CASE Boundary
  <2>1. reclaims \subseteq reclaims'
    BY <1>15, SMT DEF Boundary, Reclaimed
  <2>2. UNCHANGED <<delivering, plan, loop, leased, work, flag>>
    BY <1>15, Zenon DEF Boundary, workerVars
  <2>. QED BY <1>1, <2>1, <2>2
<1>16. CASE Die \/ EndRollout \/ NextRollout \/ Update
  BY <1>1, <1>16, Zenon DEF Die, EndRollout, NextRollout, Update, workerVars, busVars
<1>17. ASSUME NEW w \in Workers, Answer(w) \/ WatcherThread(w)
       PROVE  ReclaimsInTime'
  <2>. UNCHANGED <<reclaims, plan, loop, leased>>
    BY <1>17, PartsChanged, Zenon DEF Next, busVars, driverVars
  <2>1. CASE Prepare(w)
    <3>1. /\ work' = [work EXCEPT ![w] = "prepared"] /\ UNCHANGED delivering
          /\ flag' = [flag EXCEPT ![w] = FALSE]
      BY <2>1, Zenon DEF Prepare
    <3>2. ~flag'[w] /\ \A v \in Workers \ {w} : flag'[v] = flag[v]
      BY <3>1
    <3>. QED BY <3>1, <3>2, SMT DEF Training
  <2>2. ASSUME flag' = flag \/ flag' = [flag EXCEPT ![w] = FALSE], UNCHANGED delivering,
               \E s \in {"declined", "unready", "raised", "done"} : work' = [work EXCEPT ![w] = s]
        PROVE  ReclaimsInTime'
    <3>1. \A v \in Workers \ {w} : flag'[v] = flag[v]
      BY <2>2
    <3>2. work'[w] \in {"declined", "unready", "raised", "done"}
      BY <2>2, SMT
    <3>3. \A v \in Workers \ {w} : work'[v] = work[v]
      BY <2>2, SMT
    <3>. QED BY <2>2, <3>1, <3>2, <3>3, SMT DEF Training
  <2>3. CASE Decline(w) \/ NotReady(w)
    <3>1. \E s \in {"declined", "unready", "raised", "done"} : work' = [work EXCEPT ![w] = s]
      BY <2>3, Zenon DEF Decline, NotReady
    <3>. QED BY <2>2, <2>3, <3>1, Zenon DEF Decline, NotReady
  <2>4. CASE PreflightRaises(w) \/ AbortPreflight(w)
    <3>1. \E s \in {"declined", "unready", "raised", "done"} : work' = [work EXCEPT ![w] = s]
      BY <2>4, Zenon DEF PreflightRaises, AbortPreflight
    <3>. QED BY <2>2, <2>4, <3>1, Zenon DEF PreflightRaises, AbortPreflight
  <2>5. CASE LoseGroup(w)
    <3>1. work' = [work EXCEPT ![w] = "broken"] /\ UNCHANGED <<delivering, flag>>
      BY <2>5, Zenon DEF LoseGroup
    <3>2. work[w] = "control"
      BY <2>5, Zenon DEF LoseGroup
    <3>. QED BY <3>1, <3>2, SMT DEF Training
  <2>6. CASE CleanUp(w)
    <3>1. \E s \in {"declined", "unready", "raised", "done"} : work' = [work EXCEPT ![w] = s]
      BY <2>6, SMT DEF CleanUp
    <3>. QED BY <2>2, <2>6, <3>1, Zenon DEF CleanUp
  <2>7. CASE Watch(w)
    <3>1. plan \in reclaims /\ trainingOwners[w] = plan
          /\ delivering' = delivering \union {<<w, plan>>} /\ UNCHANGED <<work, flag>>
      BY <2>7, Zenon DEF Watch
    <3>2. loop # "reserve" /\ plan \in Nat
      <4>1. plan \in Plans /\ leased = plan
        BY <3>1, SMT DEF TrainingLeases, BusTypeOK
      <4>. QED BY <4>1, PlansAssumption, SMT DEF PlanPhases, TrainingLeases, Plans
    <3>. QED BY <3>1, <3>2, SMT
  <2>8. CASE Receive(w)
    <3>1. PICK p \in Plans :
            /\ <<w, p>> \in delivering
            /\ delivering' = delivering \ {<<w, p>>}
            /\ flag' = IF work[w] \in Training /\ p = plan THEN [flag EXCEPT ![w] = TRUE] ELSE flag
            /\ UNCHANGED work
      BY <2>8, Zenon DEF Receive
    <3>2. CASE work[w] \in Training /\ p = plan
      <4>1. status = "running" /\ leased = plan
        BY <3>2, SMT DEF PlanPhases, TrainingLeases, Training, Launching
      <4>2. plan \in reclaims
        BY <3>1, <3>2, <4>1, SMT
      <4>3. \A v \in Workers \ {w} : flag'[v] = flag[v]
        BY <3>1
      <4>. QED BY <3>1, <3>2, <4>2, <4>3, SMT DEF Training
    <3>3. CASE ~(work[w] \in Training /\ p = plan)
      BY <3>1, <3>3, SMT
    <3>. QED BY <3>2, <3>3
  <2>. QED BY <1>17, <2>1, <2>3, <2>4, <2>5, <2>6, <2>7, <2>8 DEF Answer, WatcherThread
<1>18. CASE Optimize
  <2>1. UNCHANGED <<reclaims, plan, loop, leased>>
    BY <1>18, PartsChanged, Zenon DEF Next, busVars, driverVars
  <2>2. CASE Agree
    <3>1. UNCHANGED <<flag, delivering>>
      BY <2>2, Zenon DEF Agree
    <3>2. \A w \in Workers :
            /\ work'[w] = "prepared" => work[w] = "prepared"
            /\ work'[w] \in Training => work[w] \in Training
      BY <2>2, SMT DEF Agree, Training
    <3>. QED BY <2>1, <3>1, <3>2, SMT
  <2>3. CASE Step
    <3>1. UNCHANGED <<flag, delivering>>
      BY <2>3, StepEffect
    <3>2. \A w \in Workers :
            /\ work'[w] = "prepared" => work[w] = "prepared"
            /\ work'[w] \in Training => work[w] \in Training
      BY <2>3, StepEffect, SMT DEF Training
    <3>. QED BY <2>1, <3>1, <3>2, SMT
  <2>. QED BY <1>18, <2>2, <2>3 DEF Optimize
<1>. QED BY <1>2, <1>3, <1>4, <1>5, <1>6, <1>7, <1>8, <1>9, <1>10, <1>12, <1>13, <1>14,
            <1>15, <1>16, <1>17, <1>18
     DEF Next, EventLoop, MainThread
(* The steps of a plan are accounted when its results are read, once and   *)
(* for every worker alike, or an error is kept.                            *)
LEMMA StepsCountedKept ==
  ASSUME TypeOK, PlanPhases, StepsCounted, [Next]_vars
  PROVE  StepsCounted'
<1>. USE TeamAssumption DEF TypeOK, DriverTypeOK, WorkersTypeOK, StepsCounted, StepsAccounted
<1>1. ASSUME UNCHANGED <<status, steps, accounted, total>>,
             (~fatal /\ phase # "dead")' => ~fatal /\ phase # "dead"
      PROVE  StepsCounted'
  BY <1>1, SMT
<1>2. CASE UNCHANGED vars
  BY <1>1, <1>2, Zenon DEF vars, driverVars, workerVars
<1>3. ASSUME NEW r \in Replicas,
             Serve(r) \/ Request(r) \/ Join(r) \/ GiveUp(r) \/ Interrupt(r)
      PROVE  StepsCounted'
  <2>1. UNCHANGED <<driverVars, workerVars>>
    BY <1>3, Zenon DEF Serve, Request, Join, GiveUp, Interrupt, Blocked, Granted, Enter,
       Finish, Released, LateCall
  <2>. QED BY <1>1, <2>1, Zenon DEF driverVars, workerVars
<1>4. CASE ObserveStarted \/ ObserveIdle \/ Launch \/ NotReserved \/ Boundary \/ Die
           \/ EndRollout
  <2>1. UNCHANGED <<status, steps, accounted, total, fatal>>
    BY <1>4, Zenon DEF ObserveStarted, ObserveIdle, Launch, NotReserved, Boundary, Die,
       EndRollout, workerVars
  <2>2. phase' = phase \/ phase # "dead"
    BY <1>4, SMT DEF ObserveStarted, ObserveIdle, Launch, NotReserved, Boundary, Die,
       EndRollout
  <2>. QED BY <1>1, <2>1, <2>2, Zenon
<1>5. CASE Update \/ NextRollout
  <2>1. UNCHANGED <<status, steps, accounted, total, fatal>>
    BY <1>5, Zenon DEF Update, NextRollout, workerVars
  <2>2. phase # "dead"
    BY <1>5, SMT DEF Update, NextRollout
  <2>. QED BY <1>1, <2>1, <2>2, Zenon
<1>6. CASE Reserve \/ Abort \/ Submit
  <2>1. UNCHANGED <<steps, accounted, total, fatal, phase>>
    BY <1>6, Zenon DEF Reserve, Abort, Submit
  <2>2. status # "running"
    BY <1>6, SMT DEF Reserve, Abort, Submit, PlanPhases
  <2>. QED BY <2>1, <2>2, SMT
<1>7. CASE Aborted
  <2>1. UNCHANGED <<accounted, total, fatal, phase>>
    BY <1>7, Zenon DEF Aborted
  <2>2. status # "running" /\ status' # "running"
    BY <1>7, SMT DEF Aborted, PlanPhases
  <2>3. steps' = [w \in Workers |-> 0]
    BY <1>7, Zenon DEF Aborted, Rested
  <2>. QED BY <2>1, <2>2, <2>3, SMT
<1>8. ASSUME Consistent, accounted' = accounted + Successful, status = "running",
             status' = "idle", Rested, UNCHANGED <<total, fatal, phase>>
      PROVE  StepsCounted'
  <2>1. \A w \in Team : Successful = steps[w]
    BY <1>8, SuccessfulAgrees
  <2>2. steps' = [w \in Workers |-> 0]
    BY <1>8, Zenon DEF Rested
  <2>. QED BY <1>8, <2>1, <2>2, SMT
<1>9. CASE Complete
  <2>1. steps' = [w \in Workers |-> 0]
    BY <1>9, Zenon DEF Complete, Rested
  <2>2. status = "running"
    BY <1>9, Zenon DEF Complete, AllAnswered
  <2>3. CASE fatal'
    <3>1. status' # "running"
      BY <1>9, SMT DEF Complete
    <3>. QED BY <2>1, <2>3, <3>1, SMT
  <2>4. CASE ~fatal'
    <3>1. Consistent /\ accounted' = accounted + Successful /\ status' = "idle"
      BY <1>9, <2>4, Zenon DEF Complete
    <3>2. Rested /\ UNCHANGED <<total, fatal, phase>>
      BY <1>9, <2>4, Zenon DEF Complete, Serviced
    <3>. QED BY <1>8, <2>2, <3>1, <3>2
  <2>. QED BY <2>3, <2>4
<1>10. CASE Wait
  BY <1>8, <1>10, Zenon DEF Wait, AllAnswered
<1>11. ASSUME NEW w \in Workers, Answer(w) \/ WatcherThread(w)
       PROVE  StepsCounted'
  <2>1. UNCHANGED <<driverVars, steps, total>>
    BY <1>11, Zenon DEF Answer, WatcherThread, Prepare, Decline, NotReady, PreflightRaises,
       AbortPreflight, LoseGroup, CleanUp, Watch, Receive, Stays
  <2>. QED BY <1>1, <2>1, Zenon DEF driverVars
<1>12. CASE Agree
  BY <1>1, <1>12, Zenon DEF Agree, Stays, driverVars
<1>13. CASE Step
  <2>1. UNCHANGED driverVars
    BY <1>13, Zenon DEF Step, Stays
  <2>2. PICK v \in Team : work[v] = "stepping"
    BY <1>13, StepEffect
  <2>3. status = "running"
    BY <2>2, SMT DEF PlanPhases, Launching
  <2>4. PICK failed :
          /\ steps' = [w \in Workers |-> IF w \in Team \ failed THEN steps[w] + 1 ELSE steps[w]]
          /\ total' = [w \in Workers |-> IF w \in Team \ failed THEN total[w] + 1 ELSE total[w]]
    BY <1>13, StepEffect
  <2>. QED BY <2>1, <2>3, <2>4, SMT DEF driverVars
<1>. QED BY <1>2, <1>3, <1>4, <1>5, <1>6, <1>7, <1>9, <1>10, <1>11, <1>12, <1>13
     DEF Next, EventLoop, MainThread, Optimize
-----------------------------------------------------------------------------
(* The theorems *)

(* The initial state satisfies every part of the invariant.                *)
LEMMA LeaseInvInit == Init => LeaseInv
<1>. SUFFICES ASSUME Init PROVE LeaseInv
  OBVIOUS
<1>1. TypeOK
  BY TypeInit
<1>2. ServedIsActive /\ PlanIsNumbered
  BY SMT DEF Init, ServedIsActive, PlanIsNumbered
<1>3. RolloutLeases
  BY SMT DEF Init, BusInit, RolloutLeases, Group, Serving
<1>4. PlanPhases
  BY SMT DEF Init, PlanPhases
<1>5. TrainingLeases
  BY SMT DEF Init, BusInit, TrainingLeases
<1>6. ReclaimsInTime
  BY SMT DEF Init, ReclaimsInTime, Training
<1>7. StepsCounted
  BY TeamAssumption, SMT DEF Init, StepsCounted, StepsAccounted
<1>. QED BY <1>1, <1>2, <1>3, <1>4, <1>5, <1>6, <1>7 DEF LeaseInv

(* What the bus, the driver and the workers believe of each other's leases *)
(* agrees at all times.                                                    *)
THEOREM LeasesAgree == Spec => []LeaseInv
<1>1. LeaseInv /\ [Next]_vars => LeaseInv'
  BY BusSteps, ServersTypes, DriverTypes, WorkersTypes, RolloutLeasesKept, PlanPhasesKept,
     TrainingLeasesKept, ReclaimsInTimeKept, StepsCountedKept
     DEF LeaseInv, TypeOK
<1>. QED BY LeaseInvInit, <1>1, PTL DEF Spec

(* A worker that trains, or is prepared to, belongs to the plan that holds *)
(* its training lease.                                                     *)
LEMMA TrainsUnderLease ==
  ASSUME LeaseInv, NEW w \in Workers, work[w] \in OnDevice
  PROVE  trainingOwners[w] # 0 /\ rolloutOwners[w] = 0
<1>1. loop \in {"preflight", "abort"} \/ status = "running"
  BY SMT DEF LeaseInv, PlanPhases, OnDevice, Training
<1>2. w \in Team
  BY SMT DEF LeaseInv, PlanPhases, OnDevice, Training
<1>3. leased = plan /\ leased \in {0} \union Plans
  BY <1>1, SMT DEF LeaseInv, TrainingLeases, TypeOK, DriverTypeOK
<1>4. plan # 0
  BY <1>1, <1>3, SMT DEF LeaseInv, PlanIsNumbered
<1>. QED BY <1>2, <1>3, <1>4, SMT DEF LeaseInv, TrainingLeases
(* Between a rollout and the next no worker is used but by the update, and *)
(* while a plan holds its lease none serves.                               *)
LEMMA UsedApart ==
  ASSUME LeaseInv, NEW w \in Workers
  PROVE  /\ phase \in {"boundary", "update"} => stage[ReplicaOf[w]] = "free"
         /\ phase = "update" => work[w] = "none"
         /\ phase = "boundary" /\ status # "running" => work[w] = "none"
         /\ work[w] # "none" => stage[ReplicaOf[w]] \notin Serving
         /\ ReplicaOf[w] \in Replicas
<1>1. ReplicaOf[w] \in Replicas /\ w \in Group(ReplicaOf[w])
  BY ReplicasAssumption DEF Group
<1>2. TypeOK /\ RolloutLeases /\ PlanPhases /\ TrainingLeases /\ PlanIsNumbered
  BY DEF LeaseInv
<1>3. ASSUME work[w] # "none" PROVE stage[ReplicaOf[w]] \notin Serving
  <2>1. w \in Team /\ (loop \in {"preflight", "abort"} \/ status = "running")
    BY <1>2, <1>3, SMT DEF PlanPhases
  <2>2. leased = plan /\ plan # 0
    BY <1>2, <2>1, SMT DEF TrainingLeases, PlanIsNumbered
  <2>3. rolloutOwners[w] = 0
    BY <1>2, <2>1, <2>2, SMT DEF TrainingLeases
  <2>. QED BY <1>1, <1>2, <2>3, SMT DEF RolloutLeases
<1>. QED BY <1>1, <1>2, <1>3, SMT DEF PlanPhases
(* Serving and idle training exclude each other on every device.           *)
THEOREM NeverOverlap == Spec => []NoOverlap
<1>1. LeaseInv => NoOverlap
  <2>. SUFFICES ASSUME LeaseInv, NEW w \in Workers,
                       stage[ReplicaOf[w]] = "serving", work[w] \in OnDevice
                PROVE  FALSE
    BY DEF NoOverlap
  <2>1. ReplicaOf[w] \in Replicas /\ w \in Group(ReplicaOf[w])
    BY ReplicasAssumption DEF Group
  <2>2. rolloutOwners[w] = 1
    BY <2>1, SMT DEF LeaseInv, RolloutLeases, Serving
  <2>. QED BY <2>2, TrainsUnderLease, SMT
<1>. QED BY LeasesAgree, <1>1, PTL

(* No lease, wait or training lease outlives what it was taken for.        *)
THEOREM NothingIsLeaked == Spec => []NothingLeaks
<1>1. LeaseInv => NothingLeaks
  <2>. SUFFICES ASSUME LeaseInv PROVE NothingLeaks
    OBVIOUS
  <2>1. \A r \in Replicas :
          r \in pendingGroups => stage[r] = "acquiring" \/ late[r] \in {"acquire", "cancel"}
    BY SMT DEF LeaseInv, RolloutLeases
  <2>2. ASSUME NEW w \in Workers, rolloutOwners[w] > 0
        PROVE  \/ stage[ReplicaOf[w]] \in {"granted", "serving", "releasing"}
               \/ late[ReplicaOf[w]] \in {"cancel", "release"}
    <3>1. ReplicaOf[w] \in Replicas /\ w \in Group(ReplicaOf[w])
      BY ReplicasAssumption DEF Group
    <3>2. requests[ReplicaOf[w]] = "owned"
      BY <2>2, <3>1, SMT DEF LeaseInv, RolloutLeases
    <3>. QED BY <3>1, <3>2, SMT DEF LeaseInv, RolloutLeases, Serving
  <2>3. \A w \in Workers : trainingOwners[w] \in {0, leased}
    <3>1. \A w \in Workers : trainingOwners[w] = IF w \in Team THEN leased ELSE 0
      BY DEF LeaseInv, TrainingLeases
    <3>. QED BY <3>1
  <2>4. leased # 0 => leased = plan /\ (status \in {"submitted", "running"} \/ loop = "abort")
    BY SMT DEF LeaseInv, TrainingLeases
  <2>. QED BY <2>1, <2>2, <2>3, <2>4, Zenon DEF NothingLeaks
<1>. QED BY LeasesAgree, <1>1, PTL

(* However the last rollout ends, the plan admitted beside it is asked to  *)
(* stop.                                                                   *)
THEOREM OverlapEnds == Spec => []OverlapReclaimed
<1>1. LeaseInv => OverlapReclaimed
  BY DEF LeaseInv, TrainingLeases, OverlapReclaimed
<1>. QED BY LeasesAgree, <1>1, PTL

(* Quota is accounted exactly once, or an error is kept.                   *)
THEOREM AccountedOnce == Spec => []StepsAccounted
<1>1. LeaseInv => StepsAccounted
  BY DEF LeaseInv, StepsCounted
<1>. QED BY LeasesAgree, <1>1, PTL

(* Idle training leaves nothing for the update of the policy.              *)
THEOREM UpdateIsAlone == Spec => []NothingInUpdate
<1>1. LeaseInv => NothingInUpdate
  <2>. SUFFICES ASSUME LeaseInv, phase = "update" PROVE NothingInUpdate
    BY DEF NothingInUpdate
  <2>1. loop = "idle" /\ status # "running" /\ leased = 0
    BY SMT DEF LeaseInv, PlanPhases, TrainingLeases
  <2>2. \A w \in Workers : work[w] = "none" /\ trainingOwners[w] = 0
    <3>1. \A w \in Workers : trainingOwners[w] = IF w \in Team THEN leased ELSE 0
      BY DEF LeaseInv, TrainingLeases
    <3>2. \A w \in Workers : work[w] = "none"
      BY UsedApart
    <3>. QED BY <2>1, <3>1, <3>2, Zenon
  <2>3. reclaims = {} /\ overlap = {}
    BY <2>1, SMT DEF LeaseInv, TrainingLeases
  <2>. QED BY <2>1, <2>2, <2>3 DEF NothingInUpdate
<1>. QED BY LeasesAgree, <1>1, PTL

(* A late reclaim stops no other plan than its own.                        *)
THEOREM ReclaimsFindTheirPlan == Spec => []ReclaimIsOfThisPlan
<1>1. LeaseInv => ReclaimIsOfThisPlan
  BY DEF LeaseInv, ReclaimsInTime, ReclaimIsOfThisPlan
<1>. QED BY LeasesAgree, <1>1, PTL
-----------------------------------------------------------------------------
(* Idle training implements DeviceUse *)

(* What a device is used for follows from three facts.                     *)
LEMMA UsedBy ==
  ASSUME NEW w \in Workers
  PROVE  /\ stage[ReplicaOf[w]] # "serving" /\ work[w] \notin OnDevice /\ phase # "update"
              => Used(w) = {}
         /\ stage[ReplicaOf[w]] = "serving" /\ work[w] \notin OnDevice /\ phase # "update"
              => Used(w) = {"serving"}
         /\ stage[ReplicaOf[w]] # "serving" /\ work[w] \in OnDevice /\ phase # "update"
              => Used(w) = {"training"}
         /\ stage[ReplicaOf[w]] # "serving" /\ work[w] \notin OnDevice /\ phase = "update"
              => Used(w) = {"updating"}
  BY SMT DEF Used

(* A device whose facts stay keeps its use.                                *)
LEMMA UsedStays ==
  ASSUME NEW w \in Workers,
         stage'[ReplicaOf[w]] = "serving" <=> stage[ReplicaOf[w]] = "serving",
         work'[w] \in OnDevice <=> work[w] \in OnDevice,
         phase' = "update" <=> phase = "update"
  PROVE  Used(w)' = Used(w)
  BY SMT DEF Used

(* Every step of idle training is a step of DeviceUse, or none.            *)
LEMMA StepIsUse ==
  ASSUME LeaseInv, LeaseInv', [Next]_vars
  PROVE  [Use!Next]_[w \in Workers |-> Used(w)]
<1>. DEFINE u == [w \in Workers |-> Used(w)]
<1>0. /\ TypeOK /\ RolloutLeases /\ PlanPhases /\ TrainingLeases
      /\ \A w \in Workers : ReplicaOf[w] \in Replicas
  BY ReplicasAssumption DEF LeaseInv
<1>1. ASSUME \A w \in Workers : /\ stage'[ReplicaOf[w]] = "serving" <=> stage[ReplicaOf[w]] = "serving"
                                /\ work'[w] \in OnDevice <=> work[w] \in OnDevice,
             phase' = "update" <=> phase = "update"
      PROVE  u' = u
  BY <1>1, UsedStays
<1>2. ASSUME NEW D \in SUBSET Workers, NEW purpose \in {"serving", "training"},
             \A w \in D : Used(w) = {} /\ Used(w)' = {purpose},
             \A w \in Workers \ D : Used(w)' = Used(w)
      PROVE  Use!Next
  <2>1. Use!Take(D, purpose)
    BY <1>2 DEF Use!Take
  <2>. QED BY <2>1 DEF Use!Next, Use!Purposes
<1>3. ASSUME NEW D \in SUBSET Workers,
             \A w \in D : Used(w)' = {},
             \A w \in Workers \ D : Used(w)' = Used(w)
      PROVE  Use!Next
  <2>1. Use!Give(D)
    BY <1>3 DEF Use!Give
  <2>. QED BY <2>1 DEF Use!Next
<1>4. CASE UNCHANGED <<stage, work, phase>>
  BY <1>1, <1>4, Zenon
<1>5. ASSUME NEW r \in Replicas, UNCHANGED <<work, phase>>,
             stage' = [stage EXCEPT ![r] = "serving"], stage[r] = "granted"
      PROVE  Use!Next
  <2>1. \A w \in Group(r) : Used(w) = {} /\ Used(w)' = {"serving"}
    <3>. SUFFICES ASSUME NEW w \in Group(r)
                  PROVE  Used(w) = {} /\ Used(w)' = {"serving"}
      OBVIOUS
    <3>1. w \in Workers /\ ReplicaOf[w] = r
      BY DEF Group
    <3>2. stage[r] \in Serving /\ stage[r] # "free" /\ stage[r] # "serving"
      BY <1>5, SMT DEF Serving
    <3>3. work[w] = "none" /\ phase # "update"
      BY <3>1, <3>2, UsedApart
    <3>4. work[w] \notin OnDevice
      BY <3>3, SMT DEF OnDevice, Training
    <3>5. stage'[r] = "serving"
      BY <1>0, <1>5, SMT DEF TypeOK, ServersTypeOK
    <3>. QED BY <1>5, <3>1, <3>2, <3>3, <3>4, <3>5, UsedBy, SMT DEF Used
  <2>2. ASSUME NEW w \in Workers \ Group(r) PROVE Used(w)' = Used(w)
    <3>1. stage'[ReplicaOf[w]] = stage[ReplicaOf[w]]
      BY <1>0, <1>5, SMT DEF TypeOK, ServersTypeOK, Group
    <3>. QED BY <1>5, <3>1, UsedStays
  <2>3. Group(r) \subseteq Workers
    BY DEF Group
  <2>. QED BY <1>2, <2>1, <2>2, <2>3
<1>6. ASSUME NEW r \in Replicas, Finish(r)
      PROVE  Use!Next \/ u' = u
  <2>1. UNCHANGED <<work, phase>> /\ stage[r] = "serving"
    BY <1>6, Zenon DEF Finish, workerVars, driverVars
  <2>2. CASE stage' = stage
    BY <1>4, <2>1, <2>2
  <2>3. CASE stage' = [stage EXCEPT ![r] = "releasing"]
    <3>1. ASSUME NEW w \in Group(r) PROVE Used(w)' = {}
      <4>1. w \in Workers /\ ReplicaOf[w] = r
        BY DEF Group
      <4>2. stage[r] \in Serving /\ stage[r] # "free"
        BY <2>1, SMT DEF Serving
      <4>3. work[w] = "none" /\ phase # "update"
        BY <4>1, <4>2, UsedApart
      <4>4. work[w] \notin OnDevice
        BY <4>3, SMT DEF OnDevice, Training
      <4>5. stage'[r] # "serving"
        BY <1>0, <2>3, SMT DEF TypeOK, ServersTypeOK
      <4>. QED BY <2>1, <4>1, <4>3, <4>4, <4>5, SMT DEF Used
    <3>2. ASSUME NEW w \in Workers \ Group(r) PROVE Used(w)' = Used(w)
      <4>1. stage'[ReplicaOf[w]] = stage[ReplicaOf[w]]
        BY <1>0, <2>3, SMT DEF TypeOK, ServersTypeOK, Group
      <4>. QED BY <2>1, <4>1, UsedStays
    <3>3. Group(r) \subseteq Workers
      BY DEF Group
    <3>. QED BY <1>3, <3>1, <3>2, <3>3
  <2>. QED BY <1>6, <2>2, <2>3, Zenon DEF Finish
<1>7. ASSUME NEW r \in Replicas, \/ Request(r) \/ Join(r) \/ Blocked(r) \/ Granted(r)
                                \/ GiveUp(r) \/ Released(r) \/ Interrupt(r) \/ LateCall(r)
      PROVE  u' = u
  <2>1. UNCHANGED <<work, phase>>
    BY <1>7, Zenon DEF Request, Join, Blocked, Granted, GiveUp, Released, Interrupt,
       LateCall, workerVars, driverVars
  <2>2. \/ UNCHANGED stage
        \/ /\ stage[r] \in {"free", "acquiring", "granted", "releasing"}
           /\ \E s \in {"free", "acquiring", "granted"} : stage' = [stage EXCEPT ![r] = s]
    BY <1>7, Zenon DEF Request, Join, Blocked, Granted, GiveUp, Released, Interrupt,
       LateCall, serverVars
  <2>3. \A q \in Replicas : stage'[q] = "serving" <=> stage[q] = "serving"
    BY <1>0, <2>2, SMT DEF TypeOK, ServersTypeOK
  <2>. QED BY <1>0, <1>1, <2>1, <2>3, Zenon
<1>8. ASSUME NEW w \in Workers, Answer(w) \/ WatcherThread(w)
      PROVE  Use!Next \/ u' = u
  <2>1. UNCHANGED <<stage, phase>>
    BY <1>8, PartsChanged, Zenon DEF Answer, WatcherThread, Prepare, Decline, NotReady,
       PreflightRaises, AbortPreflight, LoseGroup, CleanUp, Watch, Receive, Stays,
       serverVars, driverVars
  <2>2. \/ UNCHANGED work
        \/ work[w] = "asked" /\ \E s \in {"prepared", "unready"} : work' = [work EXCEPT ![w] = s]
        \/ work[w] = "asked" /\ \E s \in {"declined", "raised"} : work' = [work EXCEPT ![w] = s]
        \/ work[w] = "control" /\ work' = [work EXCEPT ![w] = "broken"]
        \/ work[w] \in {"aborting", "cleanup", "broken"} /\
             \E s \in {"declined", "done", "raised"} : work' = [work EXCEPT ![w] = s]
    <3>1. CASE Prepare(w) \/ Decline(w) \/ NotReady(w) \/ PreflightRaises(w)
      BY <3>1, Zenon DEF Prepare, Decline, NotReady, PreflightRaises
    <3>2. CASE AbortPreflight(w)
      BY <3>2, Zenon DEF AbortPreflight
    <3>3. CASE LoseGroup(w) \/ CleanUp(w)
      BY <3>3, SMT DEF LoseGroup, CleanUp
    <3>4. CASE Watch(w) \/ Receive(w)
      BY <3>4, Zenon DEF Watch, Receive
    <3>. QED BY <1>8, <3>1, <3>2, <3>3, <3>4, Zenon DEF Answer, WatcherThread
  <2>3. ASSUME work' # work
        PROVE  /\ stage[ReplicaOf[w]] # "serving" /\ phase # "update"
               /\ \A v \in Workers \ {w} : Used(v)' = Used(v)
    <3>1. work[w] # "none"
      BY <2>2, <2>3, SMT
    <3>2. stage[ReplicaOf[w]] \notin Serving /\ phase # "update"
      BY <3>1, UsedApart
    <3>3. \A v \in Workers \ {w} : work'[v] = work[v]
      BY <1>0, <2>2, SMT DEF TypeOK, WorkersTypeOK
    <3>4. \A v \in Workers \ {w} : Used(v)' = Used(v)
      BY <2>1, <3>3, UsedStays
    <3>. QED BY <3>2, <3>4, SMT DEF Serving
  <2>4. CASE UNCHANGED work
    BY <1>4, <2>1, <2>4
  <2>5. ASSUME work' # work, work[w] = "asked",
               \E s \in {"prepared", "unready"} : work' = [work EXCEPT ![w] = s]
        PROVE  Use!Next
    <3>1. work[w] \notin OnDevice /\ work'[w] \in OnDevice
      BY <1>0, <2>5, SMT DEF TypeOK, WorkersTypeOK, OnDevice, Training
    <3>2. Used(w) = {} /\ Used(w)' = {"training"}
      BY <2>1, <2>3, <2>5, <3>1, SMT DEF Used
    <3>3. {w} \in SUBSET Workers /\ "training" \in {"serving", "training"}
      OBVIOUS
    <3>4. \A v \in {w} : Used(v) = {} /\ Used(v)' = {"training"}
      BY <3>2
    <3>. QED BY <1>2, <2>3, <2>5, <3>3, <3>4
  <2>6. ASSUME work' # work, work'[w] \notin OnDevice
        PROVE  Use!Next
    <3>1. Used(w)' = {}
      BY <2>1, <2>3, <2>6, SMT DEF Used
    <3>. QED BY <1>3, <2>3, <2>6, <3>1, Zenon
  <2>7. ASSUME work' # work, work[w] = "control", work' = [work EXCEPT ![w] = "broken"]
        PROVE  u' = u
    <3>1. \A v \in Workers : work'[v] \in OnDevice <=> work[v] \in OnDevice
      BY <1>0, <2>7, SMT DEF TypeOK, WorkersTypeOK, OnDevice, Training
    <3>. QED BY <1>1, <2>1, <3>1, Zenon
  <2>8. ASSUME \E s \in {"declined", "raised", "done"} : work' = [work EXCEPT ![w] = s]
        PROVE  work'[w] \notin OnDevice
    BY <1>0, <2>8, SMT DEF TypeOK, WorkersTypeOK, OnDevice, Training
  <2>. QED BY <2>2, <2>4, <2>5, <2>6, <2>7, <2>8, Zenon
<1>9. CASE Optimize
  <2>1. UNCHANGED <<stage, phase>>
    BY <1>9, Zenon DEF Optimize, Agree, Step, Stays, serverVars, driverVars
  <2>2. \A w \in Workers : work'[w] \in OnDevice <=> work[w] \in OnDevice
    <3>1. CASE Agree
      BY <3>1, SMT DEF Agree, OnDevice, Training
    <3>2. CASE Step
      BY <3>2, StepEffect, SMT DEF OnDevice, Training
    <3>. QED BY <1>9, <3>1, <3>2 DEF Optimize
  <2>. QED BY <1>1, <2>1, <2>2, Zenon
<1>10. CASE \/ ObserveStarted \/ ObserveIdle \/ Launch \/ NotReserved \/ Boundary \/ EndRollout
            \/ Die
  <2>1. UNCHANGED <<stage, work>>
    BY <1>10, Zenon DEF ObserveStarted, ObserveIdle, Launch, NotReserved, Boundary, EndRollout,
       Die, serverVars, workerVars
  <2>2. phase' = "update" <=> phase = "update"
    BY <1>10, SMT DEF ObserveStarted, ObserveIdle, Launch, NotReserved, Boundary, EndRollout,
       Die
  <2>. QED BY <1>1, <2>1, <2>2, Zenon
<1>11. CASE Reserve \/ Submit
  <2>1. UNCHANGED <<stage, phase>>
    BY <1>11, Zenon DEF Reserve, Submit, serverVars
  <2>2. CASE Reserve
    <3>1. \A w \in Workers : work[w] = "none"
      BY <1>0, <2>2, SMT DEF Reserve, PlanPhases
    <3>2. \A w \in Workers : work'[w] \notin OnDevice /\ work[w] \notin OnDevice
      BY <2>2, <3>1, SMT DEF Reserve, OnDevice, Training
    <3>. QED BY <1>1, <2>1, <3>2, Zenon
  <2>3. CASE Submit
    <3>1. \A w \in Workers : work'[w] \in OnDevice <=> work[w] \in OnDevice
      BY <2>3, SMT DEF Submit, OnDevice, Training
    <3>. QED BY <1>1, <2>1, <3>1, Zenon
  <2>. QED BY <1>11, <2>2, <2>3
<1>12. CASE Aborted \/ Complete \/ Wait
  <2>1. UNCHANGED <<stage, phase>>
    BY <1>12, Zenon DEF Aborted, Complete, Wait, serverVars
  <2>2. Rested
    BY <1>12, Zenon DEF Aborted, Complete, Wait
  <2>3. \A w \in Team : work[w] \notin OnDevice
    <3>1. CASE Aborted
      BY <1>0, <3>1, TeamAssumption, SMT DEF Aborted, PlanPhases, OnDevice, Training
    <3>2. CASE Complete \/ Wait
      <4>1. AllAnswered
        BY <3>2, Zenon DEF Complete, Wait
      <4>. QED BY <4>1, SMT DEF AllAnswered, Answered, OnDevice, Training
    <3>. QED BY <1>12, <3>1, <3>2
  <2>4. \A w \in Workers : work'[w] \in OnDevice <=> work[w] \in OnDevice
    BY <2>2, <2>3, SMT DEF Rested, OnDevice, Training
  <2>. QED BY <1>1, <2>1, <2>4, Zenon
<1>13. CASE Abort
  <2>1. UNCHANGED <<stage, phase>>
    BY <1>13, Zenon DEF Abort, serverVars
  <2>2. /\ loop = "preflight"
        /\ work' = [w \in Workers |-> IF w \notin Team THEN work[w]
                     ELSE IF LeftPrepared(w) THEN "aborting" ELSE "declined"]
        /\ \A w \in Team : work[w] # "asked"
    BY <1>13, Zenon DEF Abort
  <2>. DEFINE D == {w \in Team : work[w] = "raised" /\ w \in residue}
  <2>3. D \subseteq Workers
    BY TeamAssumption
  <2>4. \A w \in D : Used(w) = {} /\ Used(w)' = {"training"}
    <3>. SUFFICES ASSUME NEW w \in D PROVE Used(w) = {} /\ Used(w)' = {"training"}
      OBVIOUS
    <3>1. w \in Workers /\ w \in Team /\ work[w] = "raised" /\ w \in residue
      BY <2>3
    <3>2. stage[ReplicaOf[w]] \notin Serving /\ phase # "update"
      BY <3>1, UsedApart
    <3>3. work[w] \notin OnDevice /\ work'[w] \in OnDevice
      BY <2>2, <3>1, SMT DEF LeftPrepared, OnDevice, Training
    <3>. QED BY <2>1, <3>1, <3>2, <3>3, SMT DEF Used, Serving
  <2>5. \A w \in Workers \ D : Used(w)' = Used(w)
    <3>. SUFFICES ASSUME NEW w \in Workers \ D PROVE Used(w)' = Used(w)
      OBVIOUS
    <3>1. w \in Team => work[w] \in Launching
      BY <1>0, <2>2, SMT DEF PlanPhases
    <3>2. work'[w] \in OnDevice <=> work[w] \in OnDevice
      BY <2>2, <3>1, SMT DEF Launching, LeftPrepared, OnDevice, Training
    <3>. QED BY <2>1, <3>2, UsedStays
  <2>6. "training" \in {"serving", "training"}
    OBVIOUS
  <2>. HIDE DEF D
  <2>. QED BY <1>2, <2>3, <2>4, <2>5, <2>6
<1>14. CASE Update
  <2>1. /\ phase = "boundary" /\ status # "running" /\ phase' = "update"
        /\ UNCHANGED <<stage, work>>
    BY <1>14, Zenon DEF Update, serverVars
  <2>2. \A w \in Workers : Used(w) = {} /\ Used(w)' = {"updating"}
    <3>. SUFFICES ASSUME NEW w \in Workers PROVE Used(w) = {} /\ Used(w)' = {"updating"}
      OBVIOUS
    <3>1. stage[ReplicaOf[w]] = "free" /\ work[w] = "none"
      BY <2>1, UsedApart
    <3>2. work[w] \notin OnDevice
      BY <3>1, SMT DEF OnDevice, Training
    <3>. QED BY <2>1, <3>1, <3>2, SMT DEF Used
  <2>3. Use!Take(Workers, "updating")
    BY <2>2 DEF Use!Take
  <2>. QED BY <2>3 DEF Use!Next, Use!Purposes
<1>15. CASE NextRollout
  <2>1. phase = "update" /\ phase' = "rollout" /\ UNCHANGED <<stage, work>>
    BY <1>15, Zenon DEF NextRollout, serverVars, workerVars
  <2>2. \A w \in Workers : Used(w)' = {}
    <3>. SUFFICES ASSUME NEW w \in Workers PROVE Used(w)' = {}
      OBVIOUS
    <3>1. stage[ReplicaOf[w]] = "free" /\ work[w] = "none"
      BY <2>1, UsedApart
    <3>2. work[w] \notin OnDevice
      BY <3>1, SMT DEF OnDevice, Training
    <3>. QED BY <2>1, <3>1, <3>2, SMT DEF Used
  <2>3. Workers \in SUBSET Workers /\ \A w \in Workers \ Workers : Used(w)' = Used(w)
    OBVIOUS
  <2>. QED BY <1>3, <2>2, <2>3
<1>16. ASSUME NEW r \in Replicas, Enter(r) PROVE Use!Next
  <2>1. /\ UNCHANGED <<work, phase>> /\ stage[r] = "granted"
        /\ stage' = [stage EXCEPT ![r] = "serving"]
    BY <1>16, Zenon DEF Enter, workerVars, driverVars
  <2>. QED BY <1>5, <2>1
<1>17. CASE UNCHANGED vars
  BY <1>4, <1>17, Zenon DEF vars, serverVars, driverVars, workerVars
<1>. QED BY <1>6, <1>7, <1>8, <1>9, <1>10, <1>11, <1>12, <1>13, <1>14, <1>15, <1>16, <1>17,
            Zenon
     DEF Next, Serve, EventLoop, MainThread

(* The three uses of a device exclude each other, and the update takes all *)
(* devices at once.                                                        *)
THEOREM ImplementsDeviceUse == Spec => UseSpec
<1>1. Init => Use!Init
  <2>. SUFFICES ASSUME Init, NEW w \in Workers PROVE Used(w) = {}
    BY DEF Use!Init
  <2>1. stage[ReplicaOf[w]] # "serving"
    BY ReplicasAssumption, SMT DEF Init
  <2>. QED BY <2>1, SMT DEF Init, Used, OnDevice, Training
<1>2. LeaseInv /\ LeaseInv' /\ [Next]_vars => [Use!Next]_[w \in Workers |-> Used(w)]
  BY StepIsUse
<1>. QED BY LeasesAgree, <1>1, <1>2, PTL DEF Spec, UseSpec, Use!Spec


-----------------------------------------------------------------------------
(* The news of a replica *)

(* An event that is added is the last news of its replica, and no news of  *)
(* another.                                                                *)
LEMMA NewsAdded ==
  ASSUME TypeOK, NEW r \in Replicas, NEW e \in Event, events' = Append(events, e)
  PROVE  /\ e = Started(r) => StartedLast(r)' /\ About(r)' # {}
         /\ e.replica # r => /\ About(r)' = About(r)
                             /\ StartedLast(r) => StartedLast(r)'
<1>1. events \in Seq(Event)
  BY DEF TypeOK, BusTypeOK
<1>2. /\ Len(events) \in Nat
      /\ DOMAIN events = 1..Len(events)
      /\ DOMAIN events' = 1..(Len(events) + 1)
      /\ \A i \in 1..Len(events) : events'[i] = events[i]
      /\ events'[Len(events) + 1] = e
  BY <1>1, SMT
<1>3. ASSUME e = Started(r) PROVE StartedLast(r)' /\ About(r)' # {}
  <2>1. Len(events) + 1 \in About(r)' /\ events'[Len(events) + 1].type = "started"
    BY <1>2, <1>3, SMT DEF About, Started
  <2>2. \A j \in About(r)' : j <= Len(events) + 1
    BY <1>2, SMT DEF About
  <2>. QED BY <2>1, <2>2 DEF StartedLast
<1>4. ASSUME e.replica # r
      PROVE  About(r)' = About(r) /\ (StartedLast(r) => StartedLast(r)')
  <2>1. About(r)' = About(r)
    BY <1>2, <1>4, SMT DEF About
  <2>2. \A i \in About(r) : events'[i] = events[i]
    BY <1>2, SMT DEF About
  <2>. QED BY <2>1, <2>2, Zenon DEF StartedLast
<1>. QED BY <1>3, <1>4

(* Draining an event leaves the later news of every replica as they are,   *)
(* one place nearer.                                                       *)
LEMMA NewsDrained ==
  ASSUME TypeOK, NEW r \in Replicas, events # <<>>, events' = Tail(events)
  PROVE  /\ About(r) = {} => About(r)' = {}
         /\ StartedLast(r) => About(r)' = {} \/ StartedLast(r)'
         /\ StartedLast(r) /\ About(r)' = {} => /\ Head(events).replica = r
                                                /\ Head(events).type = "started"
<1>1. events \in Seq(Event)
  BY DEF TypeOK, BusTypeOK
<1>2. /\ Len(events) \in Nat \ {0}
      /\ DOMAIN events = 1..Len(events)
      /\ DOMAIN events' = 1..(Len(events) - 1)
      /\ \A i \in 1..(Len(events) - 1) : events'[i] = events[i + 1]
      /\ Head(events) = events[1]
  BY <1>1, SMT
<1>3. \A i \in Nat : i + 1 \in About(r) /\ i # 0 <=> i \in About(r)'
  BY <1>2, SMT DEF About
<1>4. About(r) = {} => About(r)' = {}
  BY <1>2, SMT DEF About
<1>5. ASSUME StartedLast(r)
      PROVE  \/ StartedLast(r)'
             \/ /\ About(r)' = {}
                /\ Head(events).replica = r /\ Head(events).type = "started"
  <2>1. PICK i \in About(r) : events[i].type = "started" /\ \A j \in About(r) : j <= i
    BY <1>5 DEF StartedLast
  <2>2. i \in 1..Len(events) /\ events[i].replica = r
    BY <1>2, <2>1 DEF About
  <2>3. CASE i = 1
    <3>1. About(r)' = {}
      <4>. SUFFICES ASSUME NEW j \in About(r)' PROVE FALSE
        OBVIOUS
      <4>1. j \in 1..(Len(events) - 1) /\ events'[j].replica = r
        BY <1>2 DEF About
      <4>2. j + 1 \in About(r)
        BY <1>2, <4>1, SMT DEF About
      <4>. QED BY <2>1, <2>3, <4>1, <4>2, SMT
    <3>. QED BY <1>2, <2>1, <2>2, <2>3, <3>1
  <2>4. CASE i # 1
    <3>1. i - 1 \in About(r)' /\ events'[i - 1].type = "started"
      <4>1. i - 1 \in 1..(Len(events) - 1) /\ i - 1 + 1 = i
        BY <1>2, <2>2, <2>4, SMT
      <4>2. events'[i - 1] = events[i]
        BY <1>2, <4>1
      <4>. QED BY <1>2, <2>1, <2>2, <4>1, <4>2 DEF About
    <3>2. ASSUME NEW j \in About(r)' PROVE j <= i - 1
      <4>1. j \in 1..(Len(events) - 1) /\ events'[j].replica = r
        BY <1>2 DEF About
      <4>2. j + 1 \in About(r)
        BY <1>2, <4>1, SMT DEF About
      <4>. QED BY <1>2, <2>1, <2>2, <4>1, <4>2, SMT
    <3>. QED BY <3>1, <3>2 DEF StartedLast
  <2>. QED BY <2>3, <2>4
<1>6. StartedLast(r)' => About(r)' # {}
  BY DEF StartedLast
<1>. QED BY <1>4, <1>5, <1>6

(* A call of one replica announces it when it becomes busy, and no other.  *)
LEMMA NewsOfCalls ==
  ASSUME TypeOK, RolloutLeases, RolloutLeases', BusTypeOK', BusyIsAnnounced, UNCHANGED view,
         NEW q \in Replicas, NEW verify \in BOOLEAN,
         \/ BlockRollout(q) \/ GrantRollout(q) \/ CancelRolloutWait(q)
         \/ requests[q] = "owned" /\ ReleaseRollout(q, verify)
  PROVE  BusyIsAnnounced'
<1>. SUFFICES ASSUME NEW r \in Replicas, Busy(r)' PROVE Announced(r)'
  BY DEF BusyIsAnnounced
<1>1. Started(q) \in Event /\ Idle(q, TRUE) \in Event /\ Idle(q, verify) \in Event
      /\ Started(q).replica = q /\ Idle(q, TRUE).replica = q /\ Idle(q, verify).replica = q
  BY SMT DEF Started, Idle, Event
<1>2. \/ events' = events
      \/ \E e \in Event : e.replica = q /\ events' = Append(events, e)
  BY <1>1, Zenon DEF BlockRollout, GrantRollout, CancelRolloutWait, ReleaseRollout
<1>3. CASE r # q
  <2>1. Busy(r)
    <3>1. r \in pendingGroups' => r \in pendingGroups
      <4>1. \/ pendingGroups' = pendingGroups
            \/ pendingGroups' = pendingGroups \union {q}
            \/ pendingGroups' = pendingGroups \ {q}
        BY Zenon DEF BlockRollout, GrantRollout, CancelRolloutWait, ReleaseRollout
      <4>. QED BY <1>3, <4>1
    <3>2. \A w \in Group(r) : rolloutOwners'[w] = rolloutOwners[w]
      <4>1. \A w \in Group(r) : w \in Workers /\ w \notin Group(q)
        BY <1>3 DEF Group
      <4>2. \/ rolloutOwners' = rolloutOwners \/ rolloutOwners' = Shared(q)
            \/ rolloutOwners' = Returned(q)
        BY Zenon DEF BlockRollout, GrantRollout, CancelRolloutWait, ReleaseRollout
      <4>. QED BY <4>1, <4>2, SMT DEF Shared, Returned
    <3>. QED BY <3>1, <3>2, Zenon DEF Busy, Serves
  <2>2. Announced(r)
    BY <2>1 DEF BusyIsAnnounced
  <2>3. CASE events' = events
    BY <2>2, <2>3, Zenon DEF Announced, StartedLast, About
  <2>4. ASSUME NEW e \in Event, e.replica = q, events' = Append(events, e)
        PROVE  Announced(r)'
    <3>1. About(r)' = About(r) /\ (StartedLast(r) => StartedLast(r)')
      BY <1>3, <2>4, NewsAdded
    <3>. QED BY <2>2, <3>1, Zenon DEF Announced
  <2>. QED BY <1>2, <2>3, <2>4
<1>4. CASE r = q
  <2>1. CASE BlockRollout(q) \/ GrantRollout(q)
    <3>1. CASE events' = Append(events, Started(q))
      BY <1>1, <1>4, <3>1, NewsAdded, Zenon DEF Announced
    <3>2. CASE events' = events /\ Busy(q)
      <4>1. Announced(r)
        BY <1>4, <3>2 DEF BusyIsAnnounced
      <4>. QED BY <3>2, <4>1, Zenon DEF Announced, StartedLast, About
    <3>. QED BY <2>1, <3>1, <3>2, Zenon DEF BlockRollout, GrantRollout, Busy
  <2>2. CASE \/ CancelRolloutWait(q)
             \/ requests[q] = "owned" /\ ReleaseRollout(q, verify)
    <3>1. requests'[q] = "none"
      <4>1. requests' = [requests EXCEPT ![q] = "none"]
        BY <2>2, Zenon DEF CancelRolloutWait, ReleaseRollout
      <4>. QED BY <4>1 DEF TypeOK, BusTypeOK
    <3>2. q \notin pendingGroups' /\ \A w \in Group(q) : rolloutOwners'[w] = 0
      BY <3>1, SMT DEF RolloutLeases
    <3>. QED BY <1>4, <3>2, SMT DEF Busy, Serves
  <2>. QED BY <2>1, <2>2
<1>. QED BY <1>3, <1>4


(* A replica that serves, or waits to, is not taken for idle: the event    *)
(* that says it started is the last one about it, or was the last drained. *)
THEOREM BusyAreAnnounced == Spec => []BusyIsAnnounced
<1>1. Init => BusyIsAnnounced
  <2>. SUFFICES ASSUME Init, NEW r \in Replicas PROVE Announced(r)
    BY DEF BusyIsAnnounced
  <2>1. About(r) = {}
    BY SMT DEF Init, BusInit, About
  <2>2. ASSUME NEW w \in Group(r) PROVE view[w] # "idle"
    <3>1. w \in Workers /\ view = [v \in Workers |-> "generating"]
      BY Zenon DEF Init, Group
    <3>2. view[w] = "generating"
      BY <3>1
    <3>. QED BY <3>2
  <2>. QED BY <2>1, <2>2 DEF Announced
<1>2. ASSUME LeaseInv, LeaseInv', BusyIsAnnounced, [Next]_vars
      PROVE  BusyIsAnnounced'
  <2>. TypeOK /\ TypeOK' /\ RolloutLeases /\ RolloutLeases'
    BY <1>2 DEF LeaseInv
  <2>1. ASSUME UNCHANGED <<rolloutOwners, pendingGroups, events>>,
               \A w \in Workers : view'[w] = "idle" => view[w] = "idle"
        PROVE  BusyIsAnnounced'
    <3>. SUFFICES ASSUME NEW r \in Replicas, Busy(r)' PROVE Announced(r)'
      BY DEF BusyIsAnnounced
    <3>1. Announced(r)
      BY <1>2, <2>1, Zenon DEF BusyIsAnnounced, Busy, Serves
    <3>2. About(r)' = About(r) /\ (StartedLast(r) => StartedLast(r)')
      BY <2>1, Zenon DEF About, StartedLast
    <3>. QED BY <2>1, <3>1, <3>2, SMT DEF Announced, Group
  <2>2. CASE UNCHANGED <<busVars, driverVars>>
    BY <2>1, <2>2, Zenon DEF busVars, driverVars
  <2>3. ASSUME NEW r \in Replicas,
               Serve(r) \/ Request(r) \/ Join(r) \/ GiveUp(r) \/ Interrupt(r)
        PROVE  BusyIsAnnounced'
    <3>1. UNCHANGED driverVars /\ verified[r] \in BOOLEAN
      BY <2>3, PartsChanged, SMT DEF Next, TypeOK, ServersTypeOK
    <3>2. stage[r] = "releasing" \/ late[r] = "release" => requests[r] = "owned"
      BY SMT DEF RolloutLeases, Serving
    <3>3. \/ UNCHANGED busVars
          \/ BlockRollout(r) \/ GrantRollout(r) \/ CancelRolloutWait(r)
          \/ requests[r] = "owned" /\ ReleaseRollout(r, verified[r])
      BY <2>3, <3>2, Zenon DEF Serve, Request, Join, GiveUp, Interrupt, Blocked, Granted,
         Enter, Finish, Released, LateCall
    <3>. QED BY <1>2, <2>2, <3>1, <3>3, NewsOfCalls, Zenon DEF TypeOK, driverVars
  <2>4. ASSUME ObserveStarted \/ ObserveIdle PROVE BusyIsAnnounced'
    <3>. SUFFICES ASSUME NEW r \in Replicas, Busy(r)' PROVE Announced(r)'
      BY DEF BusyIsAnnounced
    <3>. DEFINE q == Head(events).replica
    <3>1. events # <<>> /\ events' = Tail(events)
          /\ UNCHANGED <<rolloutOwners, pendingGroups>>
      BY <2>4, Zenon DEF ObserveStarted, ObserveIdle
    <3>2. Announced(r)
      BY <1>2, <3>1, Zenon DEF BusyIsAnnounced, Busy, Serves
    <3>3. CASE StartedLast(r)
      <4>1. CASE StartedLast(r)'
        <5>1. About(r)' # {}
          BY <4>1 DEF StartedLast
        <5>. QED BY <4>1, <5>1 DEF Announced
      <4>2. CASE About(r)' = {}
        <5>1. q = r /\ Head(events).type = "started"
          BY <3>1, <3>3, <4>2, NewsDrained
        <5>2. ObserveStarted
          BY <2>4, <5>1 DEF ObserveIdle
        <5>3. \A w \in Group(r) : view'[w] # "idle"
          <6>1. \/ view' = [w \in Workers |-> IF w \in Team THEN "reclaiming"
                                               ELSE Seen(r, "generating")[w]]
                \/ view' = Seen(r, "generating")
            BY <5>1, <5>2, Zenon DEF ObserveStarted
          <6>. QED BY <6>1, SMT DEF Seen, Group
        <5>. QED BY <4>2, <5>3 DEF Announced
      <4>. QED BY <3>1, <3>3, <4>1, <4>2, NewsDrained
    <3>4. CASE ~StartedLast(r)
      <4>1. About(r) = {} /\ \A w \in Group(r) : view[w] # "idle"
        BY <3>2, <3>4 DEF Announced
      <4>2. About(r)' = {}
        BY <3>1, <4>1, NewsDrained
      <4>3. events \in Seq(Event)
        BY DEF TypeOK, BusTypeOK
      <4>4. 1 \in DOMAIN events /\ Head(events) = events[1] /\ q \in Replicas
        <5>1. Len(events) \in Nat \ {0} /\ DOMAIN events = 1..Len(events)
          BY <3>1, <4>3, SMT
        <5>2. Head(events) = events[1] /\ events[1] \in Event
          BY <4>3, <5>1, SMT
        <5>. QED BY <5>1, <5>2, SMT DEF Event
      <4>5. q # r
        BY <4>1, <4>4, Zenon DEF About
      <4>6. \/ view' = [w \in Workers |-> IF w \in Team THEN "reclaiming"
                                           ELSE Seen(q, "generating")[w]]
            \/ view' = Seen(q, "generating") \/ view' = Seen(q, "idle")
        BY <2>4, Zenon DEF ObserveStarted, ObserveIdle
      <4>7. \A w \in Group(r) : w \in Workers /\ w \notin Group(q)
        BY <4>5 DEF Group
      <4>8. \A w \in Group(r) : view'[w] # "idle"
        BY <4>1, <4>6, <4>7, SMT DEF Seen
      <4>. QED BY <4>2, <4>8 DEF Announced
    <3>. QED BY <3>3, <3>4
  <2>5. CASE \/ Launch \/ Reserve \/ NotReserved \/ Submit \/ Abort \/ Aborted \/ Complete
             \/ Wait \/ Die \/ Update \/ EndRollout
    <3>1. UNCHANGED <<rolloutOwners, pendingGroups, events, view>>
      BY <2>5, Zenon DEF Launch, Reserve, NotReserved, Submit, Abort, Aborted, Complete,
         Wait, Die, Update, EndRollout, ReserveTraining, RejectTraining, ReleaseTraining,
         busVars
    <3>. QED BY <2>1, <3>1, Zenon
  <2>6. CASE Boundary
    <3>1. UNCHANGED <<rolloutOwners, pendingGroups, events>>
          /\ (view' = Reclaiming \/ view' = view)
      BY <2>6, Zenon DEF Boundary
    <3>. QED BY <2>1, <3>1, SMT DEF Reclaiming
  <2>7. CASE NextRollout
    <3>1. UNCHANGED <<rolloutOwners, pendingGroups, events>>
          /\ view' = [w \in Workers |-> "generating"]
      BY <2>7, Zenon DEF NextRollout, busVars
    <3>. QED BY <2>1, <3>1, SMT
  <2>8. ASSUME NEW w \in Workers, Answer(w) \/ WatcherThread(w) PROVE BusyIsAnnounced'
    BY <2>2, <2>8, PartsChanged, Zenon DEF Next
  <2>9. CASE Optimize
    BY <2>2, <2>9, PartsChanged, Zenon DEF Next
  <2>10. CASE UNCHANGED vars
    BY <2>2, <2>10, Zenon DEF vars
  <2>. QED BY <1>2, <2>3, <2>4, <2>5, <2>6, <2>7, <2>8, <2>9, <2>10, Zenon
       DEF Next, EventLoop, MainThread
<1>. QED BY LeasesAgree, <1>1, <1>2, PTL DEF Spec


-----------------------------------------------------------------------------
(* A replica waits only for plans that were asked to stop                  *)

(* A rollout call keeps every plan that a replica waits for reclaimed.     *)
LEMMA CallsReclaim ==
  ASSUME WaitersReclaim, NEW q \in Replicas, NEW verify \in BOOLEAN,
         \/ BlockRollout(q) \/ GrantRollout(q) \/ CancelRolloutWait(q)
         \/ ReleaseRollout(q, verify)
  PROVE  WaitersReclaim'
<1>2. trainingOwners' = trainingOwners
  BY Zenon DEF BlockRollout, GrantRollout, CancelRolloutWait, ReleaseRollout
<1>. SUFFICES ASSUME NEW r \in pendingGroups' PROVE PlansOn(Group(r))' \subseteq reclaims'
  BY DEF WaitersReclaim
<1>4. CASE BlockRollout(q)
  <2>1. /\ reclaims' = Live(reclaims) \union PlansOn(Group(q))
        /\ pendingGroups' = pendingGroups \union {q}
    BY <1>4, Zenon DEF BlockRollout
  <2>2. PlansOn(Group(r))' = PlansOn(Group(r))
    BY <1>2, Zenon DEF PlansOn
  <2>3. PlansOn(Group(r)) \subseteq PlansOn(Workers)
    BY Zenon DEF PlansOn, Group
  <2>. QED BY <2>1, <2>2, <2>3, SMT DEF WaitersReclaim, Live
<1>5. CASE GrantRollout(q)
  <2>1. reclaims' = Live(reclaims) /\ pendingGroups' = pendingGroups \ {q}
    BY <1>5, Zenon DEF GrantRollout
  <2>2. PlansOn(Group(r))' = PlansOn(Group(r))
    BY <1>2, Zenon DEF PlansOn
  <2>3. PlansOn(Group(r)) \subseteq PlansOn(Workers)
    BY Zenon DEF PlansOn, Group
  <2>. QED BY <2>1, <2>2, <2>3, SMT DEF WaitersReclaim, Live
<1>6. CASE CancelRolloutWait(q) \/ ReleaseRollout(q, verify)
  <2>1. ReclaimFinishedOverlap /\ pendingGroups' \subseteq pendingGroups
    BY <1>6, Zenon DEF CancelRolloutWait, ReleaseRollout
  <2>2. reclaims \subseteq reclaims'
    BY <2>1, SMT DEF ReclaimFinishedOverlap
  <2>3. PlansOn(Group(r))' = PlansOn(Group(r))
    BY <1>2, Zenon DEF PlansOn
  <2>. QED BY <2>1, <2>2, <2>3, SMT DEF WaitersReclaim
<1>. QED BY <1>4, <1>5, <1>6

(* A replica that waits is never forgotten: every plan on its devices has  *)
(* been asked to stop, and no new one is admitted to them while it waits.  *)
THEOREM WaitersAreHeard == Spec => []WaitersReclaim
<1>1. Init => WaitersReclaim
  BY Zenon DEF Init, BusInit, WaitersReclaim
<1>2. ASSUME LeaseInv, WaitersReclaim, [Next]_vars
      PROVE  WaitersReclaim'
  <2>. TypeOK
    BY <1>2 DEF LeaseInv
  <2>1. ASSUME UNCHANGED pendingGroups, UNCHANGED trainingOwners, reclaims \subseteq reclaims'
        PROVE  WaitersReclaim'
    <3>1. \A r : PlansOn(Group(r))' = PlansOn(Group(r))
      BY <2>1, Zenon DEF PlansOn
    <3>. QED BY <1>2, <2>1, <3>1, SMT DEF WaitersReclaim
  <2>2. CASE UNCHANGED busVars
    BY <2>1, <2>2 DEF busVars
  <2>3. ASSUME NEW r \in Replicas,
               Serve(r) \/ Request(r) \/ Join(r) \/ GiveUp(r) \/ Interrupt(r)
        PROVE  WaitersReclaim'
    <3>1. verified[r] \in BOOLEAN
      BY SMT DEF TypeOK, ServersTypeOK
    <3>2. \/ UNCHANGED busVars
          \/ BlockRollout(r) \/ GrantRollout(r) \/ CancelRolloutWait(r)
          \/ ReleaseRollout(r, verified[r])
      BY <2>3, Zenon DEF Serve, Request, Join, GiveUp, Interrupt, Blocked, Granted, Enter,
         Finish, Released, LateCall
    <3>. QED BY <1>2, <2>2, <3>1, <3>2, CallsReclaim, Zenon
  <2>4. CASE ObserveStarted \/ ObserveIdle \/ Boundary
    <3>1. UNCHANGED <<pendingGroups, trainingOwners>>
          /\ (reclaims' = reclaims \/ reclaims' = Reclaimed(Team))
      BY <2>4, Zenon DEF ObserveStarted, ObserveIdle, Boundary
    <3>. QED BY <2>1, <3>1, SMT DEF Reclaimed
  <2>5. CASE Reserve
    <3>1. ReserveTraining(Team, plan)
      BY <2>5 DEF Reserve
    <3>2. /\ trainingOwners' = [w \in Workers |-> IF w \in Team THEN plan ELSE trainingOwners[w]]
          /\ reclaims' = Live(reclaims) /\ pendingGroups' = pendingGroups
          /\ \A w \in Team : ReplicaOf[w] \notin pendingGroups
      BY <3>1, Zenon DEF ReserveTraining, Reservable
    <3>3. ASSUME NEW r \in pendingGroups' PROVE PlansOn(Group(r))' \subseteq reclaims'
      <4>1. \A w \in Group(r) : w \in Workers /\ w \notin Team
        BY <3>2, <3>3 DEF Group
      <4>2. PlansOn(Group(r))' = PlansOn(Group(r))
        <5>1. \A w \in Group(r) : trainingOwners'[w] = trainingOwners[w]
          BY <3>2, <4>1
        <5>. QED BY <5>1, Zenon DEF PlansOn
      <4>3. PlansOn(Group(r)) \subseteq PlansOn(Workers)
        BY Zenon DEF PlansOn, Group
      <4>. QED BY <1>2, <3>2, <3>3, <4>2, <4>3, SMT DEF WaitersReclaim, Live
    <3>. QED BY <3>3 DEF WaitersReclaim
  <2>6. CASE NotReserved
    <3>1. UNCHANGED busVars \/ RejectTraining(Team, plan)
      BY <2>6, Zenon DEF NotReserved
    <3>2. CASE RejectTraining(Team, plan)
      <4>1. /\ reclaims' = Live(reclaims)
            /\ UNCHANGED <<pendingGroups, trainingOwners>>
        BY <3>2, Zenon DEF RejectTraining
      <4>2. ASSUME NEW r \in pendingGroups' PROVE PlansOn(Group(r))' \subseteq reclaims'
        <5>1. PlansOn(Group(r))' = PlansOn(Group(r))
          BY <4>1, Zenon DEF PlansOn
        <5>2. PlansOn(Group(r)) \subseteq PlansOn(Workers)
          BY Zenon DEF PlansOn, Group
        <5>. QED BY <1>2, <4>1, <4>2, <5>1, <5>2, SMT DEF WaitersReclaim, Live
      <4>. QED BY <4>2 DEF WaitersReclaim
    <3>. QED BY <2>2, <3>1, <3>2
  <2>7. CASE Complete \/ Aborted \/ Wait
    <3>1. ReleaseTraining(plan)
      BY <2>7, Zenon DEF Complete, Aborted, Wait
    <3>2. /\ trainingOwners' = [w \in Workers |-> IF trainingOwners[w] = plan THEN 0
                                                  ELSE trainingOwners[w]]
          /\ reclaims' = reclaims \ {plan} /\ pendingGroups' = pendingGroups
      BY <3>1, Zenon DEF ReleaseTraining
    <3>3. ASSUME NEW r \in pendingGroups' PROVE PlansOn(Group(r))' \subseteq reclaims'
      <4>. SUFFICES ASSUME NEW p \in PlansOn(Group(r))' PROVE p \in reclaims'
        OBVIOUS
      <4>1. PICK w \in Group(r) : p = trainingOwners'[w] /\ p # 0
        BY Zenon DEF PlansOn
      <4>2. w \in Workers
        BY <4>1 DEF Group
      <4>3. p = trainingOwners[w] /\ p # plan
        BY <3>2, <4>1, <4>2, SMT
      <4>4. p \in PlansOn(Group(r))
        BY <4>1, <4>3, Zenon DEF PlansOn
      <4>. QED BY <1>2, <3>2, <3>3, <4>3, <4>4 DEF WaitersReclaim
    <3>. QED BY <3>3 DEF WaitersReclaim
  <2>8. CASE Launch \/ Submit \/ Abort \/ Die \/ Update \/ EndRollout \/ NextRollout
    BY <2>2, <2>8, Zenon DEF Launch, Submit, Abort, Die, Update, EndRollout, NextRollout
  <2>9. ASSUME NEW w \in Workers, Answer(w) \/ WatcherThread(w) PROVE WaitersReclaim'
    BY <2>2, <2>9, PartsChanged, Zenon DEF Next
  <2>10. CASE Optimize
    BY <2>2, <2>10, PartsChanged, Zenon DEF Next
  <2>11. CASE UNCHANGED vars
    BY <2>2, <2>11, Zenon DEF vars
  <2>. QED BY <1>2, <2>3, <2>4, <2>5, <2>6, <2>7, <2>8, <2>9, <2>10, <2>11, Zenon
       DEF Next, EventLoop, MainThread
<1>. QED BY LeasesAgree, <1>1, <1>2, PTL DEF Spec


-----------------------------------------------------------------------------
(* A running plan never hangs                                              *)

(* One worker that moves by itself was not in the optimizer step, and does *)
(* not enter it.                                                           *)
LEMMA AloneNotStepping ==
  ASSUME TypeOK, NEW u \in Workers, Answer(u) \/ WatcherThread(u)
  PROVE  \/ UNCHANGED work
         \/ work[u] # "stepping" /\ \E s : s # "stepping" /\ work' = [work EXCEPT ![u] = s]
<1>1. CASE Prepare(u) \/ Decline(u) \/ NotReady(u) \/ PreflightRaises(u) \/ AbortPreflight(u)
  <2>1. /\ work[u] \in {"asked", "aborting"}
        /\ \E s \in {"prepared", "declined", "unready", "raised"} :
             work' = [work EXCEPT ![u] = s]
    BY <1>1, Zenon DEF Prepare, Decline, NotReady, PreflightRaises, AbortPreflight
  <2>2. work[u] # "stepping"
    BY <2>1, SMT
  <2>3. \A s \in {"prepared", "declined", "unready", "raised"} : s # "stepping"
    BY SMT
  <2>. QED BY <2>1, <2>2, <2>3, Zenon
<1>2. CASE LoseGroup(u)
  <2>1. work[u] = "control" /\ work' = [work EXCEPT ![u] = "broken"]
    BY <1>2, Zenon DEF LoseGroup
  <2>. QED BY <2>1, Zenon
<1>3. CASE CleanUp(u)
  <2>1. /\ work[u] \in {"cleanup", "broken"}
        /\ \/ work' = [work EXCEPT ![u] = IF work[u] = "broken" THEN "raised" ELSE "done"]
           \/ work' = [work EXCEPT ![u] = "raised"]
    BY <1>3, Zenon DEF CleanUp
  <2>2. work[u] # "stepping"
    BY <2>1, SMT
  <2>. QED BY <2>1, <2>2, Zenon
<1>4. CASE Watch(u) \/ Receive(u)
  BY <1>4, Zenon DEF Watch, Receive
<1>. QED BY <1>1, <1>2, <1>3, <1>4, Zenon DEF Answer, WatcherThread

(* A plan that runs is never left with workers that wait for each other at *)
(* a barrier: only the agreement lets workers into the optimizer step, and *)
(* all of them; where one has left, the others can notice.                 *)
THEOREM PlansNeverHang == Spec => []NeverHangs
<1>1. Init => StepTogether
  BY SMT, TeamAssumption DEF Init, StepTogether
<1>2. ASSUME LeaseInv, StepTogether, [Next]_vars
      PROVE  StepTogether'
  <2>. TypeOK
    BY <1>2 DEF LeaseInv
  <2>1. CASE UNCHANGED work
    BY <1>2, <2>1 DEF StepTogether
  <2>2. CASE \A w \in Team : work'[w] # "stepping"
    BY <2>2 DEF StepTogether
  <2>3. ASSUME NEW u \in Workers, Answer(u) \/ WatcherThread(u) PROVE StepTogether'
    <3>1. CASE UNCHANGED work
      BY <2>1, <3>1
    <3>2. CASE work[u] # "stepping"
               /\ \E s : s # "stepping" /\ work' = [work EXCEPT ![u] = s]
      BY <1>2, <3>2, TeamAssumption, SMT DEF StepTogether, TypeOK, WorkersTypeOK
    <3>. QED BY <2>3, <3>1, <3>2, AloneNotStepping
  <2>4. CASE Agree
    <3>. DEFINE After(stop) == [w \in Workers |-> IF w \in Team
                                                 THEN IF stop THEN "cleanup" ELSE "stepping"
                                                 ELSE work[w]]
    <3>1. \E stop : work' = After(stop)
      BY <2>4, Zenon DEF Agree
    <3>. QED BY <3>1, TeamAssumption, SMT DEF StepTogether
  <2>5. CASE Step
    <3>1. \A w \in Team : work'[w] \in {"control", "cleanup"}
      BY <2>5, StepLeaves, TeamAssumption, Zenon
    <3>. QED BY <2>2, <3>1, SMT
  <2>6. CASE Reserve \/ Submit
    <3>1. \E s \in {"asked", "control"} :
            work' = [w \in Workers |-> IF w \in Team THEN s ELSE work[w]]
      BY <2>6, Zenon DEF Reserve, Submit
    <3>. QED BY <2>2, <3>1, TeamAssumption, SMT
  <2>7. CASE Abort
    <3>1. work' = [w \in Workers |-> IF w \notin Team THEN work[w]
                                     ELSE IF LeftPrepared(w) THEN "aborting" ELSE "declined"]
      BY <2>7, Zenon DEF Abort
    <3>2. \A w \in Team : work'[w] \in {"aborting", "declined"}
      BY <3>1, TeamAssumption, SMT
    <3>. QED BY <2>2, <3>2, SMT
  <2>8. CASE Aborted \/ Complete \/ Wait
    <3>1. work' = [w \in Workers |-> IF w \in Team THEN "none" ELSE work[w]]
      BY <2>8, Zenon DEF Aborted, Complete, Wait, Rested
    <3>. QED BY <2>2, <3>1, TeamAssumption, SMT
  <2>9. CASE ObserveStarted \/ ObserveIdle \/ Launch \/ NotReserved
    BY <2>1, <2>9, Zenon DEF ObserveStarted, ObserveIdle, Launch, NotReserved, workerVars
  <2>10. CASE Boundary \/ Die \/ Update \/ EndRollout \/ NextRollout
    BY <2>1, <2>10, Zenon DEF Boundary, Die, Update, EndRollout, NextRollout, workerVars
  <2>11. ASSUME NEW r \in Replicas,
                Serve(r) \/ Request(r) \/ Join(r) \/ GiveUp(r) \/ Interrupt(r)
         PROVE  StepTogether'
    <3>1. UNCHANGED workerVars
      BY <2>11, Zenon DEF Serve, Request, Join, GiveUp, Interrupt, Blocked, Granted, Enter,
         Finish, Released, LateCall
    <3>. QED BY <2>1, <3>1 DEF workerVars
  <2>12. CASE UNCHANGED vars
    BY <2>1, <2>12, Zenon DEF vars, workerVars
  <2>. QED BY <1>2, <2>3, <2>4, <2>5, <2>6, <2>7, <2>8, <2>9, <2>10, <2>11, <2>12, Zenon
       DEF Next, EventLoop, MainThread, Optimize
<1>3. ASSUME LeaseInv, StepTogether
      PROVE  NeverHangs
  <2>. SUFFICES ASSUME status = "running",
                       \A w \in Team : work[w] \notin {"cleanup", "broken"},
                       ~AllAnswered,
                       \E w \in Team : work[w] # "stepping"
                PROVE  \/ \A w \in Team : work[w] = "control"
                       \/ \E v, w \in Team : work[v] = "control" /\ work[w] \in Answered
    BY Zenon DEF NeverHangs
  <2>1. \A w \in Team : work[w] \in Training \union Answered
    <3>1. loop \notin {"preflight", "abort"}
      BY <1>3, SMT DEF LeaseInv, PlanPhases
    <3>. SUFFICES ASSUME NEW w \in Team PROVE work[w] \in Training \union Answered
      OBVIOUS
    <3>2. work[w] \in IF w \notin Team THEN {"none"}
                     ELSE IF loop = "preflight" THEN Launching
                     ELSE IF loop = "abort" THEN {"aborting", "declined", "raised"}
                     ELSE IF status = "running" THEN Training \union Answered
                     ELSE {"none"}
      BY <1>3, TeamAssumption, Zenon DEF LeaseInv, PlanPhases
    <3>3. loop # "preflight" /\ loop # "abort"
      BY <3>1
    <3>. QED BY <3>2, <3>3, Zenon
  <2>2. \A w \in Team : work[w] # "stepping"
    BY <1>3, Zenon DEF StepTogether
  <2>3. \A w \in Team : work[w] = "control" \/ work[w] \in Answered
    BY <2>1, <2>2, SMT DEF Training
  <2>4. \E w \in Team : work[w] \notin Answered
    BY Zenon DEF AllAnswered
  <2>. QED BY <2>3, <2>4, Zenon
<1>. QED BY LeasesAgree, <1>1, <1>2, <1>3, PTL DEF Spec
=============================================================================
