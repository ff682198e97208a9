------------------------------ MODULE DeviceUse ------------------------------
(***************************************************************************)
(* What the parties that share the devices promise each other: a device    *)
(* serves a rollout, trains the drafter between requests, or takes part in *)
(* the update of the policy, never two of these, and it is free in         *)
(* between.  The update takes all devices at once.                         *)
(***************************************************************************)
CONSTANT Devices

VARIABLE use  \* what each device is used for

Purposes == {"serving", "training", "updating"}

Init == use = [d \in Devices |-> {}]

Take(D, purpose) ==
  /\ \A d \in D : use[d] = {}
  /\ purpose = "updating" => D = Devices
  /\ use' = [d \in Devices |-> IF d \in D THEN {purpose} ELSE use[d]]

Give(D) == use' = [d \in Devices |-> IF d \in D THEN {} ELSE use[d]]

Next ==
  \E D \in SUBSET Devices : Give(D) \/ \E purpose \in Purposes : Take(D, purpose)

Spec == Init /\ [][Next]_use
=============================================================================
