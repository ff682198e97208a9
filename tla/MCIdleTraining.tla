--------------------------- MODULE MCIdleTraining ---------------------------
(* Model checking of IdleTraining.                                         *)
EXTENDS IdleTrainingProperties, TLC

CONSTANTS r1, r2, w1, w2, w3

MCReplicaOf == w1 :> r1 @@ w2 :> r1 @@ w3 :> r2

(* The two workers of the team are alike.                                  *)
TeamSymmetry == Permutations({w1, w2})
=============================================================================
