------------------------------- MODULE MCReplay ------------------------------
(* Model checking of ReplayBuffer.                                         *)
EXTENDS ReplayProperties
=============================================================================
