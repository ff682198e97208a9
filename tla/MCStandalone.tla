---------------------------- MODULE MCStandalone ----------------------------
(* Model checking of StandalonePipeline.                                   *)
EXTENDS StandaloneProperties
=============================================================================
