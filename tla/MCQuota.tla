------------------------------- MODULE MCQuota -------------------------------
(* Model checking of TrainingQuota.                                        *)
EXTENDS QuotaProperties
=============================================================================
