---------------------------- MODULE MCRunRegistry ----------------------------
(* RunRegistry for TLC: four runs compete for two resources, and the        *)
(* cancellation queue holds two entries that live for two ticks, so that    *)
(* expiry, eviction by the cap and re-registration all happen.              *)
EXTENDS RunRegistry
=============================================================================
