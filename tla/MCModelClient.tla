---------------------------- MODULE MCModelClient ----------------------------
(* Instances of ModelClient for TLC.                                       *)
EXTENDS ModelClient

CONSTANTS agent, mini   \* two deployments

=============================================================================
