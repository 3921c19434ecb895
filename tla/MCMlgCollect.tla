---------------------------- MODULE MCMlgCollect ----------------------------
(***************************************************************************)
(* Instances of MlgCollect for TLC: the bounds are in the configurations.  *)
(***************************************************************************)
EXTENDS MlgCollect
=============================================================================
