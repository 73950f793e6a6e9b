---------------------------- MODULE MCMessaging ----------------------------
(***************************************************************************)
(* Instances of CubeMessaging for TLC.                                     *)
(***************************************************************************)
EXTENDS CubeRefinement
============================================================================
