---------------------------- MODULE MCMaintenance ----------------------------
(***************************************************************************)
(* Maintenance instantiated for TLC: the constants are given in the .cfg   *)
(* files; this module only names the model values.                        *)
(***************************************************************************)
EXTENDS Maintenance
=============================================================================
