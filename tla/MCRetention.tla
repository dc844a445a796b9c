---------------------------- MODULE MCRetention ----------------------------
(***************************************************************************)
(* An instance of Retention for TLC.  Nothing tells applications apart.    *)
(***************************************************************************)
EXTENDS Retention, TLC

AppSymmetry == Permutations(App)
=============================================================================
