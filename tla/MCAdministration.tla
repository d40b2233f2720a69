-------------------------- MODULE MCAdministration --------------------------
(***************************************************************************)
(* Three requests, of which two can be bootstraps of different users, or   *)
(* changes of one setting, also to what the defaults are.  An analyst may  *)
(* do what a controller may.                                               *)
(***************************************************************************)
EXTENDS Administration

=============================================================================
