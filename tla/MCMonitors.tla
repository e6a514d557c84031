----------------------------- MODULE MCMonitors -----------------------------
(***************************************************************************)
(* TLC instance of Monitors: one monitor with only_if_changed and one      *)
(* without, so that a tick may fail between the two.                       *)
(***************************************************************************)
EXTENDS Monitors

=============================================================================
