---------------------------- MODULE MCScheduler ----------------------------
(***************************************************************************)
(* A blue and a green engine and two bots, of which one always fails.      *)
(***************************************************************************)
EXTENDS Scheduler
=============================================================================
