-------------------------- MODULE MCSchedulerDriver --------------------------
(***************************************************************************)
(* Model-checking instance of SchedulerDriver: two Start attempts, so a   *)
(* failed Start can be retried and two RegisterFramework messages can be  *)
(* answered; one offer, so the offers callback calls back into the driver. *)
(***************************************************************************)
EXTENDS SchedulerDriver

=============================================================================
