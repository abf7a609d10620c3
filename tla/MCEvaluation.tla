---------------------------- MODULE MCEvaluation ----------------------------
(***************************************************************************)
(* Evaluation on a small instance, for TLC, in the regime cmd/worker sets  *)
(* up its timeouts for.                                                    *)
(***************************************************************************)
EXTENDS Evaluation

ASSUME RegimeAssumption == StepsEndInTime
=============================================================================
