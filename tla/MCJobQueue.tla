----------------------------- MODULE MCJobQueue -----------------------------
(***************************************************************************)
(* JobQueue on a small instance, for TLC, in the regime cmd/worker sets up *)
(* its timeouts for.  JobQueueSlow.cfg checks JobQueue outside it.         *)
(***************************************************************************)
EXTENDS JobQueue

ASSUME RegimeAssumption == StepsEndInTime
=============================================================================
