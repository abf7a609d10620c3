-------------------------- MODULE MCSearchSchedule --------------------------
(***************************************************************************)
(* SearchSchedule on a small instance, for TLC, with runs that end before  *)
(* their lease does.                                                       *)
(***************************************************************************)
EXTENDS SearchSchedule

ASSUME RegimeAssumption == RunsEndInTime
=============================================================================
