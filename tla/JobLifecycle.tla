---------------------------- MODULE JobLifecycle ----------------------------
(***************************************************************************)
(* What the jobs queue promises of each posting, with no workers, claims   *)
(* or clock: it is found once, stays open while tries are charged to it,   *)
(* and is settled once, as embedded, as rejected (it has no description)   *)
(* or as exhausted (its tries are used up).  A try that failed leaves the  *)
(* job open only while fewer than MaxAttempts are charged; a try that was  *)
(* lost is charged too, whatever the count.                                *)
(***************************************************************************)
EXTENDS Integers

CONSTANTS Job, MaxAttempts, MaxLost

VARIABLES stage, charged, lost

lifecycle == <<stage, charged, lost>>

Init ==
  /\ stage = [j \in Job |-> "absent"]
  /\ charged = [j \in Job |-> 0]
  /\ lost = 0

Discover(j) ==
  /\ stage[j] = "absent"
  /\ stage' = [stage EXCEPT ![j] = "open"]
  /\ UNCHANGED <<charged, lost>>

ChargeTry(j) ==
  /\ stage[j] = "open"
  /\ charged' = [charged EXCEPT ![j] = @ + 1]

LoseTry(j) ==
  /\ ChargeTry(j)
  /\ lost < MaxLost
  /\ lost' = lost + 1
  /\ UNCHANGED stage

Retry(j) ==
  /\ ChargeTry(j)
  /\ charged[j] + 1 < MaxAttempts
  /\ UNCHANGED <<stage, lost>>

Settle(j, verdict) ==
  /\ ChargeTry(j)
  /\ verdict = "exhausted" => charged[j] + 1 >= MaxAttempts
  /\ stage' = [stage EXCEPT ![j] = verdict]
  /\ UNCHANGED lost

Next ==
  \E j \in Job :
    \/ Discover(j)
    \/ LoseTry(j)
    \/ Retry(j)
    \/ \E verdict \in {"embedded", "rejected", "exhausted"} :
         Settle(j, verdict)

Spec == Init /\ [][Next]_lifecycle
=============================================================================
