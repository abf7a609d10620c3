-------------------------- MODULE ResultLifecycle --------------------------
(***************************************************************************)
(* What the evaluation queue promises of each search result, with no       *)
(* workers, claims, CVs or clock.  A result is queued when it is found and *)
(* whenever the user asks again, with no try charged to it.  It is done    *)
(* once with a score, which it then shows, or failed once MaxAttempts      *)
(* tries are charged; a try that failed may take the shown score away, and *)
(* a try that was lost is charged and changes nothing else.  The account's *)
(* deletion removes every result at once and for good.                     *)
(***************************************************************************)
EXTENDS Integers

CONSTANTS Result, Score, NULL, MaxAttempts, MaxLost

VARIABLES stage, charged, shown, account, lost

lifecycle == <<stage, charged, shown, account, lost>>

Init ==
  /\ stage = [r \in Result |-> "absent"]
  /\ charged = [r \in Result |-> 0]
  /\ shown = [r \in Result |-> NULL]
  /\ account = "open"
  /\ lost = 0

Add(r) ==
  /\ account = "open"
  /\ stage[r] = "absent"
  /\ stage' = [stage EXCEPT ![r] = "queued"]
  /\ UNCHANGED <<charged, shown, account, lost>>

Request(r) ==
  /\ stage[r] # "absent"
  /\ stage' = [stage EXCEPT ![r] = "queued"]
  /\ charged' = [charged EXCEPT ![r] = 0]
  /\ UNCHANGED <<shown, account, lost>>

ChargeTry(r) ==
  /\ stage[r] = "queued"
  /\ charged' = [charged EXCEPT ![r] = @ + 1]
  /\ UNCHANGED account

LoseTry(r) ==
  /\ ChargeTry(r)
  /\ lost < MaxLost
  /\ lost' = lost + 1
  /\ UNCHANGED <<stage, shown>>

FailTry(r) ==
  /\ ChargeTry(r)
  /\ stage' = [stage EXCEPT ![r] =
                 IF charged[r] + 1 >= MaxAttempts THEN "failed" ELSE @]
  /\ shown' \in {shown, [shown EXCEPT ![r] = NULL]}
  /\ UNCHANGED lost

(* Nothing is charged: a shutdown took the try away.                       *)
ReleaseTry(r) ==
  /\ stage[r] = "queued"
  /\ shown' = [shown EXCEPT ![r] = NULL]
  /\ UNCHANGED <<stage, charged, account, lost>>

Complete(r) ==
  /\ ChargeTry(r)
  /\ stage' = [stage EXCEPT ![r] = "done"]
  /\ \E s \in Score : shown' = [shown EXCEPT ![r] = s]
  /\ UNCHANGED lost

(* A worker that dies after its result is gone counts too.                 *)
LoseNothing ==
  /\ account = "deleted"
  /\ lost < MaxLost
  /\ lost' = lost + 1
  /\ UNCHANGED <<stage, charged, shown, account>>

Remove ==
  /\ account = "open"
  /\ account' = "deleted"
  /\ stage' = [r \in Result |-> "absent"]
  /\ charged' = [r \in Result |-> 0]
  /\ shown' = [r \in Result |-> NULL]
  /\ UNCHANGED lost

Next ==
  \/ \E r \in Result : \/ Add(r) \/ Request(r) \/ Complete(r)
                       \/ LoseTry(r) \/ FailTry(r) \/ ReleaseTry(r)
  \/ LoseNothing
  \/ Remove

Spec == Init /\ [][Next]_lifecycle
=============================================================================
