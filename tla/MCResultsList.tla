---------------------------- MODULE MCResultsList ----------------------------
(***************************************************************************)
(* ResultsList over three results of two searches, found in another order  *)
(* than their ids, and three lists.                                        *)
(***************************************************************************)
EXTENDS ResultsList

CONSTANTS s1, s2

MCFindable ==
  {[id |-> 1, search |-> s1, created |-> 2],
   [id |-> 2, search |-> s2, created |-> 2],
   [id |-> 3, search |-> s1, created |-> 1]}

(* A second outcome scores lower on the criterion than the first.          *)
MCOnCriterion == [n \in 0..2 |-> 6 - 2 * n]

(* The one between the others by time; by score it may come anywhere.      *)
MCTriages == {[id |-> 1, status |-> "dismissed"]}

All == [sort |-> "score", search |-> NULL, min_score |-> NULL,
        statuses |-> {}, evaluation_statuses |-> {}, since |-> NULL,
        min_criterion_score |-> NULL]

MCAsked ==
  {All,
   [All EXCEPT !.sort = "newest", !.search = s1, !.min_score = StrongScore,
               !.min_criterion_score = 4],
   [All EXCEPT !.sort = "newest", !.statuses = {"new"},
               !.evaluation_statuses = {"pending", "done"}, !.since = 2]}
=============================================================================
