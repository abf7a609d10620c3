\* An account with up to two searches: an export among a worker and an
\* upload; an export and a deletion; two deletions and a worker; a deletion,
\* a worker and a search being saved; a deletion among three other requests.
CONSTANTS
  Deletion = {d1, d2}
  Export = {x1}
  Upload = {u1}
  NewSearch = {q1}
  NewKey = {q2}
  NewSuggestion = {q3}
  Worker = {w1}
  Search = {s1, s2}
  CV = {c1}
  Scenarios = {{x1, w1, u1}, {d1, x1}, {d1, d2, w1}, {d1, q1, w1},
               {d1, u1, q2, q3}}
  NULL = NULL
SPECIFICATION FairSpec
INVARIANTS AccountInv ExportIsWhole
PROPERTY DeletionEnds
CHECK_DEADLOCK FALSE
