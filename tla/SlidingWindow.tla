---------------------------- MODULE SlidingWindow ----------------------------
(***************************************************************************)
(* At most Limit events per key in any Window: servers/ratelimit.  A key   *)
(* the sweep has forgotten has no hits.  Every operation is under a mutex. *)
(***************************************************************************)
EXTENDS Integers, Sequences

CONSTANTS Key, Limit, Window

ASSUME WindowAssumption == Limit \in Nat \ {0} /\ Window \in Nat \ {0}

VARIABLES
  clock,
  hits,     \* each key's hits, oldest first
  allowed,  \* history: when each key's events were allowed
  retryAt   \* when the last refusal said to come again, 0 if it has come

windowVars == <<clock, hits, allowed, retryAt>>

WindowTypeOK ==
  /\ clock \in Nat
  /\ hits \in [Key -> Seq(Nat)]
  /\ allowed \in [Key -> Seq(Nat)]
  /\ retryAt \in [Key -> Nat]

WindowInit ==
  /\ clock = 0
  /\ hits = [k \in Key |-> <<>>]
  /\ allowed = [k \in Key |-> <<>>]
  /\ retryAt = [k \in Key |-> 0]

-----------------------------------------------------------------------------

Counts(t) == t > clock - Window

(* How many of the oldest hits do not count any more.                      *)
Expired(k) ==
  CHOOSE n \in 0..Len(hits[k]) :
    /\ \A i \in 1..n : ~Counts(hits[k][i])
    /\ n < Len(hits[k]) => Counts(hits[k][n + 1])

Recent(k) == SubSeq(hits[k], Expired(k) + 1, Len(hits[k]))

SweptAll == [k \in Key |-> <<>>]
Swept ==
  [k \in Key |-> IF Recent(k) = <<>> THEN <<>> ELSE hits[k]]

(* Every so many calls the keys without recent hits are forgotten first.   *)
HitsAfter(sweeps) == IF sweeps THEN Swept ELSE hits

WithinLimit(k) == Len(Recent(k)) < Limit

Allow(k, sweeps) ==
  /\ WithinLimit(k)
  /\ hits' = [HitsAfter(sweeps) EXCEPT ![k] = Append(Recent(k), clock)]
  /\ allowed' = [allowed EXCEPT ![k] = Append(@, clock)]
  /\ retryAt' = [retryAt EXCEPT ![k] = 0]
  /\ UNCHANGED clock

NewestHit(k) == Recent(k)[Len(Recent(k))]
OldestHit(k) == Recent(k)[1]

Refuse(k, sweeps) ==
  /\ ~WithinLimit(k)
  /\ hits' = [HitsAfter(sweeps) EXCEPT ![k] = Recent(k)]
  /\ retryAt' = [retryAt EXCEPT ![k] = OldestHit(k) + Window]
  /\ UNCHANGED <<clock, allowed>>

Pass ==
  /\ clock' = clock + 1
  /\ UNCHANGED <<hits, allowed, retryAt>>

WindowNext ==
  \/ \E k \in Key, sweeps \in BOOLEAN : Allow(k, sweeps) \/ Refuse(k, sweeps)
  \/ Pass

WindowSpec == WindowInit /\ [][WindowNext]_windowVars

-----------------------------------------------------------------------------
(* Properties.                                                             *)

(* No window of time, wherever it begins, has more than Limit events of a  *)
(* key, whatever has been trimmed or swept since (ratelimit.go:52-88).     *)
NeverOverLimit ==
  \A k \in Key : \A i \in 1..(Len(allowed[k]) - Limit) :
    allowed[k][i + Limit] >= allowed[k][i] + Window

(* A refusal tells the truth: until the time it names the next event is    *)
(* refused too, and from then on it is allowed (ratelimit.go:62-66).       *)
RetryIsRight ==
  \A k \in Key : retryAt[k] # 0 => (WithinLimit(k) <=> clock >= retryAt[k])

(* The limit holds and a refusal is right about it (ratelimit.go:52-88).   *)
WindowInv == WindowTypeOK /\ NeverOverLimit /\ RetryIsRight
=============================================================================
