---------------------------- MODULE RetryPolicy ----------------------------
(***************************************************************************)
(* What the embed and the evaluate loops of internal/pipeline share: the   *)
(* claim that goes stale, the delay before the next attempt, and the       *)
(* number of attempts after which a row is given up.                       *)
(*                                                                         *)
(* Time is counted in ticks and kept relative: a row stores how long ago   *)
(* it was claimed and how long until its next attempt.  Ages stop counting *)
(* one tick past the stale timeout, and a due row stays due, so the        *)
(* reachable states are finite and time itself needs no bound.             *)
(***************************************************************************)
EXTENDS Integers

CONSTANTS
  NULL,          \* SQL NULL
  StaleTimeout,  \* Config.StaleTimeout, in ticks
  StepBound,     \* longest time from a claim to the write of its outcome
  MaxAttempts,   \* Config.MaxAttempts
  BaseBackoff,   \* Config.BaseBackoff, in ticks
  MaxBackoff,    \* Config.MaxBackoff, in ticks
  MaxLost,       \* bound: claims whose outcome is never written
  MaxCancelled   \* bound: steps cancelled by a shutdown

ASSUME TimeAssumption ==
  /\ NULL \notin Nat
  /\ StaleTimeout \in Nat /\ StepBound \in Nat
  /\ BaseBackoff \in Nat /\ MaxBackoff \in Nat
ASSUME CountAssumption ==
  MaxAttempts \in Nat \ {0} /\ MaxLost \in Nat /\ MaxCancelled \in Nat

(* What cmd/worker means its HTTP timeouts to ensure.  It is a premise of  *)
(* the theorems and of some runs, not of the models.                       *)
StepsEndInTime == StepBound <= StaleTimeout

Ages == {NULL} \union 0..(StaleTimeout + 1)

-----------------------------------------------------------------------------
(* Variants of the definitions below, as a slip in the code would make     *)
(* them; PROJECT.json names the property each one breaks.                  *)

StaleOffByOne(row) == row.claimedAgo # NULL /\ row.claimedAgo >= StaleTimeout
StaleNever(row) == FALSE
BackoffUncapped(n) == BaseBackoff * 2^(n - 1)
ExhaustedTooLate(n) == n > MaxAttempts

-----------------------------------------------------------------------------
(* A processing row is taken over once claimed_at < now - StaleTimeout.    *)
Stale(row) == row.claimedAgo # NULL /\ row.claimedAgo > StaleTimeout

(* next_attempt_at IS NULL OR next_attempt_at <= now *)
Due(row) == row.dueIn \in {NULL, 0}

Backoff(n) ==
  LET delay == BaseBackoff * 2^(n - 1)
  IN  IF delay \in 0..MaxBackoff THEN delay ELSE MaxBackoff

Exhausted(n) == n >= MaxAttempts

-----------------------------------------------------------------------------
(* What a tick of the clock does to a claim's age and to a delay.          *)
Older(age) == IF age \in 0..StaleTimeout THEN age + 1 ELSE age

Sooner(wait) == IF wait \in {NULL, 0} THEN wait ELSE wait - 1
=============================================================================
