----------------------------- MODULE RateLimiter -----------------------------
(***************************************************************************)
(* The limiter every call to one portal goes through                       *)
(* (pipeline/ratelimit.go): it hands out slots an interval apart and backs *)
(* off after failures.  It keeps such a state for each portal, under a     *)
(* mutex; a caller books its slot under the mutex, sleeps without it and   *)
(* reports the outcome of its call under it.                               *)
(***************************************************************************)
EXTENDS Integers, FiniteSets

CONSTANTS
  Caller,      \* the goroutines that call the portal
  Interval,    \* between two calls
  MaxPenalty,
  MaxTime      \* bound: no call is begun with a slot after this

ASSUME LimiterAssumption ==
  /\ Interval \in Nat \ {0} /\ MaxPenalty \in Nat \ {0} /\ MaxTime \in Nat

VARIABLES
  now,
  next,     \* providerState.next
  penalty,  \* providerState.penalty
  call,     \* where each caller is, and the slot it booked
  booked,   \* slots handed out, those an interval and more ago left out
  quiet     \* history: when the last failure's penalty is over

limiterVars == <<now, next, penalty, call, booked, quiet>>

Later(a, b) == IF a > b THEN a ELSE b

Idle == [at |-> "idle", slot |-> 0]
Calls == [at : {"idle", "wait", "call"}, slot : Nat]

LimiterTypeOK ==
  /\ now \in Nat /\ next \in Nat /\ quiet \in Nat
  /\ penalty \in 0..MaxPenalty
  /\ call \in [Caller -> Calls]
  /\ booked \subseteq Nat

LimiterInit ==
  /\ now = 0 /\ next = 0 /\ quiet = 0
  /\ penalty = 0
  /\ call = [c \in Caller |-> Idle]
  /\ booked = {}

-----------------------------------------------------------------------------

CallAt(c, at, slot) == call' = [call EXCEPT ![c] = [at |-> at, slot |-> slot]]

Start == Later(now, next)

Reserve(c) ==
  /\ call[c].at = "idle"
  /\ next' = Start + Interval
  /\ booked' = booked \cup {Start}
  /\ CallAt(c, "wait", Start)
  /\ UNCHANGED <<now, penalty, quiet>>

(* The timer fires at its slot or later.                                   *)
WaitEnds(c) ==
  /\ call[c].at = "wait"
  /\ call[c].slot <= now
  /\ CallAt(c, "call", call[c].slot)
  /\ UNCHANGED <<now, next, penalty, booked, quiet>>

(* The context ends first.  The slot stays booked and nothing is reported. *)
WaitCancelled(c) ==
  /\ call[c].at = "wait"
  /\ CallAt(c, "idle", 0)
  /\ UNCHANGED <<now, next, penalty, booked, quiet>>

SucceedsAtOnce(c) ==
  /\ call[c].at = "call"
  /\ penalty' = 0
  /\ next' = now
  /\ CallAt(c, "idle", 0)
  /\ UNCHANGED <<now, booked, quiet>>

Succeeds(c) ==
  /\ call[c].at = "call"
  /\ penalty' = 0
  /\ CallAt(c, "idle", 0)
  /\ UNCHANGED <<now, next, booked, quiet>>

Grown ==
  LET p == IF penalty = 0 THEN Interval ELSE 2 * penalty
  IN IF p > MaxPenalty THEN MaxPenalty ELSE p

PushedBack(p) == now + p
PushedOnAndOn(p) == Later(next, now) + p
Pushed(p) == Later(next, now + p)

Fails(c) ==
  /\ call[c].at = "call"
  /\ penalty' = Grown
  /\ next' = Pushed(penalty')
  /\ quiet' = Later(quiet, now + penalty')
  /\ CallAt(c, "idle", 0)
  /\ UNCHANGED <<now, booked>>

(* The call ends with context.Canceled, which is nobody's failure.         *)
CallCancelled(c) ==
  /\ call[c].at = "call"
  /\ CallAt(c, "idle", 0)
  /\ UNCHANGED <<now, next, penalty, booked, quiet>>

Tick ==
  /\ now' = now + 1
  /\ booked' = {s \in booked : s + Interval > now'}
  /\ UNCHANGED <<next, penalty, call, quiet>>

LimiterNext ==
  \/ \E c \in Caller :
       \/ Reserve(c) \/ WaitEnds(c) \/ WaitCancelled(c)
       \/ Succeeds(c) \/ Fails(c) \/ CallCancelled(c)
  \/ Tick

LimiterSpec == LimiterInit /\ [][LimiterNext]_limiterVars

-----------------------------------------------------------------------------
(* Properties.                                                             *)

(* Slots are an interval apart, whoever booked them and whatever failed,   *)
(* succeeded or was given up in between: nothing moves the next slot back  *)
(* over one that is handed out (ratelimit.go:93-138).                      *)
SlotsSpaced ==
  \A s, t \in booked : s < t => s + Interval <= t

(* No slot is handed out for the time a failure asked to leave the portal  *)
(* alone, although another call that was in flight may succeed meanwhile   *)
(* and clear the penalty (ratelimit.go:115-138).                           *)
QuietKept == [][\A s \in booked' \ booked : s >= quiet]_limiterVars

(* How long the next caller waits: at most the penalty, or an interval,    *)
(* and an interval for each slot that is still to come, given up or not.   *)
(* Failures that come together do not add up (ratelimit.go:93-138).        *)
WaitBounded ==
  next - now <= Later(Interval, MaxPenalty)
                + Interval * Cardinality({s \in booked : s > now})
=============================================================================
