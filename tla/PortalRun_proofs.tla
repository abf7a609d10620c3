--------------------------- MODULE PortalRun_proofs ---------------------------
(***************************************************************************)
(* Theorems about PortalRun and the limiter it goes through, for any       *)
(* callers, intervals, penalties and result lists: slots are spaced, the   *)
(* portal is left alone after a failure, a caller's wait is bounded, a run *)
(* fetches no page twice and misses nothing that was listed throughout.    *)
(***************************************************************************)
EXTENDS PortalRun, FiniteSetTheorems, SequenceTheorems,
  WellFoundedInduction, TLAPS

-----------------------------------------------------------------------------
(* The limiter.                                                            *)

(* A run and an embed loop change the limiter only as callers do.          *)
LEMMA StepsOfLimiter ==
  ASSUME [Next]_vars PROVE [LimiterNext]_limiterVars
<1> USE CallerAssumption
<1>1. CASE UNCHANGED vars
  BY <1>1 DEF vars
<1>2. ASSUME NEW r \in Search, SearchSteps(r)
      PROVE  [LimiterNext]_limiterVars
  BY <1>2 DEF SearchSteps, SearchGoesOn, StartSearch, SearchBegins, FetchPage,
    PageFails, SearchReturns, SearchFails, StorePosting, RunDone, StoreFails,
    SearchCancelled, LimiterNext
<1>3. ASSUME NEW l \in Loop, LoopSteps(l)
      PROVE  [LimiterNext]_limiterVars
  BY <1>3 DEF LoopSteps, StartDetails, DetailsBegin, DetailsAnswer,
    DetailsFail, DetailsCancelled, LimiterNext
<1>4. CASE \/ Shutdown
           \/ \E p \in Posting : PostingComesUp(p)
           \/ \E i \in DOMAIN site : PostingGoes(i)
  BY <1>4 DEF Shutdown, PostingComesUp, PostingGoes
<1>5. CASE TimePasses
  BY <1>5 DEF TimePasses, LimiterNext
<1>6. QED
  BY <1>1, <1>2, <1>3, <1>4, <1>5 DEF Next

(* So the portal's calls are a behaviour of the limiter.                   *)
LEMMA RefinesLimiter == Spec => LimiterSpec
<1>1. Init => LimiterInit
  BY DEF Init
<1>2. [Next]_vars => [LimiterNext]_limiterVars
  BY StepsOfLimiter
<1>3. QED
  BY <1>1, <1>2, PTL DEF Spec, LimiterSpec

LEMMA LaterType ==
  ASSUME NEW a \in Int, NEW b \in Int
  PROVE  /\ Later(a, b) \in {a, b}
         /\ Later(a, b) >= a /\ Later(a, b) >= b
BY DEF Later

LEMMA GrownType ==
  ASSUME penalty \in 0..MaxPenalty PROVE Grown \in 0..MaxPenalty
BY LimiterAssumption DEF Grown

THEOREM LimiterTypes == LimiterSpec => []LimiterTypeOK
<1> USE LimiterAssumption
<1>1. LimiterInit => LimiterTypeOK
  BY DEF LimiterInit, LimiterTypeOK, Idle, Calls
<1>2. LimiterTypeOK /\ [LimiterNext]_limiterVars => LimiterTypeOK'
  <2> SUFFICES ASSUME LimiterTypeOK, [LimiterNext]_limiterVars
               PROVE  LimiterTypeOK'
    OBVIOUS
  <2>0. Start \in Nat
    BY DEF LimiterTypeOK, Start, Later
  <2>1. ASSUME NEW c \in Caller, NEW at \in {"idle", "wait", "call"},
               NEW slot \in Nat, CallAt(c, at, slot)
        PROVE  call' \in [Caller -> Calls]
    <3>1. [at |-> at, slot |-> slot] \in Calls
      BY DEF Calls
    <3>2. QED
      BY <2>1, <3>1 DEF CallAt, LimiterTypeOK
  <2>2. ASSUME NEW c \in Caller, Reserve(c)
        PROVE  LimiterTypeOK'
    <3>1. call' \in [Caller -> Calls]
      BY <2>0, <2>1, <2>2 DEF Reserve
    <3>2. QED
      BY <2>0, <2>2, <3>1 DEF Reserve, LimiterTypeOK
  <2>3. ASSUME NEW c \in Caller,
               WaitEnds(c) \/ WaitCancelled(c) \/ CallCancelled(c)
        PROVE  LimiterTypeOK'
    <3>1. call[c].slot \in Nat
      BY DEF LimiterTypeOK, Calls
    <3>2. call' \in [Caller -> Calls]
      BY <2>1, <2>3, <3>1 DEF WaitEnds, WaitCancelled, CallCancelled
    <3>3. UNCHANGED <<now, next, penalty, booked, quiet>>
      BY <2>3 DEF WaitEnds, WaitCancelled, CallCancelled
    <3>4. QED
      BY <3>2, <3>3 DEF LimiterTypeOK
  <2>4. ASSUME NEW c \in Caller, Succeeds(c)
        PROVE  LimiterTypeOK'
    <3>1. call' \in [Caller -> Calls]
      BY <2>1, <2>4 DEF Succeeds
    <3>2. QED
      BY <2>4, <3>1 DEF Succeeds, LimiterTypeOK
  <2>5. ASSUME NEW c \in Caller, Fails(c)
        PROVE  LimiterTypeOK'
    <3>1. call' \in [Caller -> Calls]
      BY <2>1, <2>5 DEF Fails
    <3>2. penalty' \in 0..MaxPenalty
      BY <2>5, GrownType DEF Fails, LimiterTypeOK
    <3>3. now \in Nat /\ next \in Nat /\ quiet \in Nat /\ penalty' \in Nat
      BY <3>2 DEF LimiterTypeOK
    <3>4. next' \in Nat /\ quiet' \in Nat
      BY <2>5, <3>3 DEF Fails, Pushed, Later
    <3>5. QED
      BY <2>5, <3>1, <3>2, <3>4 DEF Fails, LimiterTypeOK
  <2>6. CASE Tick
    <3>1. booked' \subseteq booked
      BY <2>6 DEF Tick
    <3>2. now' \in Nat
      BY <2>6 DEF Tick, LimiterTypeOK
    <3>3. UNCHANGED <<next, penalty, call, quiet>>
      BY <2>6 DEF Tick
    <3>4. QED
      BY <3>1, <3>2, <3>3 DEF LimiterTypeOK
  <2>7. CASE UNCHANGED limiterVars
    BY <2>7 DEF limiterVars, LimiterTypeOK
  <2>8. QED
    BY <2>2, <2>3, <2>4, <2>5, <2>6, <2>7 DEF LimiterNext
<1>3. QED
  BY <1>1, <1>2, PTL DEF LimiterSpec

(* A step of the limiter hands out the next slot, or moves the next slot   *)
(* on after a failure, or changes neither.                                 *)
LEMMA StepKinds ==
  ASSUME LimiterTypeOK, [LimiterNext]_limiterVars
  PROVE  \/ /\ next' = Start + Interval /\ booked' = booked \cup {Start}
            /\ now' = now /\ quiet' = quiet
         \/ \E p \in 0..MaxPenalty :
              /\ next' = Later(next, now + p) /\ booked' = booked
              /\ now' = now /\ quiet' = Later(quiet, now + p)
         \/ /\ next' = next /\ booked' = booked
            /\ now' = now /\ quiet' = quiet
         \/ /\ next' = next /\ quiet' = quiet
            /\ now' = now + 1
            /\ booked' = {s \in booked : s + Interval > now'}
<1>1. ASSUME NEW c \in Caller, Fails(c)
      PROVE  \E p \in 0..MaxPenalty :
               /\ next' = Later(next, now + p) /\ booked' = booked
               /\ now' = now /\ quiet' = Later(quiet, now + p)
  <2>1. penalty' \in 0..MaxPenalty
    BY <1>1, GrownType DEF Fails, LimiterTypeOK
  <2>2. QED
    BY <1>1, <2>1 DEF Fails, Pushed
<1>2. CASE UNCHANGED limiterVars
  BY <1>2 DEF limiterVars
<1>3. CASE LimiterNext
  BY <1>1, <1>3 DEF LimiterNext, Reserve, WaitEnds, WaitCancelled, Succeeds,
    CallCancelled, Tick
<1>4. QED
  BY <1>2, <1>3

(* The next slot lies an interval behind every slot that is handed out,    *)
(* and behind the time that was asked for.                                 *)
SpacingInv ==
  /\ LimiterTypeOK
  /\ SlotsSpaced
  /\ \A s \in booked : s + Interval <= next
  /\ quiet <= next

LEMMA SpacingInductive == LimiterSpec => []SpacingInv
<1> USE LimiterAssumption
<1>1. LimiterInit => SpacingInv
  <2>1. LimiterInit => LimiterTypeOK
    BY DEF LimiterInit, LimiterTypeOK, Idle, Calls
  <2>2. QED
    BY <2>1 DEF LimiterInit, SpacingInv, SlotsSpaced
<1>2. LimiterTypeOK' /\ SpacingInv /\ [LimiterNext]_limiterVars => SpacingInv'
  <2> SUFFICES ASSUME LimiterTypeOK', SpacingInv, [LimiterNext]_limiterVars
               PROVE  SpacingInv'
    OBVIOUS
  <2>0. /\ LimiterTypeOK /\ booked \subseteq Nat
        /\ now \in Nat /\ next \in Nat /\ quiet \in Nat
    BY DEF SpacingInv, LimiterTypeOK
  <2>1. CASE /\ next' = Start + Interval /\ booked' = booked \cup {Start}
             /\ now' = now /\ quiet' = quiet
    <3>1. Start \in Nat /\ Start >= next
      BY <2>0 DEF Start, Later
    <3>2. \A s \in booked : s + Interval <= Start
      BY <2>0, <3>1 DEF SpacingInv
    <3>3. SlotsSpaced'
      BY <2>0, <2>1, <3>1, <3>2 DEF SlotsSpaced, SpacingInv
    <3>4. QED
      BY <2>0, <2>1, <3>1, <3>2, <3>3 DEF SpacingInv
  <2>2. ASSUME NEW p \in 0..MaxPenalty,
               /\ next' = Later(next, now + p) /\ booked' = booked
               /\ now' = now /\ quiet' = Later(quiet, now + p)
        PROVE  SpacingInv'
    <3>1. now + p \in Nat
      BY <2>0
    <3>2. next' \in Nat /\ next' >= next /\ quiet' <= next'
      BY <2>0, <2>2, <3>1 DEF Later, SpacingInv
    <3>3. QED
      BY <2>0, <2>2, <3>2 DEF SpacingInv, SlotsSpaced
  <2>3. CASE /\ next' = next /\ booked' = booked
             /\ now' = now /\ quiet' = quiet
    BY <2>3 DEF SpacingInv, SlotsSpaced
  <2>4. CASE /\ next' = next /\ quiet' = quiet
             /\ now' = now + 1
             /\ booked' = {s \in booked : s + Interval > now'}
    <3>1. booked' \subseteq booked
      BY <2>4
    <3>2. QED
      BY <2>4, <3>1 DEF SpacingInv, SlotsSpaced
  <2>5. QED
    BY <2>0, <2>1, <2>2, <2>3, <2>4, StepKinds
<1>3. QED
  BY <1>1, <1>2, LimiterTypes, PTL DEF LimiterSpec

(* Slots are an interval apart (ratelimit.go:93-138).                      *)
THEOREM Spaced == Spec => []SlotsSpaced
<1>1. SpacingInv => SlotsSpaced
  BY DEF SpacingInv
<1>2. QED
  BY <1>1, SpacingInductive, RefinesLimiter, PTL

(* No slot is handed out for a time a failure asked to leave alone         *)
(* (ratelimit.go:115-138).                                                 *)
THEOREM Quiet == Spec => QuietKept
<1>1. SpacingInv /\ [LimiterNext]_limiterVars
        => [\A s \in booked' \ booked : s >= quiet]_limiterVars
  <2> SUFFICES ASSUME SpacingInv, [LimiterNext]_limiterVars,
                      NEW s \in booked' \ booked
               PROVE  s >= quiet
    BY DEF SpacingInv
  <2>1. LimiterTypeOK
    BY DEF SpacingInv
  <2>2. s = Start
    BY <2>1, StepKinds
  <2>3. QED
    BY <2>1, <2>2 DEF SpacingInv, LimiterTypeOK, Start, Later
<1>2. QED
  BY <1>1, SpacingInductive, RefinesLimiter, PTL DEF LimiterSpec, QuietKept

-----------------------------------------------------------------------------
(* How long callers wait.                                                  *)

Longest == Later(Interval, MaxPenalty)
After(s) == {t \in booked : t > s}

(* From every slot that is to come, and not just from now, the next slot   *)
(* is no farther than an interval for each slot behind it and the longest  *)
(* penalty: time then takes one slot from the count when it has passed an  *)
(* interval.                                                               *)
WaitInv ==
  /\ SpacingInv
  /\ IsFiniteSet(booked)
  /\ WaitBounded
  /\ \A s \in booked : s >= now =>
       next - s <= Longest + Interval * Cardinality(After(s))

LEMMA AfterFinite ==
  ASSUME IsFiniteSet(booked), NEW s
  PROVE  IsFiniteSet(After(s)) /\ Cardinality(After(s)) \in Nat
<1>1. After(s) \subseteq booked
  BY DEF After
<1>2. QED
  BY <1>1, FS_Subset, FS_CardinalityType

(* One more slot, behind all the others, is one more to count.             *)
LEMMA OneMore ==
  ASSUME SpacingInv, IsFiniteSet(booked), Start = next,
         booked' = booked \cup {Start}, NEW s \in Nat, s < next
  PROVE  Cardinality({t \in booked' : t > s}) = Cardinality(After(s)) + 1
<1>1. Start \notin After(s)
  BY LimiterAssumption DEF SpacingInv, LimiterTypeOK, After
<1>2. {t \in booked' : t > s} = After(s) \cup {Start}
  BY DEF After
<1>3. QED
  BY <1>1, <1>2, AfterFinite, FS_AddElement

LEMMA WaitInductive == LimiterSpec => []WaitInv
<1> USE LimiterAssumption
<1> DEFINE Step == [LimiterNext]_limiterVars
<1>0. Longest \in Nat /\ Longest >= Interval /\ Longest >= MaxPenalty
  BY DEF Longest, Later
<1>1. LimiterInit => IsFiniteSet(booked) /\ WaitBounded /\ booked = {}
  <2> SUFFICES ASSUME LimiterInit
               PROVE  IsFiniteSet(booked) /\ WaitBounded /\ booked = {}
    OBVIOUS
  <2>1. {s \in booked : s > now} = {} /\ booked = {}
    BY DEF LimiterInit
  <2>2. QED
    BY <1>0, <2>1, FS_EmptySet DEF LimiterInit, WaitBounded, Longest
<1>2. SpacingInv' /\ WaitInv /\ Step => WaitInv'
  <2> SUFFICES ASSUME SpacingInv', WaitInv, Step
               PROVE  WaitInv'
    OBVIOUS
  <2>0. /\ LimiterTypeOK /\ SpacingInv /\ booked \subseteq Nat
        /\ now \in Nat /\ next \in Nat
        /\ IsFiniteSet(booked)
    BY DEF WaitInv, SpacingInv, LimiterTypeOK
  <2>1. WaitBounded <=>
          next - now <= Longest + Interval * Cardinality(After(now))
    BY DEF WaitBounded, Longest, After
  <2>2. WaitBounded' <=>
          next' - now' <=
            Longest + Interval * Cardinality({t \in booked' : t > now'})
    BY DEF WaitBounded, Longest, After
  <2>3. \A s \in Nat : /\ Cardinality(After(s)) \in Nat
                       /\ Interval * Cardinality(After(s)) \in Nat
    BY <2>0, AfterFinite
  <2>4. (\A s \in booked' : s >= now' =>
           next' - s <=
             Longest + Interval * Cardinality({t \in booked' : t > s}))
        <=> (\A s \in booked : s >= now =>
               next - s <= Longest + Interval * Cardinality(After(s)))'
    BY DEF Longest, After
  <2>5. CASE /\ next' = Start + Interval /\ booked' = booked \cup {Start}
             /\ now' = now /\ quiet' = quiet
    <3>1. IsFiniteSet(booked')
      BY <2>0, <2>5, FS_AddElement
    <3>2. CASE next <= now
      <4>1. Start = now
        BY <2>0, <3>2 DEF Start, Later
      <4>2. \A s \in booked : s + Interval <= now
        BY <2>0, <3>2 DEF SpacingInv
      <4>3. \A s \in booked' : s >= now => s = now
        BY <2>0, <2>5, <4>1, <4>2
      <4>4. IsFiniteSet({t \in booked' : t > now})
        BY <3>1, FS_Subset
      <4>5. Interval * Cardinality({t \in booked' : t > now}) \in Nat
        BY <4>4, FS_CardinalityType
      <4>6. next' - now <=
              Longest + Interval * Cardinality({t \in booked' : t > now})
        BY <1>0, <2>0, <2>5, <4>1, <4>5
      <4>7. QED
        BY <2>2, <2>4, <2>5, <3>1, <4>3, <4>6 DEF WaitInv
    <3>3. CASE next > now
      <4>1. Start = next
        BY <2>0, <3>3 DEF Start, Later
      <4>2. ASSUME NEW s \in Nat, s < next,
                   next - s <= Longest + Interval * Cardinality(After(s))
            PROVE  next' - s <=
                     Longest + Interval * Cardinality({t \in booked' : t > s})
        <5>1. Cardinality({t \in booked' : t > s}) = Cardinality(After(s)) + 1
          BY <2>0, <2>5, <4>1, <4>2, OneMore
        <5>2. Cardinality(After(s)) \in Nat
          BY <2>3
        <5>3. Interval * (Cardinality(After(s)) + 1)
                = Interval * Cardinality(After(s)) + Interval
          BY <5>2
        <5>4. next' - s = next - s + Interval
          BY <2>0, <2>5, <4>1
        <5>5. QED
          BY <1>0, <2>0, <2>3, <4>2, <5>1, <5>3, <5>4
      <4>3. WaitBounded'
        BY <2>0, <2>1, <2>2, <2>5, <3>3, <4>2 DEF WaitInv
      <4>4. \A s \in booked : s \in Nat /\ s < next
        BY <2>0 DEF SpacingInv
      <4>5. IsFiniteSet({t \in booked' : t > next})
        BY <3>1, FS_Subset
      <4>6. Interval * Cardinality({t \in booked' : t > next}) \in Nat
        BY <4>5, FS_CardinalityType
      <4>7. next' - next <=
              Longest + Interval * Cardinality({t \in booked' : t > next})
        BY <1>0, <2>0, <2>5, <4>1, <4>6
      <4>8. ASSUME NEW s \in booked', s >= now'
            PROVE  next' - s <=
                     Longest + Interval * Cardinality({t \in booked' : t > s})
        <5>1. CASE s \in booked
          BY <2>5, <4>2, <4>4, <4>8, <5>1 DEF WaitInv
        <5>2. CASE s = next
          BY <4>7, <5>2
        <5>3. QED
          BY <2>5, <4>1, <4>8, <5>1, <5>2
      <4>9. QED
        BY <2>4, <3>1, <4>3, <4>8 DEF WaitInv
    <3>4. QED
      BY <2>0, <3>2, <3>3
  <2>6. ASSUME NEW p \in 0..MaxPenalty,
               /\ next' = Later(next, now + p) /\ booked' = booked
               /\ now' = now /\ quiet' = Later(quiet, now + p)
        PROVE  WaitInv'
    <3>1. ASSUME NEW s \in Nat, s >= now,
                 next - s <= Longest + Interval * Cardinality(After(s))
          PROVE  next' - s <= Longest + Interval * Cardinality(After(s))
      <4>1. next' \in {next, now + p}
        BY <2>6 DEF Later
      <4>2. now + p - s <= Longest
        BY <1>0, <2>0, <3>1
      <4>3. QED
        BY <1>0, <2>0, <2>3, <3>1, <4>1, <4>2
    <3>2. \A s : {t \in booked' : t > s} = After(s)
      BY <2>6 DEF After
    <3>3. WaitBounded'
      BY <2>0, <2>1, <2>2, <2>6, <3>1, <3>2 DEF WaitInv
    <3>4. \A s \in booked' : s >= now' =>
            next' - s <=
              Longest + Interval * Cardinality({t \in booked' : t > s})
      BY <2>0, <2>6, <3>1, <3>2 DEF WaitInv
    <3>5. QED
      BY <2>0, <2>4, <2>6, <3>3, <3>4 DEF WaitInv
  <2>7. CASE /\ next' = next /\ booked' = booked
             /\ now' = now /\ quiet' = quiet
    BY <2>0, <2>7 DEF WaitInv, WaitBounded, After
  <2>8. CASE /\ next' = next /\ quiet' = quiet
             /\ now' = now + 1
             /\ booked' = {s \in booked : s + Interval > now'}
    <3>1. IsFiniteSet(booked')
      BY <2>0, <2>8, FS_Subset
    <3>2. ASSUME NEW s \in Nat, s >= now'
          PROVE  {t \in booked' : t > s} = After(s)
      <4>1. now' \in Nat /\ Interval \in Nat
        BY <2>0, <2>8
      <4>2. \A t \in booked : t > s => t + Interval > now'
        BY <2>0, <3>2, <4>1
      <4>3. QED
        BY <2>8, <4>2 DEF After
    <3>3. \A s \in booked' : s \in booked /\ (s >= now' => s >= now)
      BY <2>0, <2>8
    <3>4. \A s \in booked' : s >= now' =>
            next' - s <=
              Longest + Interval * Cardinality({t \in booked' : t > s})
      BY <2>0, <2>8, <3>2, <3>3 DEF WaitInv
    <3>5. CASE now' \in booked
      <4>1. next - now' <= Longest + Interval * Cardinality(After(now'))
        BY <2>0, <2>8, <3>5 DEF WaitInv
      <4>2. WaitBounded'
        <5>1. now' \in Nat /\ now' >= now'
          BY <2>0, <2>8
        <5>2. {t \in booked' : t > now'} = After(now')
          BY <3>2, <5>1
        <5>3. QED
          BY <2>2, <2>8, <4>1, <5>2
      <4>3. QED
        BY <2>4, <3>1, <3>4, <4>2 DEF WaitInv
    <3>6. CASE now' \notin booked
      <4>1. After(now') = After(now)
        <5>1. \A t \in booked : t > now' <=> t > now
          BY <2>0, <2>8, <3>6
        <5>2. QED
          BY <5>1 DEF After
      <4>2. next - now <= Longest + Interval * Cardinality(After(now))
        BY <2>1 DEF WaitInv
      <4>3. now' \in Nat /\ now' >= now'
        BY <2>0, <2>8
      <4>4. {t \in booked' : t > now'} = After(now)
        BY <3>2, <4>1, <4>3
      <4>5. next' - now' <= next - now
        BY <2>0, <2>8
      <4>6. next' - now' <= Longest + Interval * Cardinality(After(now))
        BY <1>0, <2>0, <2>3, <2>8, <4>2, <4>3, <4>5
      <4>7. WaitBounded'
        BY <2>2, <4>4, <4>6
      <4>8. QED
        BY <2>4, <3>1, <3>4, <4>7 DEF WaitInv
    <3>7. QED
      BY <3>5, <3>6
  <2>9. QED
    BY <2>0, <2>5, <2>6, <2>7, <2>8, StepKinds
<1>3. LimiterInit /\ SpacingInv => WaitInv
  BY <1>1 DEF WaitInv
<1>4. QED
  BY <1>2, <1>3, SpacingInductive, PTL DEF LimiterSpec

(* The next caller waits a penalty or an interval at most, and an interval *)
(* for each slot that is still to come (ratelimit.go:93-138).              *)
THEOREM Waits == Spec => []WaitBounded
<1>1. WaitInv => WaitBounded
  BY DEF WaitInv
<1>2. QED
  BY <1>1, WaitInductive, RefinesLimiter, PTL

-----------------------------------------------------------------------------
(* The runs that page through the portal's list.                           *)

(* A run that has fetched some of its pages, and the page it is at: while  *)
(* it has one to fetch it has not fetched that one yet, and it has fetched *)
(* fewer than it may.                                                      *)
PagesOf(v) ==
  /\ {"page", "seen", "gap", "posts", "at", "due"} \subseteq DOMAIN v
  /\ v.page \in Nat
  /\ v.seen \in Seq(Nat)
  /\ IsInjective(v.seen)
  /\ Len(v.seen) <= MaxPages
  /\ v.page # 0 => v.page \notin Range(v.seen) /\ Len(v.seen) < MaxPages

LEMMA NotRunPages == PagesOf(NotRun)
<1>1. MaxPages \in Nat /\ 0 < MaxPages
  BY NumberAssumption
<1>2. <<>> \in Seq(Nat) /\ Len(<<>>) = 0 /\ DOMAIN <<>> = {}
  OBVIOUS
<1>3. IsInjective(<<>>) /\ Range(<<>>) = {}
  BY <1>2 DEF IsInjective, Range
<1>4. QED
  BY <1>1, <1>2, <1>3 DEF NotRun, PagesOf

(* One more page at the end.                                               *)
LEMMA OnePageMore ==
  ASSUME NEW v, PagesOf(v), v.page # 0
  PROVE  LET seen == Append(v.seen, v.page)
         IN seen \in Seq(Nat) /\ IsInjective(seen) /\ Len(seen) <= MaxPages
<1> DEFINE seen == Append(v.seen, v.page)
<1>1. /\ v.seen \in Seq(Nat) /\ v.page \in Nat /\ Len(v.seen) \in Nat
      /\ IsInjective(v.seen) /\ v.page \notin Range(v.seen)
      /\ Len(v.seen) < MaxPages /\ MaxPages \in Nat
  BY NumberAssumption DEF PagesOf
<1>2. /\ seen \in Seq(Nat) /\ Len(seen) = Len(v.seen) + 1
      /\ DOMAIN seen = 1..(Len(v.seen) + 1)
      /\ seen[Len(v.seen) + 1] = v.page
      /\ \A i \in 1..Len(v.seen) : seen[i] = v.seen[i]
  BY <1>1
<1>3. DOMAIN v.seen = 1..Len(v.seen)
  BY <1>1
<1>4. \A i \in 1..Len(v.seen) : v.seen[i] # v.page
  BY <1>1, <1>3 DEF Range
<1>5. ASSUME NEW i \in DOMAIN seen, NEW j \in DOMAIN seen, seen[i] = seen[j]
      PROVE  i = j
  <2>1. CASE i \in 1..Len(v.seen) /\ j \in 1..Len(v.seen)
    BY <1>1, <1>2, <1>3, <1>5, <2>1 DEF IsInjective
  <2>2. CASE i \notin 1..Len(v.seen) \/ j \notin 1..Len(v.seen)
    <3> DEFINE n == Len(v.seen)
    <3>1. n \in Nat /\ i \in 1..(n + 1) /\ j \in 1..(n + 1)
      BY <1>1, <1>2
    <3>2. \A k \in 1..n : seen[k] # v.page
      BY <1>2, <1>4
    <3> HIDE DEF n
    <3>3. i = n + 1 \/ i \in 1..n
      BY <3>1
    <3>4. j = n + 1 \/ j \in 1..n
      BY <3>1
    <3> QED BY <1>2, <1>5, <2>2, <3>2, <3>3, <3>4 DEF n
  <2>3. QED
    BY <2>1, <2>2
<1>6. IsInjective(seen)
  BY <1>5 DEF IsInjective
<1>7. QED
  BY <1>1, <1>2, <1>6

-----------------------------------------------------------------------------
(* Sequences.                                                              *)

(* A set of numbers that is not empty has a least one.                     *)
LEMMA LeastNumber ==
  ASSUME NEW T \in SUBSET Nat, T # {}
  PROVE  \E m \in T : \A k \in T : m <= k
<1>1. PICK m \in T : \A k \in T : ~(<<k, m>> \in OpToRel(<, Nat))
  BY NatLessThanWellFounded, WFMin
<1>2. \A k \in T : ~(k < m)
  BY <1>1, Zenon DEF OpToRel
<1> QED BY <1>2

(* Recursion over 1..n, and what it keeps: the functions that the model    *)
(* defines by recursion exist, and are of the values they start from.      *)
LEMMA DelayFacts ==
  \A n \in 1..PortalAttempts : Delay[n] \in Nat
<1> DEFINE Solves(f, n) ==
             f = [i \in 1..n |->
                    IF i = 1 THEN PortalBackoff ELSE 2 * f[i - 1]]
           T == {n \in Nat : ~\E f : Solves(f, n)}
<1>1. T = {}
  <2> SUFFICES ASSUME T # {}
               PROVE  FALSE
    OBVIOUS
  <2>1. PICK m \in T : \A k \in T : m <= k
    BY LeastNumber
  <2>2. m # 0
    <3>1. Solves([i \in 1..0 |-> 0], 0)
      OBVIOUS
    <3> QED BY <2>1, <3>1
  <2>3. m - 1 \in Nat /\ m - 1 \notin T
    <3>1. m \in Nat
      BY <2>1
    <3>2. m - 1 \in Nat /\ ~(m <= m - 1)
      BY <2>2, <3>1
    <3> HIDE DEF T
    <3> QED BY <2>1, <3>2
  <2>4. PICK g : Solves(g, m - 1)
    BY <2>3
  <2> DEFINE h == [i \in 1..m |->
                     IF i = 1 THEN PortalBackoff ELSE 2 * g[i - 1]]
  <2>5. \A i \in 1..(m - 1) : h[i] = g[i]
    BY <2>3, <2>4
  <2>6. \A i \in 1..m : i # 1 => i - 1 \in 1..(m - 1)
    BY <2>3
  <2>7. \A i \in 1..m :
          (IF i = 1 THEN PortalBackoff ELSE 2 * g[i - 1])
            = IF i = 1 THEN PortalBackoff ELSE 2 * h[i - 1]
    BY <2>5, <2>6
  <2>8. Solves(h, m)
    BY <2>7
  <2> QED BY <2>1, <2>8
<1>2. Solves(Delay, PortalAttempts)
  <2>1. PortalAttempts \in Nat
    BY NumberAssumption
  <2>2. \E f : Solves(f, PortalAttempts)
    BY <1>1, <2>1
  <2> QED BY <2>2 DEF Delay
<1> DEFINE B == {n \in Nat : n \in 1..PortalAttempts /\ Delay[n] \notin Nat}
<1>3. B = {}
  <2> SUFFICES ASSUME B # {}
               PROVE  FALSE
    OBVIOUS
  <2>1. PICK m \in B : \A k \in B : m <= k
    BY LeastNumber
  <2>2. m # 1
    BY <1>2, <2>1, NumberAssumption
  <2>3. Delay[m] = 2 * Delay[m - 1]
    BY <1>2, <2>1, <2>2
  <2>4. Delay[m - 1] \in Nat
    BY <2>1, <2>2, NumberAssumption
  <2> QED BY <2>1, <2>3, <2>4
<1> QED BY <1>3, NumberAssumption

(* What a page's cards add to the postings of a run: those that are kept,  *)
(* with those there were.                                                  *)
CardsFrom(posts, cards, f, n) ==
  f = [i \in 0..n |->
         IF i = 0 THEN posts
         ELSE IF Kept(f[i - 1], cards[i])
              THEN Append(f[i - 1], cards[i]) ELSE f[i - 1]]

LEMMA CardsExist ==
  ASSUME NEW posts, NEW cards, NEW n \in Nat
  PROVE  \E f : CardsFrom(posts, cards, f, n)
<1> DEFINE T == {k \in Nat : ~\E f : CardsFrom(posts, cards, f, k)}
<1> SUFFICES ASSUME T # {}
             PROVE  FALSE
  OBVIOUS
<1>1. PICK m \in T : \A k \in T : m <= k
  BY LeastNumber
<1>2. m # 0
  <2>1. CardsFrom(posts, cards, [i \in 0..0 |-> posts], 0)
    BY DEF CardsFrom
  <2> QED BY <1>1, <2>1
<1>3. m - 1 \in Nat /\ m - 1 \notin T
  <2>1. m \in Nat
    BY <1>1
  <2>2. m - 1 \in Nat /\ ~(m <= m - 1)
    BY <1>2, <2>1
  <2> HIDE DEF T
  <2> QED BY <1>1, <2>2
<1>4. PICK g : CardsFrom(posts, cards, g, m - 1)
  BY <1>3
<1> DEFINE Step(f, i) == IF i = 0 THEN posts
                         ELSE IF Kept(f[i - 1], cards[i])
                              THEN Append(f[i - 1], cards[i]) ELSE f[i - 1]
           h == [i \in 0..m |-> Step(g, i)]
<1>5. \A i \in 0..(m - 1) : h[i] = g[i]
  <2>1. g = [i \in 0..(m - 1) |-> Step(g, i)]
    BY <1>4 DEF CardsFrom
  <2> HIDE DEF Step
  <2>2. \A i \in 0..(m - 1) : g[i] = Step(g, i) /\ i \in 0..m
    BY <1>3, <2>1
  <2> QED BY <2>2
<1>6. \A i \in 0..m : i # 0 => i - 1 \in 0..(m - 1)
  BY <1>3
<1>7. \A i \in 0..m : Step(g, i) = Step(h, i)
  <2> SUFFICES ASSUME NEW i \in 0..m
               PROVE  Step(g, i) = Step(h, i)
    OBVIOUS
  <2>1. i # 0 => h[i - 1] = g[i - 1]
    BY <1>5, <1>6
  <2> HIDE DEF h
  <2> QED BY <2>1
<1>8. CardsFrom(posts, cards, h, m)
  <2>1. h = [i \in 0..m |-> Step(h, i)]
    <3>1. \A i \in 0..m : h[i] = Step(h, i)
      BY <1>7
    <3> QED BY <1>7
  <2> QED BY <2>1 DEF CardsFrom
<1> QED BY <1>1, <1>8

LEMMA OneCardMore ==
  ASSUME NEW posts \in Seq(Posting), NEW p \in Posting
  PROVE  LET more == Append(posts, p)
         IN /\ more \in Seq(Posting)
            /\ Range(more) = Range(posts) \cup {p}
            /\ IsInjective(posts) /\ p \notin Range(posts)
                 => IsInjective(more)
<1> DEFINE more == Append(posts, p)
<1>1. /\ more \in Seq(Posting) /\ Len(posts) \in Nat
      /\ DOMAIN more = 1..(Len(posts) + 1) /\ DOMAIN posts = 1..Len(posts)
      /\ \A i \in 1..Len(posts) : more[i] = posts[i]
      /\ more[Len(posts) + 1] = p
  OBVIOUS
<1> HIDE DEF more
<1>2. Range(more) = Range(posts) \cup {p}
  <2>1. \A i \in 1..(Len(posts) + 1) :
          i \in 1..Len(posts) \/ i = Len(posts) + 1
    BY <1>1
  <2>2. Len(posts) + 1 \in 1..(Len(posts) + 1)
        /\ 1..Len(posts) \subseteq 1..(Len(posts) + 1)
    BY <1>1
  <2> QED BY <1>1, <2>1, <2>2 DEF Range
<1>3. ASSUME IsInjective(posts), p \notin Range(posts)
      PROVE  IsInjective(more)
  <2> SUFFICES ASSUME NEW i \in DOMAIN more, NEW j \in DOMAIN more,
                      more[i] = more[j]
               PROVE  i = j
    BY DEF IsInjective
  <2>1. \A k \in 1..Len(posts) : posts[k] # p
    BY <1>1, <1>3 DEF Range
  <2>2. CASE i \in 1..Len(posts) /\ j \in 1..Len(posts)
    BY <1>1, <1>3, <2>2 DEF IsInjective
  <2>3. CASE i \notin 1..Len(posts) \/ j \notin 1..Len(posts)
    BY <1>1, <2>1, <2>3
  <2> QED BY <2>2, <2>3
<1> QED BY <1>1, <1>2, <1>3 DEF more

LEMMA WithPageFacts ==
  ASSUME NEW posts \in Seq(Posting), NEW cards \in Seq(Posting)
  PROVE  LET all == WithPage(posts, cards)
         IN /\ all \in Seq(Posting)
            /\ Range(posts) \subseteq Range(all)
            /\ Range(cards) \ Untitled \subseteq Range(all)
            /\ here.portal = "jobindex" /\ IsInjective(posts)
                 => IsInjective(all)
<1> DEFINE all == WithPage(posts, cards)
           Right(k, f) ==
             /\ f \in Seq(Posting)
             /\ Range(posts) \subseteq Range(f)
             /\ \A i \in 1..k : cards[i] \notin Untitled
                                  => cards[i] \in Range(f)
             /\ here.portal = "jobindex" /\ IsInjective(posts)
                  => IsInjective(f)
<1>1. PICK after : /\ CardsFrom(posts, cards, after, Len(cards))
                   /\ all = after[Len(cards)]
  <2>1. Len(cards) \in Nat
    OBVIOUS
  <2>2. \E f : CardsFrom(posts, cards, f, Len(cards))
    BY <2>1, CardsExist
  <2> QED BY <2>2 DEF CardsFrom, WithPage
<1> HIDE DEF all
<1>2. after[0] = posts
      /\ \A i \in 1..Len(cards) :
           after[i] = IF Kept(after[i - 1], cards[i])
                      THEN Append(after[i - 1], cards[i]) ELSE after[i - 1]
  <2> DEFINE Step(i) == IF i = 0 THEN posts
                        ELSE IF Kept(after[i - 1], cards[i])
                             THEN Append(after[i - 1], cards[i])
                             ELSE after[i - 1]
  <2>1. after = [i \in 0..Len(cards) |-> Step(i)]
    BY <1>1 DEF CardsFrom
  <2>2. Len(cards) \in Nat /\ 0 \in 0..Len(cards)
        /\ \A i \in 1..Len(cards) : i \in 0..Len(cards) /\ i # 0
    OBVIOUS
  <2> HIDE DEF Step
  <2>3. after[0] = Step(0) /\ \A i \in 1..Len(cards) : after[i] = Step(i)
    BY <2>1, <2>2
  <2> QED BY <2>2, <2>3 DEF Step
<1>3. ASSUME NEW k \in 0..(Len(cards) - 1), Right(k, after[k])
      PROVE  Right(k + 1, after[k + 1])
  <2>1. /\ k + 1 \in 1..Len(cards) /\ (k + 1) - 1 = k
        /\ cards[k + 1] \in Posting
        /\ \A i \in 1..(k + 1) : i \in 1..k \/ i = k + 1
    OBVIOUS
  <2> DEFINE p == cards[k + 1]
             f == after[k]
             g == after[k + 1]
  <2>2. g = IF Kept(f, p) THEN Append(f, p) ELSE f
    BY <1>2, <2>1
  <2>3. f \in Seq(Posting) /\ p \in Posting
    BY <1>3, <2>1
  <2>4. CASE Kept(f, p)
    <3>1. /\ g \in Seq(Posting) /\ Range(g) = Range(f) \cup {p}
          /\ IsInjective(f) /\ p \notin Range(f) => IsInjective(g)
      BY <2>2, <2>3, <2>4, OneCardMore
    <3>2. here.portal = "jobindex" => p \notin Range(f)
      BY <2>4 DEF Kept
    <3> HIDE DEF f, g, p
    <3>3. \A i \in 1..(k + 1) : cards[i] \notin Untitled
                                  => cards[i] \in Range(g)
      BY <1>3, <2>1, <3>1 DEF f, p
    <3>4. Right(k + 1, g)
      BY <1>3, <3>1, <3>2, <3>3 DEF f
    <3> QED BY <3>4 DEF g
  <2>5. CASE ~Kept(f, p)
    <3>1. g = f
      BY <2>2, <2>5
    <3>2. p \notin Untitled => p \in Range(f)
      BY <2>5 DEF Kept
    <3> HIDE DEF f, g, p
    <3>3. \A i \in 1..(k + 1) : cards[i] \notin Untitled
                                  => cards[i] \in Range(g)
      BY <1>3, <2>1, <3>1, <3>2 DEF f, p
    <3>4. Right(k + 1, g)
      BY <1>3, <3>1, <3>3 DEF f
    <3> QED BY <3>4 DEF g
  <2> QED BY <2>4, <2>5
<1> HIDE DEF Right
<1>4. Right(0, after[0])
  BY <1>2 DEF Right
<1> DEFINE B == {k \in Nat : k <= Len(cards) /\ ~Right(k, after[k])}
<1>5. B = {}
  <2> SUFFICES ASSUME B # {}
               PROVE  FALSE
    OBVIOUS
  <2>1. PICK m \in B : \A k \in B : m <= k
    BY LeastNumber
  <2>2. m \in Nat /\ m <= Len(cards) /\ ~Right(m, after[m]) /\ m # 0
        /\ Len(cards) \in Nat
    BY <1>4, <2>1
  <2>3. m - 1 \in 0..(Len(cards) - 1) /\ ~(m <= m - 1) /\ (m - 1) + 1 = m
    BY <2>2
  <2>4. Right(m - 1, after[m - 1])
    BY <2>1, <2>2, <2>3
  <2>5. Right((m - 1) + 1, after[(m - 1) + 1])
    BY <1>3, <2>3, <2>4
  <2> QED BY <2>2, <2>3, <2>5
<1>6. Right(Len(cards), all)
  BY <1>1, <1>5
<1>7. \A p \in Range(cards) : \E i \in 1..Len(cards) : p = cards[i]
  BY DEF Range
<1> QED BY <1>6, <1>7 DEF Right, all

(* What the portal lists from page n on.                                   *)
Ahead(list, n) ==
  {list[i] : i \in {j \in DOMAIN list : j > (n - 1) * PageSize}}

(* A page holds what lies ahead up to the next one.                        *)
LEMMA PageOfFacts ==
  ASSUME site \in Seq(Posting), NEW n \in Nat \ {0}
  PROVE  /\ PageOf(n) \in Seq(Posting)
         /\ Ahead(site, n) \subseteq
              Range(PageOf(n)) \cup
                IF HasNext(n) THEN Ahead(site, n + 1) ELSE {}
<1> DEFINE from == (n - 1) * PageSize
           to == IF HasNext(n) THEN n * PageSize ELSE Len(site)
<1>1. /\ from \in Nat /\ n * PageSize \in Nat
      /\ ((n + 1) - 1) * PageSize = n * PageSize
  <2>1. PageSize \in Nat /\ n - 1 \in Nat /\ (n + 1) - 1 = n
    BY NumberAssumption
  <2> QED BY <2>1
<1>2. /\ Len(site) \in Nat /\ DOMAIN site = 1..Len(site)
      /\ to \in Nat /\ to <= Len(site)
  BY <1>1 DEF HasNext
<1>3. PageOf(n) = SubSeq(site, from + 1, to)
  BY DEF PageOf
<1> HIDE DEF from, to
<1>4. \A i \in (from + 1)..to : site[i] \in Posting
  BY <1>1, <1>2
<1>5. /\ PageOf(n) \in Seq(Posting)
      /\ Len(PageOf(n)) = IF from + 1 <= to THEN to - (from + 1) + 1 ELSE 0
      /\ \A i \in 1..(to - (from + 1) + 1) :
           PageOf(n)[i] = site[(from + 1) + i - 1]
  <2>1. from + 1 \in Int /\ to \in Int
    BY <1>1, <1>2
  <2> QED BY <1>3, <1>4, <2>1, SubSeqProperties
<1>6. ASSUME NEW j \in DOMAIN site, j > from, j <= to
      PROVE  site[j] \in Range(PageOf(n))
  <2>1. /\ j - from \in 1..(to - (from + 1) + 1)
        /\ (from + 1) + (j - from) - 1 = j
        /\ Len(PageOf(n)) = to - (from + 1) + 1
    BY <1>1, <1>2, <1>5, <1>6
  <2>2. j - from \in DOMAIN PageOf(n)
    BY <1>5, <2>1
  <2> QED BY <1>5, <2>1, <2>2 DEF Range
<1>7. ASSUME NEW p \in Ahead(site, n)
      PROVE  \/ p \in Range(PageOf(n))
             \/ HasNext(n) /\ p \in Ahead(site, n + 1)
  <2>1. PICK j \in DOMAIN site : j > from /\ p = site[j]
    BY DEF Ahead, from
  <2>2. CASE j <= to
    BY <1>6, <2>1, <2>2
  <2>3. CASE j > to
    <3>1. to # Len(site)
      <4>1. j \in Nat /\ j <= Len(site) /\ Len(site) \in Nat /\ to \in Nat
        BY <1>2
      <4>2. to < Len(site)
        BY <2>3, <4>1
      <4> QED BY <4>1, <4>2
    <3>2. HasNext(n) /\ to = n * PageSize
      BY <3>1 DEF to
    <3> QED BY <1>1, <2>1, <2>3, <3>2 DEF Ahead
  <2>4. j \in Nat /\ to \in Nat
    BY <1>2
  <2> QED BY <2>2, <2>3, <2>4
<1> QED BY <1>5, <1>7

(* At the start of the list everything lies ahead, and what comes up at    *)
(* its front moves the rest on.                                            *)
LEMMA AheadFacts ==
  ASSUME site \in Seq(Posting)
  PROVE  /\ Range(site) = Ahead(site, 1)
         /\ \A p \in Posting, n \in Nat :
              Ahead(site, n) \subseteq Ahead(<<p>> \o site, n)
<1>1. /\ Len(site) \in Nat /\ DOMAIN site = 1..Len(site)
      /\ (1 - 1) * PageSize = 0
  BY NumberAssumption
<1>2. Range(site) = Ahead(site, 1)
  BY <1>1 DEF Range, Ahead
<1>3. ASSUME NEW p \in Posting, NEW n \in Nat
      PROVE  Ahead(site, n) \subseteq Ahead(<<p>> \o site, n)
  <2> DEFINE from == (n - 1) * PageSize
             longer == <<p>> \o site
  <2>1. from \in Int
    BY NumberAssumption
  <2>2. /\ DOMAIN longer = 1..(Len(site) + 1)
        /\ \A j \in 1..Len(site) : longer[j + 1] = site[j]
    BY <1>1
  <2> HIDE DEF from, longer
  <2>3. \A j \in 1..Len(site) : j > from =>
          j + 1 \in 1..(Len(site) + 1) /\ j + 1 > from
    BY <1>1, <2>1
  <2>4. ASSUME NEW q \in Ahead(site, n)
        PROVE  q \in Ahead(longer, n)
    <3>1. PICK j \in 1..Len(site) : j > from /\ q = site[j]
      BY <1>1 DEF Ahead, from
    <3>2. /\ j + 1 \in DOMAIN longer /\ j + 1 > from
          /\ longer[j + 1] = q
      BY <2>2, <2>3, <3>1
    <3> QED BY <3>2 DEF Ahead, from
  <2> QED BY <2>4 DEF longer
<1> QED BY <1>2, <1>3

(* What is left when the first posting is stored.                          *)
LEMMA TailFacts ==
  ASSUME NEW posts \in Seq(Posting), posts # <<>>
  PROVE  /\ Head(posts) \in Posting /\ Tail(posts) \in Seq(Posting)
         /\ Range(posts) \subseteq {Head(posts)} \cup Range(Tail(posts))
         /\ IsInjective(posts) => IsInjective(Tail(posts))
<1> DEFINE n == Len(posts)
           rest == Tail(posts)
<1>1. /\ n \in Nat /\ n >= 1 /\ DOMAIN posts = 1..n
      /\ Head(posts) = posts[1] /\ Head(posts) \in Posting
      /\ rest \in Seq(Posting) /\ DOMAIN rest = 1..(n - 1)
      /\ \A i \in 1..(n - 1) : rest[i] = posts[i + 1]
  <2>1. n \in Nat /\ n # 0 /\ DOMAIN posts = 1..n
    OBVIOUS
  <2>2. /\ Head(posts) \in Posting /\ rest \in Seq(Posting)
        /\ Len(rest) = n - 1
        /\ \A i \in 1..Len(rest) : rest[i] = posts[i + 1]
    BY HeadTailProperties
  <2>3. Head(posts) = posts[1] /\ DOMAIN rest = 1..Len(rest)
    BY <2>2
  <2> QED BY <2>1, <2>2, <2>3
<1> HIDE DEF n, rest
<1>2. Range(posts) \subseteq {Head(posts)} \cup Range(rest)
  <2> SUFFICES ASSUME NEW i \in 1..n, i # 1
               PROVE  posts[i] \in Range(rest)
    BY <1>1 DEF Range
  <2>1. i - 1 \in 1..(n - 1) /\ (i - 1) + 1 = i
    BY <1>1
  <2>2. i - 1 \in DOMAIN rest /\ rest[i - 1] = posts[i]
    BY <1>1, <2>1
  <2> QED BY <2>2 DEF Range
<1>3. ASSUME IsInjective(posts)
      PROVE  IsInjective(rest)
  <2> SUFFICES ASSUME NEW i \in 1..(n - 1), NEW j \in 1..(n - 1),
                      rest[i] = rest[j]
               PROVE  i = j
    BY <1>1 DEF IsInjective
  <2>1. i + 1 \in 1..n /\ j + 1 \in 1..n /\ posts[i + 1] = posts[j + 1]
    BY <1>1
  <2>2. i + 1 = j + 1
    BY <1>1, <1>3, <2>1 DEF IsInjective
  <2> QED BY <1>1, <2>2
<1> QED BY <1>1, <1>2, <1>3 DEF rest

LEMMA RemoveAtType ==
  ASSUME NEW list \in Seq(Posting), NEW i \in DOMAIN list
  PROVE  RemoveAt(list, i) \in Seq(Posting)
<1>1. /\ DOMAIN list = 1..Len(list) /\ Len(list) \in Nat
      /\ i - 1 \in Int /\ i + 1 \in Int
  OBVIOUS
<1>2. SubSeq(list, 1, i - 1) \in Seq(Posting)
  <2>1. \A j \in 1..(i - 1) : list[j] \in Posting
    BY <1>1
  <2> QED BY <1>1, <2>1, SubSeqProperties
<1>3. SubSeq(list, i + 1, Len(list)) \in Seq(Posting)
  <2>1. \A j \in (i + 1)..Len(list) : list[j] \in Posting
    BY <1>1
  <2> QED BY <1>1, <2>1, SubSeqProperties
<1> QED BY <1>2, <1>3 DEF RemoveAt

-----------------------------------------------------------------------------
(* The inductive invariant of RunInv.  A run that is at the portal has     *)
(* every posting it saw listed at first among its postings, or ahead of    *)
(* the page it is to fetch; one that stores has stored what is no longer   *)
(* among its postings.  A posting that goes moves what is ahead over the   *)
(* edge of a page, so nothing is said of a run with a gap.                 *)

Whole(r, v, c, list, done) ==
  /\ c.at = "idle" <=> v.at # "search"
  /\ c.at = "wait" => v.page = 1 /\ v.due = {}
  /\ ~v.gap =>
       \A p \in v.due \ Untitled :
         /\ v.at = "search" =>
              \/ p \in Range(v.posts)
              \/ v.page # 0 /\ p \in Ahead(list, v.page)
         /\ v.at = "store" /\ p \notin Nameless =>
              p \in Range(v.posts) \/ <<p, r>> \in done
         /\ v.at = "done" /\ p \notin Nameless => <<p, r>> \in done

RunOK(r, v, c, list, done) ==
  /\ v \in Runs
  /\ PagesOf(v)
  /\ here.portal = "jobindex" => IsInjective(v.posts)
  /\ Whole(r, v, c, list, done)

RunIInv ==
  /\ here \in Scenarios /\ stopping \in BOOLEAN
  /\ site \in Seq(Posting) /\ unlisted \subseteq Posting
  /\ run \in [Search -> Runs]
  /\ stored \subseteq (Posting \ Nameless) \X Search
  /\ \A r \in Search : RunOK(r, run[r], call[r], site, stored)

LEMMA NotRunFacts ==
  /\ NotRun \in Runs /\ PagesOf(NotRun) /\ IsInjective(NotRun.posts)
  /\ NotRun.posts = <<>> /\ NotRun.due = {}
<1>1. 1 \in 1..PortalAttempts
  BY NumberAssumption
<1>2. NotRun \in Runs
  BY <1>1 DEF NotRun, Runs
<1>3. IsInjective(<<>>)
  <2>1. DOMAIN <<>> = {}
    OBVIOUS
  <2> QED BY <2>1 DEF IsInjective
<1> QED BY <1>2, <1>3, NotRunPages DEF NotRun

(* A run that has just begun, waits to try again, has failed or never ran  *)
(* owes nothing.                                                           *)
LEMMA RestartedOK ==
  ASSUME NEW r \in Search, NEW c, NEW list, NEW done, NEW v \in Runs,
         v.at \in {"new", "search", "backoff", "failed"},
         v.page = NotRun.page, v.seen = NotRun.seen,
         v.posts = NotRun.posts, v.due = NotRun.due,
         c.at \in {"idle", "wait", "call"}, c.at = "idle" <=> v.at # "search"
  PROVE  RunOK(r, v, c, list, done)
<1>1. PagesOf(v)
  <2>1. {"page", "seen", "gap", "posts", "at", "due"} \subseteq DOMAIN v
    BY DEF Runs
  <2> QED BY <2>1, NotRunFacts DEF PagesOf
<1>2. Whole(r, v, c, list, done)
  <2>1. NotRun.page = 1 /\ NotRun.due = {}
    BY DEF NotRun
  <2> QED BY <2>1 DEF Whole
<1> QED BY <1>1, <1>2, NotRunFacts DEF RunOK

(* One run changes, and the others neither.                                *)
LEMMA RunBecomes ==
  ASSUME RunIInv, NEW r \in Search, NEW v, Becomes(r, v),
         UNCHANGED <<here, stopping, site, unlisted>>,
         \A q \in Search : q # r => call'[q] = call[q],
         stored \subseteq stored',
         stored' \subseteq (Posting \ Nameless) \X Search,
         RunOK(r, v, call'[r], site, stored')
  PROVE  RunIInv'
<1>1. ASSUME NEW q \in Search
      PROVE  RunOK(q, run'[q], call'[q], site, stored')
  <2>1. CASE q = r
    <3>1. run'[q] = v
      BY <2>1 DEF Becomes, RunIInv
    <3> QED BY <2>1, <3>1
  <2>2. CASE q # r
    <3>1. run'[q] = run[q] /\ call'[q] = call[q]
      BY <2>2 DEF Becomes, RunIInv
    <3>2. RunOK(q, run[q], call[q], site, stored)
      BY DEF RunIInv
    <3>3. RunOK(q, run[q], call[q], site, stored')
      <4>1. Whole(q, run[q], call[q], site, stored')
        BY <3>2 DEF RunOK, Whole
      <4> QED BY <3>2, <4>1 DEF RunOK
    <3> QED BY <3>1, <3>3
  <2> QED BY <2>1, <2>2
<1>2. run' \in [Search -> Runs]
  BY DEF Becomes, RunIInv, RunOK
<1> QED BY <1>1, <1>2 DEF RunIInv, RunOK, Kept

LEMMA CallsApart ==
  ASSUME LimiterTypeOK, NEW r \in Search, NEW at, NEW slot,
         CallAt(r, at, slot)
  PROVE  /\ call'[r].at = at
         /\ \A q \in Search : q # r => call'[q] = call[q]
BY CallerAssumption DEF CallAt, LimiterTypeOK

(* What is known of a run before it steps.                                 *)
LEMMA BeforeStep ==
  ASSUME RunIInv, LimiterTypeOK, NEW r \in Search
  PROVE  /\ RunOK(r, run[r], call[r], site, stored)
         /\ call[r].at \in {"idle", "wait", "call"}
         /\ run[r] \in Runs
         /\ stored \subseteq (Posting \ Nameless) \X Search
BY CallerAssumption DEF RunIInv, LimiterTypeOK, Calls, RunOK

LEMMA EndsOK ==
  ASSUME RunIInv, NEW r \in Search, NEW c, c.at = "idle", Ends(r, "failed")
  PROVE  \E v : Becomes(r, v) /\ RunOK(r, v, c, site, stored)
<1> DEFINE v == [NotRun EXCEPT !.at = "failed"]
<1>1. /\ v.at = "failed" /\ v.page = NotRun.page /\ v.seen = NotRun.seen
      /\ v.posts = NotRun.posts /\ v.due = NotRun.due
  BY DEF NotRun
<1>2. v \in Runs
  BY NotRunFacts DEF Runs
<1> HIDE DEF v
<1>3. RunOK(r, v, c, site, stored)
  BY <1>1, <1>2, RestartedOK
<1> QED BY <1>3 DEF Ends, v

LEMMA StartSearchKeeps ==
  ASSUME RunIInv, LimiterTypeOK, NEW r \in Search, StartSearch(r)
  PROVE  RunIInv'
<1> DEFINE v == [NotRun EXCEPT !.at = "search", !.attempt = run[r].attempt]
<1>1. /\ v.at = "search" /\ v.page = NotRun.page /\ v.seen = NotRun.seen
      /\ v.posts = NotRun.posts /\ v.due = NotRun.due
  BY DEF NotRun
<1>2. v \in Runs
  <2>1. run[r].attempt \in 1..PortalAttempts
    BY BeforeStep DEF Runs
  <2> QED BY <2>1, NotRunFacts DEF Runs
<1>3. call'[r].at = "wait" /\ \A q \in Search : q # r => call'[q] = call[q]
  BY CallsApart DEF StartSearch, Reserve
<1>4. Becomes(r, v) /\ UNCHANGED <<here, stopping, site, unlisted, stored>>
  BY DEF StartSearch
<1> HIDE DEF v
<1>5. RunOK(r, v, call'[r], site, stored)
  BY <1>1, <1>2, <1>3, RestartedOK
<1> QED BY <1>3, <1>4, <1>5, BeforeStep, RunBecomes

LEMMA SearchBeginsKeeps ==
  ASSUME RunIInv, LimiterTypeOK, NEW r \in Search, SearchBegins(r)
  PROVE  RunIInv'
<1> DEFINE v == [run[r] EXCEPT !.due = Range(site)]
<1>1. call'[r].at = "call" /\ \A q \in Search : q # r => call'[q] = call[q]
  BY CallsApart DEF SearchBegins, WaitEnds
<1>2. RunOK(r, run[r], call[r], site, stored)
  BY BeforeStep
<1>3. /\ v.at = run[r].at /\ v.page = run[r].page /\ v.seen = run[r].seen
      /\ v.posts = run[r].posts /\ v.due = Range(site)
      /\ DOMAIN v = DOMAIN run[r]
  BY <1>2 DEF RunOK, Runs
<1>4. v \in Runs
  <2>1. Range(site) \subseteq Posting
    BY DEF RunIInv, Range
  <2> QED BY <1>2, <2>1 DEF RunOK, Runs
<1> HIDE DEF v
<1>5. call[r].at = "wait" /\ run[r].at = "search" /\ run[r].page = 1
  BY <1>2 DEF SearchBegins, WaitEnds, RunOK, Whole
<1>6. Range(site) = Ahead(site, 1)
  BY AheadFacts DEF RunIInv
<1>7. Whole(r, v, call'[r], site, stored)
  BY <1>1, <1>3, <1>5, <1>6 DEF Whole
<1>8. PagesOf(v)
  BY <1>2, <1>3 DEF RunOK, PagesOf
<1>9. RunOK(r, v, call'[r], site, stored)
  BY <1>2, <1>3, <1>4, <1>7, <1>8 DEF RunOK
<1>10. Becomes(r, v) /\ UNCHANGED <<here, stopping, site, unlisted, stored>>
  BY DEF SearchBegins, v
<1> QED BY <1>1, <1>9, <1>10, BeforeStep, RunBecomes

LEMMA FetchPageKeeps ==
  ASSUME RunIInv, LimiterTypeOK, NEW r \in Search,
         NEW link \in 0..(MaxPages + 1), FetchPage(r, link)
  PROVE  RunIInv'
<1> DEFINE n == run[r].page
           seen == Append(run[r].seen, n)
           follows == Visits(seen, link)
           posts == WithPage(run[r].posts, PageOf(n))
           page == IF link # 0 /\ follows THEN link ELSE 0
           gap == run[r].gap \/ (HasNext(n) /\ ~follows)
           v == [run[r] EXCEPT !.seen = seen, !.posts = posts,
                               !.page = page, !.gap = gap]
<1>1. /\ n # 0 /\ call[r].at = "call" /\ Becomes(r, v)
      /\ UNCHANGED <<limiterVars, here, stopping, site, unlisted, stored>>
      /\ link \in IF HasNext(n) THEN {n + 1} ELSE {0} \cup Range(seen)
  BY DEF FetchPage, Walking
<1>2. RunOK(r, run[r], call[r], site, stored) /\ site \in Seq(Posting)
  BY BeforeStep DEF RunIInv
<1>3. run[r].at = "search" /\ PagesOf(run[r]) /\ run[r] \in Runs
  BY <1>1, <1>2 DEF RunOK, Whole
<1>4. /\ n \in Nat \ {0} /\ run[r].posts \in Seq(Posting)
      /\ page \in Nat /\ gap \in BOOLEAN
  BY <1>1, <1>3, NumberAssumption DEF Runs
<1>5. seen \in Seq(Nat) /\ IsInjective(seen) /\ Len(seen) <= MaxPages
  BY <1>1, <1>3, OnePageMore
<1>6. page # 0 => page \notin Range(seen) /\ Len(seen) < MaxPages
  BY DEF Visits
<1>7. /\ PageOf(n) \in Seq(Posting)
      /\ Ahead(site, n) \subseteq
           Range(PageOf(n)) \cup
             IF HasNext(n) THEN Ahead(site, n + 1) ELSE {}
  BY <1>2, <1>4, PageOfFacts
<1> HIDE DEF n
<1>8. /\ posts \in Seq(Posting) /\ Range(run[r].posts) \subseteq Range(posts)
      /\ Range(PageOf(n)) \ Untitled \subseteq Range(posts)
      /\ here.portal = "jobindex" /\ IsInjective(run[r].posts)
           => IsInjective(posts)
  BY <1>4, <1>7, WithPageFacts
<1>9. HasNext(n) /\ ~gap => page = n + 1
  BY <1>1, <1>4
<1> HIDE DEF seen, follows, posts, page, gap
<1>10. /\ v.at = "search" /\ v.page = page /\ v.seen = seen
       /\ v.posts = posts /\ v.due = run[r].due /\ v.gap = gap
       /\ DOMAIN v = DOMAIN run[r]
  BY <1>3 DEF Runs
<1>11. v \in Runs
  BY <1>3, <1>4, <1>5, <1>8 DEF Runs
<1> HIDE DEF v
<1>12. PagesOf(v)
  BY <1>3, <1>4, <1>5, <1>6, <1>10 DEF PagesOf
<1>13. ASSUME ~gap, NEW p \in run[r].due \ Untitled
       PROVE  p \in Range(posts) \/ (page # 0 /\ p \in Ahead(site, page))
  <2>1. p \in Range(run[r].posts) \/ p \in Ahead(site, n)
    <3>1. ~run[r].gap
      BY <1>13 DEF gap
    <3> QED BY <1>2, <1>3, <3>1 DEF RunOK, Whole, n
  <2>2. CASE HasNext(n)
    BY <1>4, <1>7, <1>8, <1>9, <1>13, <2>1, <2>2
  <2>3. CASE ~HasNext(n)
    BY <1>7, <1>8, <2>1, <2>3
  <2> QED BY <2>2, <2>3
<1>14. Whole(r, v, call[r], site, stored)
  BY <1>1, <1>10, <1>13 DEF Whole
<1>15. call' = call
  BY <1>1 DEF limiterVars
<1>16. RunOK(r, v, call'[r], site, stored)
  BY <1>2, <1>8, <1>10, <1>11, <1>12, <1>14, <1>15 DEF RunOK
<1> QED BY <1>1, <1>15, <1>16, BeforeStep, RunBecomes

LEMMA PageFailsKeeps ==
  ASSUME RunIInv, LimiterTypeOK, NEW r \in Search, PageFails(r)
  PROVE  RunIInv'
<1> DEFINE v == [run[r] EXCEPT !.page = 0, !.gap = TRUE]
<1>1. RunOK(r, run[r], call[r], site, stored)
  BY BeforeStep
<1>2. call[r].at = "call" /\ call' = call
  BY DEF PageFails, Walking, limiterVars
<1>3. /\ v.at = run[r].at /\ v.page = 0 /\ v.seen = run[r].seen
      /\ v.posts = run[r].posts /\ v.due = run[r].due /\ v.gap = TRUE
      /\ DOMAIN v = DOMAIN run[r]
  BY <1>1 DEF RunOK, Runs
<1>4. v \in Runs
  BY <1>1 DEF RunOK, Runs
<1>5. Becomes(r, v) /\ UNCHANGED <<here, stopping, site, unlisted, stored>>
  BY DEF PageFails
<1> HIDE DEF v
<1>6. PagesOf(v)
  BY <1>1, <1>3 DEF RunOK, PagesOf
<1>7. Whole(r, v, call[r], site, stored)
  BY <1>1, <1>2, <1>3 DEF RunOK, Whole
<1>8. RunOK(r, v, call'[r], site, stored)
  BY <1>1, <1>2, <1>3, <1>4, <1>6, <1>7 DEF RunOK
<1> QED BY <1>2, <1>5, <1>8, BeforeStep, RunBecomes

LEMMA SearchReturnsKeeps ==
  ASSUME RunIInv, LimiterTypeOK, NEW r \in Search, SearchReturns(r)
  PROVE  RunIInv'
<1> DEFINE v == [run[r] EXCEPT !.at = "store"]
<1>1. RunOK(r, run[r], call[r], site, stored)
  BY BeforeStep
<1>2. /\ call'[r].at = "idle"
      /\ \A q \in Search : q # r => call'[q] = call[q]
  BY CallsApart DEF SearchReturns, Succeeds
<1>3. /\ v.at = "store" /\ v.page = run[r].page /\ v.seen = run[r].seen
      /\ v.posts = run[r].posts /\ v.due = run[r].due
      /\ v.gap = run[r].gap /\ DOMAIN v = DOMAIN run[r]
  BY <1>1 DEF RunOK, Runs
<1>4. v \in Runs
  BY <1>1 DEF RunOK, Runs
<1>5. /\ Becomes(r, v) /\ UNCHANGED <<here, stopping, site, unlisted, stored>>
      /\ run[r].at = "search" /\ run[r].page = 0
  BY DEF SearchReturns
<1> HIDE DEF v
<1>6. PagesOf(v)
  BY <1>1, <1>3 DEF RunOK, PagesOf
<1>7. Whole(r, v, call'[r], site, stored)
  BY <1>1, <1>2, <1>3, <1>5 DEF RunOK, Whole
<1>8. RunOK(r, v, call'[r], site, stored)
  BY <1>1, <1>3, <1>4, <1>6, <1>7 DEF RunOK
<1> QED BY <1>2, <1>5, <1>8, BeforeStep, RunBecomes

LEMMA SearchFailsKeeps ==
  ASSUME RunIInv, LimiterTypeOK, NEW r \in Search, SearchFails(r)
  PROVE  RunIInv'
<1>1. /\ call'[r].at = "idle"
      /\ \A q \in Search : q # r => call'[q] = call[q]
  BY CallsApart DEF SearchFails, Fails
<1>2. UNCHANGED <<here, stopping, site, unlisted, stored>>
  BY DEF SearchFails
<1>3. CASE Retries(r)
  <2> DEFINE until == now + Delay[run[r].attempt]
             v == [NotRun EXCEPT !.at = "backoff",
                     !.attempt = run[r].attempt + 1, !.until = until]
  <2>1. /\ v.at = "backoff" /\ v.page = NotRun.page /\ v.seen = NotRun.seen
        /\ v.posts = NotRun.posts /\ v.due = NotRun.due
    BY DEF NotRun
  <2>2. /\ run[r].attempt \in 1..PortalAttempts
        /\ run[r].attempt + 1 \in 1..PortalAttempts
    <3>1. run[r].attempt \in 1..PortalAttempts
      BY BeforeStep DEF Runs
    <3> QED BY <1>3, <3>1, NumberAssumption DEF Retries
  <2>3. until \in Nat
    <3>1. Delay[run[r].attempt] \in Nat /\ now \in Nat
      BY <2>2, DelayFacts DEF LimiterTypeOK
    <3> QED BY <3>1
  <2>4. Becomes(r, v)
    BY <1>3 DEF SearchFails
  <2> HIDE DEF until
  <2>5. v \in Runs
    BY <2>2, <2>3, NotRunFacts DEF Runs
  <2> HIDE DEF v
  <2>6. RunOK(r, v, call'[r], site, stored)
    BY <1>1, <2>1, <2>5, RestartedOK
  <2> QED BY <1>1, <1>2, <2>4, <2>6, BeforeStep, RunBecomes
<1>4. CASE ~Retries(r)
  <2>1. Ends(r, "failed")
    BY <1>4 DEF SearchFails
  <2>2. PICK v : Becomes(r, v) /\ RunOK(r, v, call'[r], site, stored)
    BY <1>1, <2>1, EndsOK
  <2> QED BY <1>1, <1>2, <2>2, BeforeStep, RunBecomes
<1> QED BY <1>3, <1>4

LEMMA StorePostingKeeps ==
  ASSUME RunIInv, LimiterTypeOK, NEW r \in Search, StorePosting(r)
  PROVE  RunIInv'
<1> DEFINE v == [run[r] EXCEPT !.posts = Tail(@)]
           p == Head(run[r].posts)
<1>1. RunOK(r, run[r], call[r], site, stored)
  BY BeforeStep
<1>2. /\ run[r].at = "store" /\ run[r].posts # <<>> /\ call' = call
      /\ UNCHANGED <<here, stopping, site, unlisted>> /\ Becomes(r, v)
  BY DEF StorePosting, SkipBlank, limiterVars
<1>3. run[r].posts \in Seq(Posting)
  BY <1>1 DEF RunOK, Runs
<1>4. /\ p \in Posting /\ Tail(run[r].posts) \in Seq(Posting)
      /\ Range(run[r].posts) \subseteq {p} \cup Range(Tail(run[r].posts))
      /\ IsInjective(run[r].posts) => IsInjective(Tail(run[r].posts))
  BY <1>2, <1>3, TailFacts
<1>5. /\ v.at = "store" /\ v.page = run[r].page /\ v.seen = run[r].seen
      /\ v.posts = Tail(run[r].posts) /\ v.due = run[r].due
      /\ v.gap = run[r].gap /\ DOMAIN v = DOMAIN run[r]
  BY <1>1, <1>2 DEF RunOK, Runs
<1>6. v \in Runs
  BY <1>1, <1>4 DEF RunOK, Runs
<1>7. /\ stored \subseteq stored'
      /\ p \notin Nameless => <<p, r>> \in stored'
      /\ stored' \subseteq (Posting \ Nameless) \X Search
  <2>1. stored \subseteq (Posting \ Nameless) \X Search
    BY BeforeStep
  <2>2. CASE p \in Nameless
    <3>1. stored' = stored
      BY <2>2 DEF StorePosting
    <3> QED BY <2>1, <2>2, <3>1
  <2>3. CASE p \notin Nameless
    <3>1. stored' = stored \cup {<<p, r>>}
      BY <2>3 DEF StorePosting
    <3> HIDE DEF p
    <3> QED BY <1>4, <2>1, <2>3, <3>1
  <2> QED BY <2>2, <2>3
<1> HIDE DEF v, p
<1>8. PagesOf(v)
  BY <1>1, <1>5 DEF RunOK, PagesOf
<1>9. Whole(r, v, call[r], site, stored')
  <2>1. call[r].at = "idle"
    BY <1>1, <1>2 DEF RunOK, Whole
  <2>2. ASSUME ~v.gap, NEW q \in v.due \ Untitled, q \notin Nameless
        PROVE  q \in Range(v.posts) \/ <<q, r>> \in stored'
    <3>1. q \in Range(run[r].posts) \/ <<q, r>> \in stored
      BY <1>1, <1>2, <1>5, <2>2 DEF RunOK, Whole
    <3> QED BY <1>4, <1>5, <1>7, <2>2, <3>1
  <2> QED BY <1>5, <2>1, <2>2 DEF Whole
<1>10. RunOK(r, v, call'[r], site, stored')
  BY <1>1, <1>2, <1>4, <1>5, <1>6, <1>8, <1>9 DEF RunOK
<1> QED BY <1>2, <1>7, <1>10, RunBecomes

LEMMA RunDoneKeeps ==
  ASSUME RunIInv, LimiterTypeOK, NEW r \in Search, RunDone(r)
  PROVE  RunIInv'
<1> DEFINE v == [run[r] EXCEPT !.at = "done", !.seen = NotRun.seen]
<1>1. RunOK(r, run[r], call[r], site, stored)
  BY BeforeStep
<1>2. /\ run[r].at = "store" /\ run[r].posts = <<>> /\ call' = call
      /\ UNCHANGED <<here, stopping, site, unlisted, stored>>
      /\ Becomes(r, v)
  BY DEF RunDone, limiterVars, NotRun
<1>3. /\ v.at = "done" /\ v.page = run[r].page /\ v.seen = NotRun.seen
      /\ v.posts = run[r].posts /\ v.due = run[r].due
      /\ v.gap = run[r].gap /\ DOMAIN v = DOMAIN run[r]
  BY <1>1 DEF RunOK, Runs
<1>4. v \in Runs
  BY <1>1, NotRunFacts DEF RunOK, Runs
<1> HIDE DEF v
<1>5. PagesOf(v)
  <2>1. Range(NotRun.seen) = {} /\ Len(NotRun.seen) = 0
    <3>1. NotRun.seen = <<>> /\ DOMAIN <<>> = {} /\ Len(<<>>) = 0
      BY DEF NotRun
    <3> QED BY <3>1 DEF Range
  <2> QED BY <1>1, <1>3, <2>1, NotRunFacts, NumberAssumption
          DEF RunOK, PagesOf
<1>6. Whole(r, v, call[r], site, stored)
  <2>1. Range(run[r].posts) = {}
    <3>1. DOMAIN <<>> = {}
      OBVIOUS
    <3> QED BY <1>2, <3>1 DEF Range
  <2> QED BY <1>1, <1>2, <1>3, <2>1 DEF RunOK, Whole
<1>7. RunOK(r, v, call'[r], site, stored)
  BY <1>1, <1>2, <1>3, <1>4, <1>5, <1>6 DEF RunOK
<1> QED BY <1>2, <1>7, BeforeStep, RunBecomes

LEMMA GivenUpKeeps ==
  ASSUME RunIInv, LimiterTypeOK, NEW r \in Search,
         StoreFails(r) \/ SearchCancelled(r)
  PROVE  RunIInv'
<1>1. Ends(r, "failed") /\ UNCHANGED <<here, stopping, site, unlisted, stored>>
  BY DEF StoreFails, SearchCancelled
<1>2. /\ call'[r].at = "idle"
      /\ \A q \in Search : q # r => call'[q] = call[q]
  <2>1. CASE WaitCancelled(r)
    BY <2>1, CallsApart DEF WaitCancelled
  <2>2. CASE call' = call /\ run[r].at \in {"store", "backoff"}
    BY <2>2, BeforeStep DEF RunOK, Whole
  <2> QED BY <2>1, <2>2 DEF StoreFails, SearchCancelled, limiterVars
<1>3. PICK v : Becomes(r, v) /\ RunOK(r, v, call'[r], site, stored)
  BY <1>1, <1>2, EndsOK
<1> QED BY <1>1, <1>2, <1>3, BeforeStep, RunBecomes

LEMMA PostingComesUpKeeps ==
  ASSUME RunIInv, LimiterTypeOK, NEW p \in Posting, PostingComesUp(p)
  PROVE  RunIInv'
<1>1. /\ site' = <<p>> \o site /\ unlisted' \subseteq unlisted
      /\ call' = call /\ UNCHANGED <<here, stopping, run, stored>>
  BY DEF PostingComesUp, limiterVars
<1>2. site' \in Seq(Posting)
  BY <1>1 DEF RunIInv
<1>3. ASSUME NEW r \in Search
      PROVE  RunOK(r, run[r], call[r], site', stored)
  <2>1. RunOK(r, run[r], call[r], site, stored)
    BY BeforeStep
  <2>2. run[r].page \in Nat
    BY <2>1 DEF RunOK, PagesOf
  <2>3. Ahead(site, run[r].page) \subseteq Ahead(site', run[r].page)
    BY <1>1, <2>2, AheadFacts DEF RunIInv
  <2>4. Whole(r, run[r], call[r], site', stored)
    BY <2>1, <2>3 DEF RunOK, Whole
  <2> QED BY <2>1, <2>4 DEF RunOK
<1> QED BY <1>1, <1>2, <1>3 DEF RunIInv, RunOK

LEMMA PostingGoesKeeps ==
  ASSUME RunIInv, LimiterTypeOK, NEW i \in DOMAIN site, PostingGoes(i)
  PROVE  RunIInv'
<1>1. /\ site' = RemoveAt(site, i) /\ call' = call
      /\ run' = [r \in Search |->
                   IF call[r].at = "call" THEN [run[r] EXCEPT !.gap = TRUE]
                   ELSE run[r]]
      /\ UNCHANGED <<here, stopping, unlisted, stored>>
  BY DEF PostingGoes, limiterVars
<1>2. site' \in Seq(Posting)
  BY <1>1, RemoveAtType DEF RunIInv
<1>3. ASSUME NEW r \in Search
      PROVE  RunOK(r, run'[r], call[r], site', stored)
  <2>1. RunOK(r, run[r], call[r], site, stored)
    BY BeforeStep
  <2>2. CASE call[r].at = "call"
    <3> DEFINE v == [run[r] EXCEPT !.gap = TRUE]
    <3>1. /\ v.at = run[r].at /\ v.page = run[r].page
          /\ v.seen = run[r].seen /\ v.posts = run[r].posts
          /\ v.gap = TRUE /\ DOMAIN v = DOMAIN run[r] /\ v \in Runs
      BY <2>1 DEF RunOK, Runs
    <3>2. run'[r] = v
      BY <1>1, <2>2
    <3> HIDE DEF v
    <3>3. PagesOf(v)
      BY <2>1, <3>1 DEF RunOK, PagesOf
    <3>4. Whole(r, v, call[r], site', stored)
      BY <2>1, <2>2, <3>1 DEF RunOK, Whole
    <3>5. RunOK(r, v, call[r], site', stored)
      BY <2>1, <3>1, <3>3, <3>4 DEF RunOK
    <3> QED BY <3>2, <3>5
  <2>3. CASE call[r].at # "call"
    <3>1. run'[r] = run[r]
      BY <1>1, <2>3
    <3>2. call[r].at \in {"idle", "wait"}
      BY <2>3, BeforeStep
    <3>3. Whole(r, run[r], call[r], site', stored)
      BY <2>1, <3>2 DEF RunOK, Whole
    <3>4. RunOK(r, run[r], call[r], site', stored)
      BY <2>1, <3>3 DEF RunOK
    <3> QED BY <3>1, <3>4
  <2> QED BY <2>2, <2>3
<1>4. run' \in [Search -> Runs]
  BY <1>1, <1>3 DEF RunOK
<1> QED BY <1>1, <1>2, <1>3, <1>4 DEF RunIInv, RunOK

(* Embed loops, time and a shutdown leave the runs and their calls alone.  *)
LEMMA OthersKeep ==
  ASSUME RunIInv, LimiterTypeOK,
         \/ Shutdown \/ TimePasses \/ UNCHANGED vars
         \/ \E l \in Loop : LoopSteps(l)
  PROVE  RunIInv'
<1>1. /\ UNCHANGED <<here, site, unlisted, run, stored>>
      /\ stopping' \in BOOLEAN
      /\ \A r \in Search : call'[r] = call[r]
  <2>1. CASE Shutdown \/ TimePasses \/ UNCHANGED vars
    BY <2>1 DEF Shutdown, TimePasses, Tick, vars, runVars, limiterVars,
       RunIInv
  <2>2. ASSUME NEW l \in Loop, LoopSteps(l)
        PROVE  /\ UNCHANGED <<here, site, unlisted, run, stored>>
               /\ stopping' \in BOOLEAN
               /\ \A r \in Search : call'[r] = call[r]
    <3>1. UNCHANGED runVars
      BY <2>2 DEF LoopSteps, StartDetails, DetailsBegin, DetailsAnswer,
         DetailsFail, DetailsCancelled
    <3>2. \E at, slot : CallAt(l, at, slot)
      BY <2>2 DEF LoopSteps, StartDetails, DetailsBegin, DetailsAnswer,
         DetailsFail, DetailsCancelled, Reserve, WaitEnds, Succeeds, Fails,
         WaitCancelled
    <3>3. \A r \in Search : r # l /\ r \in Caller
      BY CallerAssumption
    <3>4. \A r \in Search : call'[r] = call[r]
      BY <3>2, <3>3 DEF CallAt, LimiterTypeOK
    <3> QED BY <3>1, <3>4 DEF runVars, RunIInv
  <2> QED BY <2>1, <2>2
<1> QED BY <1>1 DEF RunIInv, RunOK

LEMMA RunStep ==
  ASSUME RunIInv, LimiterTypeOK, [Next]_vars
  PROVE  RunIInv'
<1>1. ASSUME NEW r \in Search, SearchSteps(r)
      PROVE  RunIInv'
  BY <1>1, StartSearchKeeps, SearchBeginsKeeps, FetchPageKeeps,
     PageFailsKeeps, SearchReturnsKeeps, SearchFailsKeeps, StorePostingKeeps,
     RunDoneKeeps, GivenUpKeeps DEF SearchSteps, SearchGoesOn
<1> QED BY <1>1, PostingComesUpKeeps, PostingGoesKeeps, OthersKeep DEF Next

LEMMA RunInitial == Init => RunIInv
<1> SUFFICES ASSUME Init PROVE RunIInv
  OBVIOUS
<1>1. /\ here \in Scenarios /\ stopping \in BOOLEAN /\ stored = {}
      /\ site \in Seq(Posting) /\ unlisted \subseteq Posting
      /\ run \in [Search -> Runs]
  BY ScenarioAssumption, NotRunFacts DEF Init
<1>2. ASSUME NEW r \in Search
      PROVE  RunOK(r, run[r], call[r], site, stored)
  <2>1. run[r] = NotRun /\ call[r].at = "idle"
    BY CallerAssumption DEF Init, LimiterInit, Idle
  <2>2. NotRun \in Runs /\ NotRun.at = "new"
    BY NotRunFacts DEF NotRun
  <2>3. RunOK(r, NotRun, call[r], site, stored)
    BY <2>1, <2>2, RestartedOK
  <2> QED BY <2>1, <2>3
<1> QED BY <1>1, <1>2 DEF RunIInv

(* What a run keeps and stores is right: Jobindex's postings once each,    *)
(* and every posting with a title and an id that was listed when the       *)
(* search began, whatever came up while it paged (pipeline.go:357-400,     *)
(* linkedin.go:125-175, jobindex.go:153-191).                              *)
THEOREM RunsAreRight == Spec => []RunInv
<1>1. RunIInv /\ LimiterTypeOK => RunInv
  <2> SUFFICES ASSUME RunIInv, LimiterTypeOK
               PROVE  RunInv
    OBVIOUS
  <2>1. TypeOK
    BY DEF RunIInv, TypeOK
  <2>2. PagesOnce
    BY DEF RunIInv, RunOK, PagesOf, PagesOnce
  <2>3. JobindexListsOnce
    BY DEF RunIInv, RunOK, JobindexListsOnce
  <2>4. NothingMissed
    BY DEF RunIInv, RunOK, Whole, NothingMissed
  <2> QED BY <2>1, <2>2, <2>3, <2>4 DEF RunInv
<1>2. Spec => []LimiterTypeOK
  BY RefinesLimiter, LimiterTypes, PTL
<1> QED BY <1>1, <1>2, RunInitial, RunStep, PTL DEF Spec

(* A run fetches no page twice and no more than it may (linkedin.go:       *)
(* 125-135, jobindex.go:180-190).                                          *)
THEOREM Pages == Spec => []PagesOnce
<1>1. RunInv => PagesOnce
  BY DEF RunInv
<1> QED BY <1>1, RunsAreRight, PTL
=============================================================================
