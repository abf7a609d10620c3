-------------------------- MODULE ResultsList_proofs --------------------------
(***************************************************************************)
(* Theorems about ResultsList, for any results, searches, scores, page     *)
(* sizes and requests: a walk lists what keeps its place once and leaves   *)
(* none of it out, its count is what it lists, and what a detail and a     *)
(* summary show together belongs together.                                 *)
(***************************************************************************)
EXTENDS ResultsList, FiniteSetTheorems, WellFoundedInduction, TLAPS

-----------------------------------------------------------------------------
(* Sums.                                                                   *)

(* A set of numbers that is not empty has a least one.                     *)
LEMMA LeastNumber ==
  ASSUME NEW T \in SUBSET Nat, T # {}
  PROVE  \E m \in T : \A k \in T : m <= k
<1>1. PICK m \in T : \A k \in T : ~(<<k, m>> \in OpToRel(<, Nat))
  BY NatLessThanWellFounded, WFMin
<1>2. \A k \in T : ~(k < m)
  BY <1>1, Zenon DEF OpToRel
<1> QED BY <1>2

(* The sums of f over the parts of a set with at most n elements, one      *)
(* element after another.                                                  *)
Some(s) == CHOOSE x \in s : TRUE
Parts(S, n) == {s \in SUBSET S : Cardinality(s) <= n}
Sums(f, parts, sum) ==
  sum = [s \in parts |->
           IF s = {} THEN 0 ELSE f[Some(s)] + sum[s \ {Some(s)}]]

LEMMA PartFacts ==
  ASSUME NEW S, IsFiniteSet(S), NEW s \in SUBSET S, s # {}
  PROVE  /\ IsFiniteSet(s) /\ Cardinality(s) \in Nat \ {0}
         /\ Some(s) \in s /\ Some(s) \in S
         /\ s \ {Some(s)} \in SUBSET S
         /\ Cardinality(s \ {Some(s)}) = Cardinality(s) - 1
         /\ s = (s \ {Some(s)}) \cup {Some(s)}
<1>1. Some(s) \in s
  BY DEF Some
<1>2. IsFiniteSet(s)
  BY FS_Subset
<1>3. Cardinality(s) \in Nat /\ Cardinality(s) # 0
  BY <1>2, FS_CardinalityType, FS_EmptySet
<1>4. Cardinality(s \ {Some(s)}) = Cardinality(s) - 1
  BY <1>1, <1>2, FS_RemoveElement
<1> QED BY <1>1, <1>2, <1>3, <1>4

LEMMA SumsExist ==
  ASSUME NEW S, IsFiniteSet(S), NEW f, NEW n \in Nat
  PROVE  \E sum : Sums(f, Parts(S, n), sum)
<1> DEFINE T == {k \in Nat : ~\E sum : Sums(f, Parts(S, k), sum)}
<1> SUFFICES ASSUME T # {}
             PROVE  FALSE
  OBVIOUS
<1>1. PICK m \in T : \A k \in T : m <= k
  BY LeastNumber
<1> DEFINE Step(sum, s) == IF s = {} THEN 0
                           ELSE f[Some(s)] + sum[s \ {Some(s)}]
<1>2. m # 0
  <2>1. \A s \in Parts(S, 0) : s = {}
    <3> SUFFICES ASSUME NEW s \in SUBSET S, Cardinality(s) <= 0, s # {}
                 PROVE  FALSE
      BY DEF Parts
    <3>1. Cardinality(s) \in Nat \ {0}
      BY PartFacts
    <3> QED BY <3>1
  <2>2. Sums(f, Parts(S, 0), [s \in Parts(S, 0) |-> 0])
    BY <2>1 DEF Sums
  <2> QED BY <1>1, <2>2
<1>3. m - 1 \in Nat /\ m - 1 \notin T
  <2>1. m \in Nat
    BY <1>1
  <2>2. m - 1 \in Nat /\ ~(m <= m - 1)
    BY <1>2, <2>1
  <2> HIDE DEF T
  <2> QED BY <1>1, <2>2
<1>4. PICK g : Sums(f, Parts(S, m - 1), g)
  BY <1>3
<1> DEFINE h == [s \in Parts(S, m) |-> Step(g, s)]
<1>5. \A s \in Parts(S, m - 1) : h[s] = g[s]
  <2>1. g = [s \in Parts(S, m - 1) |-> Step(g, s)]
    BY <1>4 DEF Sums
  <2>2. \A s \in Parts(S, m - 1) : s \in Parts(S, m)
    <3> SUFFICES ASSUME NEW s \in SUBSET S, Cardinality(s) <= m - 1
                 PROVE  Cardinality(s) <= m
      BY DEF Parts
    <3>1. Cardinality(s) \in Nat /\ m \in Nat
      BY <1>1, FS_Subset, FS_CardinalityType
    <3> QED BY <3>1
  <2> HIDE DEF Step
  <2>3. \A s \in Parts(S, m - 1) : g[s] = Step(g, s)
    BY <2>1
  <2> QED BY <2>2, <2>3
<1>6. \A s \in Parts(S, m) : s # {} => s \ {Some(s)} \in Parts(S, m - 1)
  <2> SUFFICES ASSUME NEW s \in SUBSET S, Cardinality(s) <= m, s # {}
               PROVE  s \ {Some(s)} \in Parts(S, m - 1)
    BY DEF Parts
  <2>1. Cardinality(s) \in Nat /\ m \in Nat
    BY <1>1, FS_Subset, FS_CardinalityType
  <2>2. Cardinality(s) - 1 <= m - 1
    BY <2>1
  <2>3. /\ s \ {Some(s)} \in SUBSET S
        /\ Cardinality(s \ {Some(s)}) = Cardinality(s) - 1
    BY PartFacts
  <2> QED BY <2>2, <2>3 DEF Parts
<1>7. \A s \in Parts(S, m) : Step(g, s) = Step(h, s)
  <2> HIDE DEF h
  <2> QED BY <1>5, <1>6
<1>8. Sums(f, Parts(S, m), h)
  <2>1. h = [s \in Parts(S, m) |-> Step(h, s)]
    <3> HIDE DEF Step
    <3> QED BY <1>7
  <2> QED BY <2>1 DEF Sums
<1> QED BY <1>1, <1>8

LEMMA SumOverIsSum ==
  ASSUME NEW S, IsFiniteSet(S), NEW f, DOMAIN f = S
  PROVE  \E sum : Sums(f, SUBSET S, sum) /\ SumOver(f) = sum[S]
<1> DEFINE n == Cardinality(S)
           sum == CHOOSE sum : Sums(f, SUBSET S, sum)
<1>1. Parts(S, n) = SUBSET S
  BY FS_Subset DEF Parts
<1>2. n \in Nat
  BY FS_CardinalityType
<1>3. \E g : Sums(f, Parts(S, n), g)
  <2> HIDE DEF n
  <2> QED BY <1>2, SumsExist
<1>4. Sums(f, SUBSET S, sum)
  <2> HIDE DEF n
  <2> QED BY <1>1, <1>3
<1>5. SumOver(f) = sum[S]
  BY Zenon DEF SumOver, MapThenSumSet, MapThenFoldSet, Sums, Some
<1> QED BY <1>4, <1>5

(* A sum is no less than what it adds up.                                  *)
LEMMA SumFacts ==
  ASSUME NEW S, IsFiniteSet(S), NEW f \in [S -> Nat]
  PROVE  SumOver(f) \in Nat /\ \A x \in S : f[x] <= SumOver(f)
<1>1. PICK sum : Sums(f, SUBSET S, sum) /\ SumOver(f) = sum[S]
  BY SumOverIsSum
<1> DEFINE Right(s) == sum[s] \in Nat /\ \A x \in s : f[x] <= sum[s]
           B == {n \in Nat :
                   \E s \in SUBSET S : Cardinality(s) = n /\ ~Right(s)}
<1>2. B = {}
  <2> SUFFICES ASSUME B # {}
               PROVE  FALSE
    OBVIOUS
  <2>1. PICK m \in B : \A k \in B : m <= k
    BY LeastNumber
  <2>2. PICK s \in SUBSET S : Cardinality(s) = m /\ ~Right(s)
    BY <2>1
  <2>3. CASE s = {}
    <3>1. sum[{}] = 0
      BY <1>1 DEF Sums
    <3> QED BY <2>2, <2>3, <3>1
  <2>4. CASE s # {}
    <3> DEFINE x == Some(s)
               t == s \ {Some(s)}
    <3>1. /\ x \in s /\ x \in S /\ t \in SUBSET S /\ s = t \cup {x}
          /\ m \in Nat \ {0} /\ Cardinality(t) = m - 1
      BY <2>2, <2>4, PartFacts
    <3>2. sum[s] = f[x] + sum[t]
      BY <1>1, <2>4 DEF Sums
    <3> HIDE DEF x, t
    <3>3. Right(t)
      <4>1. m - 1 \in Nat /\ ~(m <= m - 1)
        BY <3>1
      <4>2. m - 1 \notin B
        <5> HIDE DEF B
        <5> QED BY <2>1, <4>1
      <4> HIDE DEF Right
      <4> QED BY <3>1, <4>1, <4>2
    <3>4. f[x] \in Nat /\ \A y \in t : f[y] \in Nat
      BY <3>1
    <3>5. Right(s)
      BY <3>1, <3>2, <3>3, <3>4
    <3> QED BY <2>2, <3>5
  <2> QED BY <2>3, <2>4
<1>3. Right(S)
  <2>1. Cardinality(S) \in Nat
    BY FS_CardinalityType
  <2> HIDE DEF Right
  <2> QED BY <1>2, <2>1
<1> QED BY <1>1, <1>3

(* The sizes of sets that have nothing in common add up.                   *)
LEMMA SizesAddUp ==
  ASSUME NEW S, IsFiniteSet(S), NEW rows, NEW f, NEW part,
         DOMAIN f = S,
         \A x \in S : f[x] = Cardinality(part[x]) /\ IsFiniteSet(part[x]),
         \A x, y \in S : x # y => part[x] \cap part[y] = {},
         rows = UNION {part[x] : x \in S}
  PROVE  SumOver(f) = Cardinality(rows)
<1>1. PICK sum : Sums(f, SUBSET S, sum) /\ SumOver(f) = sum[S]
  BY SumOverIsSum
<1> DEFINE All(s) == UNION {part[x] : x \in s}
           Right(s) == IsFiniteSet(All(s)) /\ sum[s] = Cardinality(All(s))
           B == {n \in Nat :
                   \E s \in SUBSET S : Cardinality(s) = n /\ ~Right(s)}
<1>2. B = {}
  <2> SUFFICES ASSUME B # {}
               PROVE  FALSE
    OBVIOUS
  <2>1. PICK m \in B : \A k \in B : m <= k
    BY LeastNumber
  <2>2. PICK s \in SUBSET S : Cardinality(s) = m /\ ~Right(s)
    BY <2>1
  <2>3. CASE s = {}
    <3>1. sum[{}] = 0
      BY <1>1 DEF Sums
    <3>2. All(s) = {}
      BY <2>3
    <3> QED BY <2>2, <2>3, <3>1, <3>2, FS_EmptySet
  <2>4. CASE s # {}
    <3> DEFINE x == Some(s)
               t == s \ {Some(s)}
    <3>1. /\ x \in s /\ x \in S /\ t \in SUBSET S /\ s = t \cup {x}
          /\ x \notin t
          /\ m \in Nat \ {0} /\ Cardinality(t) = m - 1
      BY <2>2, <2>4, PartFacts
    <3>2. sum[s] = f[x] + sum[t]
      BY <1>1, <2>4 DEF Sums
    <3> HIDE DEF x, t
    <3>3. Right(t)
      <4>1. m - 1 \in Nat /\ ~(m <= m - 1)
        BY <3>1
      <4>2. m - 1 \notin B
        <5> HIDE DEF B
        <5> QED BY <2>1, <4>1
      <4> HIDE DEF Right
      <4> QED BY <3>1, <4>1, <4>2
    <3>4. All(s) = All(t) \cup part[x] /\ All(t) \cap part[x] = {}
      BY <3>1
    <3>5. f[x] = Cardinality(part[x]) /\ IsFiniteSet(part[x])
      BY <3>1
    <3> HIDE DEF All
    <3>6. /\ IsFiniteSet(All(s))
          /\ Cardinality(All(s)) = Cardinality(All(t)) + Cardinality(part[x])
      <4>1. /\ IsFiniteSet(All(t) \cup part[x])
            /\ Cardinality(All(t) \cup part[x]) =
                 Cardinality(All(t)) + Cardinality(part[x])
                   - Cardinality(All(t) \cap part[x])
        BY <3>3, <3>5, FS_Union
      <4>2. Cardinality(All(t) \cap part[x]) = 0
        BY <3>4, FS_EmptySet
      <4>3. Cardinality(All(t)) \in Nat /\ Cardinality(part[x]) \in Nat
        BY <3>3, <3>5, FS_CardinalityType
      <4> QED BY <3>4, <4>1, <4>2, <4>3
    <3>7. Cardinality(All(t)) \in Nat /\ Cardinality(part[x]) \in Nat
      BY <3>3, <3>5, FS_CardinalityType
    <3>8. Right(s)
      BY <3>2, <3>3, <3>5, <3>6, <3>7
    <3> QED BY <2>2, <3>8
  <2> QED BY <2>3, <2>4
<1>3. Right(S)
  <2>1. Cardinality(S) \in Nat
    BY FS_CardinalityType
  <2> HIDE DEF Right
  <2> QED BY <1>2, <2>1
<1> QED BY <1>1, <1>3

-----------------------------------------------------------------------------
(* Rows and their order.                                                   *)

(* The rows of a table: one for each id, with the scores of its outcome.   *)
Table(rows) ==
  /\ rows \subseteq Rows
  /\ \A r, s \in rows : r.id = s.id => r = s
  /\ \A r \in rows : r.scores = r.evaluation.outcome

(* A table that became another: no row went away, or was found at another  *)
(* time, or lost an outcome.                                               *)
Became(rows, later) ==
  \A r \in rows : \E s \in later :
    /\ s.id = r.id /\ s.created = r.created
    /\ r.evaluation.outcome <= s.evaluation.outcome

(* Where a row stands in a list, as far as the order of the list tells.    *)
SamePlace(sort, c, d) ==
  /\ c.id = d.id /\ c.created = d.created
  /\ sort # "newest" => c.overall_score = d.overall_score

(* What the order compares are numbers, or NULL, which is none.            *)
LEMMA RowFacts ==
  ASSUME NEW r \in Rows
  PROVE  /\ r.id \in Nat /\ r.id \in ResultID /\ r.created \in Nat
         /\ r.overall_score = NULL \/ r.overall_score \in Nat
         /\ r # NULL
  BY NumberAssumption, NullAssumption DEF Rows

(* The order of a list is a total one on the rows of a table.              *)
LEMMA OrderFacts ==
  ASSUME NEW sort, NEW r \in Rows, NEW s \in Rows, NEW t \in Rows
  PROVE  /\ ~First(sort, r, r)
         /\ First(sort, r, s) => ~First(sort, s, r)
         /\ First(sort, r, s) /\ First(sort, s, t) => First(sort, r, t)
         /\ r.id # s.id => First(sort, r, s) \/ First(sort, s, r)
<1>1. /\ r.id \in Nat /\ r.created \in Nat
      /\ r.overall_score = NULL \/ r.overall_score \in Nat
  BY RowFacts
<1>2. /\ s.id \in Nat /\ s.created \in Nat
      /\ s.overall_score = NULL \/ s.overall_score \in Nat
  BY RowFacts
<1>3. /\ t.id \in Nat /\ t.created \in Nat
      /\ t.overall_score = NULL \/ t.overall_score \in Nat
  BY RowFacts
<1>4. CASE sort = "newest"
  BY <1>1, <1>2, <1>3, <1>4 DEF First, NewestFirst
<1>5. CASE sort # "newest"
  <2>1. NULL \notin Nat
    BY NullAssumption
  <2> QED BY <1>1, <1>2, <1>3, <1>5, <2>1 DEF First, BestFirst
<1> QED BY <1>4, <1>5

(* A page starts behind its cursor: after selects what the order puts      *)
(* there.                                                                  *)
LEMMA BeyondIsAfter ==
  ASSUME NEW sort, NEW c \in Rows, NEW r \in Rows
  PROVE  Beyond(sort, c, r) <=> First(sort, c, r)
<1>1. /\ r.id \in Nat /\ r.created \in Nat
      /\ r.overall_score = NULL \/ r.overall_score \in Nat
  BY RowFacts
<1>2. /\ c.id \in Nat /\ c.created \in Nat
      /\ c.overall_score = NULL \/ c.overall_score \in Nat
  BY RowFacts
<1>3. NULL \notin Nat
  BY NullAssumption
<1>4. CASE sort = "newest"
  BY <1>1, <1>2, <1>4 DEF Beyond, First, NewestFirst
<1>5. CASE sort # "newest" /\ c.overall_score = NULL
  BY <1>1, <1>2, <1>3, <1>5 DEF Beyond, First, BestFirst
<1>6. CASE sort # "newest" /\ c.overall_score # NULL
  <2>1. Beyond(sort, c, r) <=> BeyondScored(c, r)
    BY <1>6 DEF Beyond
  <2> QED BY <1>1, <1>2, <1>3, <1>6, <2>1
          DEF BeyondScored, First, BestFirst
<1> QED BY <1>4, <1>5, <1>6

(* Rows in the same places are in the same order.                          *)
LEMMA PlacesKeepOrder ==
  ASSUME NEW sort, NEW c, NEW d, NEW r, NEW s,
         SamePlace(sort, c, d), SamePlace(sort, r, s)
  PROVE  First(sort, c, r) <=> First(sort, d, s)
BY DEF SamePlace, First, NewestFirst, BestFirst

-----------------------------------------------------------------------------
(* How many rows there are.                                                *)

(* A table has no more rows than there are ids.                            *)
LEMMA TableIsFinite ==
  ASSUME NEW rows, Table(rows)
  PROVE  /\ IsFiniteSet(rows)
         /\ Cardinality(rows) \in Nat
         /\ Cardinality(rows) <= Cardinality(ResultID)
<1> DEFINE f == [r \in rows |-> r.id]
<1>1. IsFiniteSet(ResultID)
  BY NumberAssumption
<1>2. f \in Injection(rows, ResultID)
  BY DEF Injection, IsInjective, Table, Rows
<1>3. IsFiniteSet(rows) /\ Cardinality(rows) <= Cardinality(ResultID)
  BY <1>1, <1>2, FS_Injection
<1> QED BY <1>3, FS_CardinalityType

(* And some of its rows are no more than all.                              *)
LEMMA PartIsCounted ==
  ASSUME NEW rows, Table(rows), NEW part \in SUBSET rows
  PROVE  /\ Table(part) /\ IsFiniteSet(part)
         /\ Cardinality(part) \in Nat /\ Cardinality(part) \in Counts
<1>1. Table(part)
  BY DEF Table
<1>2. Cardinality(ResultID) \in Nat
  BY NumberAssumption, FS_CardinalityType
<1> QED BY <1>1, <1>2, TableIsFinite DEF Counts

(* It has as many ids as rows.                                             *)
LEMMA IDsAreCounted ==
  ASSUME NEW rows, Table(rows)
  PROVE  Cardinality({r.id : r \in rows}) = Cardinality(rows)
<1> DEFINE ids == {r.id : r \in rows}
           f == [r \in rows |-> r.id]
<1>1. f \in Bijection(rows, ids)
  BY DEF Bijection, Injection, IsInjective, Surjection, Table
<1>2. ExistsBijection(rows, ids)
  BY <1>1 DEF ExistsBijection
<1> HIDE DEF f, ids
<1>3. Cardinality(ids) = Cardinality(rows)
  BY <1>2, TableIsFinite, FS_Bijection
<1> QED BY <1>3 DEF ids

(* A set has at least as many elements as what one makes of them.          *)
LEMMA ImageIsNoLarger ==
  ASSUME NEW rows, IsFiniteSet(rows), NEW f, DOMAIN f = rows
  PROVE  /\ IsFiniteSet({f[r] : r \in rows})
         /\ Cardinality({f[r] : r \in rows}) <= Cardinality(rows)
<1> DEFINE g == [r \in rows |-> f[r]]
<1>1. g \in Surjection(rows, {f[r] : r \in rows})
  BY DEF Surjection
<1> QED BY <1>1, FS_Surjection

-----------------------------------------------------------------------------
(* Pages.                                                                  *)

Before(sort, rows, r) == {s \in rows : First(sort, s, r)}
After(sort, rows, r) == {s \in rows : First(sort, r, s)}

(* Fewer rows come before an earlier row, and more come after it.          *)
LEMMA EarlierHasFewer ==
  ASSUME NEW rows, Table(rows), NEW sort,
         NEW s \in rows, NEW r \in rows, First(sort, s, r)
  PROVE  /\ Cardinality(Before(sort, rows, s)) \in Nat
         /\ Cardinality(Before(sort, rows, r)) \in Nat
         /\ Cardinality(Before(sort, rows, s))
              < Cardinality(Before(sort, rows, r))
         /\ Cardinality(After(sort, rows, r)) \in Nat
         /\ Cardinality(After(sort, rows, s)) \in Nat
         /\ Cardinality(After(sort, rows, r))
              < Cardinality(After(sort, rows, s))
<1> DEFINE B == Before(sort, rows, r)  A == Before(sort, rows, s)
           D == After(sort, rows, r)   C == After(sort, rows, s)
<1>1. rows \subseteq Rows
  BY DEF Table
<1>2. IsFiniteSet(B) /\ IsFiniteSet(C)
  BY TableIsFinite, FS_Subset DEF Before, After
<1>3. A \in SUBSET B /\ A # B
  <2>1. s \in B /\ s \notin A
    BY <1>1, OrderFacts DEF Before
  <2>2. ASSUME NEW x \in A
        PROVE  x \in B
    BY <1>1, OrderFacts DEF Before
  <2> QED BY <2>1, <2>2
<1>4. D \in SUBSET C /\ D # C
  <2>1. r \in C /\ r \notin D
    BY <1>1, OrderFacts DEF After
  <2>2. ASSUME NEW x \in D
        PROVE  x \in C
    BY <1>1, OrderFacts DEF After
  <2> QED BY <2>1, <2>2
<1> HIDE DEF A, B, C, D
<1>5. Cardinality(A) \in Nat /\ Cardinality(B) \in Nat
      /\ Cardinality(A) <= Cardinality(B)
      /\ Cardinality(B) # Cardinality(A)
  BY <1>2, <1>3, FS_Subset, FS_CardinalityType
<1>6. Cardinality(D) \in Nat /\ Cardinality(C) \in Nat
      /\ Cardinality(D) <= Cardinality(C)
      /\ Cardinality(C) # Cardinality(D)
  BY <1>2, <1>4, FS_Subset, FS_CardinalityType
<1>7. Cardinality(A) < Cardinality(B) /\ Cardinality(D) < Cardinality(C)
  BY <1>5, <1>6
<1> QED BY <1>5, <1>6, <1>7 DEF A, B, C, D

(* A list that is not empty has a first row and a last one.                *)
LEMMA FirstAndLast ==
  ASSUME NEW rows, Table(rows), rows # {}, NEW sort
  PROVE  /\ \E r \in rows : Before(sort, rows, r) = {}
         /\ \E r \in rows : \A s \in rows : s = r \/ First(sort, s, r)
<1> DEFINE T == {Cardinality(Before(sort, rows, r)) : r \in rows}
           L == {Cardinality(After(sort, rows, r)) : r \in rows}
<1>1. /\ \A r \in rows : Cardinality(Before(sort, rows, r)) \in Nat
      /\ \A r \in rows : Cardinality(After(sort, rows, r)) \in Nat
  BY TableIsFinite, FS_Subset, FS_CardinalityType DEF Before, After
<1>2. PICK r \in rows :
        \A s \in rows : Cardinality(Before(sort, rows, r))
                          <= Cardinality(Before(sort, rows, s))
  <2>1. PICK m \in T : \A k \in T : m <= k
    BY <1>1, LeastNumber
  <2> QED BY <2>1
<1>3. PICK t \in rows :
        \A s \in rows : Cardinality(After(sort, rows, t))
                          <= Cardinality(After(sort, rows, s))
  <2>1. PICK m \in L : \A k \in L : m <= k
    BY <1>1, LeastNumber
  <2> QED BY <2>1
<1>4. Before(sort, rows, r) = {}
  <2> SUFFICES ASSUME NEW s \in rows, First(sort, s, r)
               PROVE  FALSE
    BY DEF Before
  <2>1. Cardinality(Before(sort, rows, s))
          < Cardinality(Before(sort, rows, r))
    BY EarlierHasFewer
  <2> QED BY <1>1, <1>2, <2>1
<1>5. ASSUME NEW s \in rows, s # t
      PROVE  First(sort, s, t)
  <2>1. CASE First(sort, t, s)
    <3>1. Cardinality(After(sort, rows, s))
            < Cardinality(After(sort, rows, t))
      BY <2>1, EarlierHasFewer
    <3> QED BY <1>1, <1>3, <3>1
  <2>2. s.id # t.id /\ s \in Rows /\ t \in Rows
    BY <1>5 DEF Table
  <2> QED BY <2>1, <2>2, OrderFacts
<1> QED BY <1>4, <1>5

(* A page is the beginning of the rows that are left, and all of them when *)
(* it says that there is no more.                                          *)
LEMMA PageFacts ==
  ASSUME NEW rows, Table(rows), NEW w
  PROVE  /\ Page(w, rows) \subseteq rows
         /\ rows # {} => Page(w, rows) # {}
         /\ ~(Cardinality(rows) > Limit) => Page(w, rows) = rows
         /\ \A r \in Page(w, rows), s \in rows \ Page(w, rows) :
              First(w.params.sort, r, s)
<1> DEFINE sort == w.params.sort
           page == Page(w, rows)
           n(r) == Cardinality(Before(sort, rows, r))
<1>1. page = {r \in rows : n(r) < Limit}
  BY DEF Page, Before
<1>2. \A r \in rows : n(r) \in Nat
  BY TableIsFinite, FS_Subset, FS_CardinalityType DEF Before
<1>3. Limit \in Nat /\ 0 < Limit
  BY NumberAssumption
<1>4. ASSUME rows # {}
      PROVE  page # {}
  <2>1. PICK r \in rows : Before(sort, rows, r) = {}
    BY <1>4, FirstAndLast
  <2>2. n(r) = 0
    BY <2>1, FS_EmptySet
  <2> QED BY <1>1, <1>3, <2>2
<1>5. ASSUME ~(Cardinality(rows) > Limit), NEW r \in rows
      PROVE  r \in page
  <2>1. r \in Rows
    BY DEF Table
  <2>2. Before(sort, rows, r) \in SUBSET (rows \ {r})
    BY <2>1, OrderFacts DEF Before
  <2>3. /\ IsFiniteSet(rows \ {r})
        /\ Cardinality(rows \ {r}) = Cardinality(rows) - 1
        /\ Cardinality(rows) \in Nat
    BY TableIsFinite, FS_RemoveElement
  <2>4. n(r) <= Cardinality(rows \ {r})
    BY <2>2, <2>3, FS_Subset
  <2> HIDE DEF n
  <2>5. n(r) < Limit
    BY <1>2, <1>3, <1>5, <2>3, <2>4
  <2> QED BY <1>1, <2>5
<1>6. ASSUME NEW r \in page, NEW s \in rows \ page
      PROVE  First(sort, r, s)
  <2>1. r \in rows /\ n(r) < Limit /\ ~(n(s) < Limit)
    BY <1>1
  <2>2. r \in Rows /\ s \in Rows /\ r.id # s.id
    BY <2>1, <1>6 DEF Table
  <2>3. CASE First(sort, s, r)
    <3>1. n(s) < n(r) /\ n(s) \in Nat /\ n(r) \in Nat
      BY <2>1, <2>3, EarlierHasFewer
    <3> HIDE DEF n
    <3> QED BY <1>3, <2>1, <3>1
  <2> QED BY <2>2, <2>3, OrderFacts
<1> HIDE DEF n
<1>7. page \subseteq rows
  BY <1>1
<1> QED BY <1>4, <1>5, <1>6, <1>7

(* The cursor a page leaves is one of its rows, behind all the others.     *)
LEMMA CursorFacts ==
  ASSUME NEW page, Table(page), page # {}, NEW sort
  PROVE  \E r \in page : /\ LastOf(sort, page) = r.id
                         /\ \A s \in page : s = r \/ First(sort, s, r)
<1> DEFINE Last(r) == \A s \in page : s = r \/ First(sort, s, r)
           last == CHOOSE r \in page : Last(r)
<1>1. \E r \in page : Last(r)
  BY FirstAndLast
<1>2. last \in page /\ Last(last)
  <2> HIDE DEF Last
  <2> QED BY <1>1
<1>3. LastOf(sort, page) = last.id
  BY DEF LastOf
<1> HIDE DEF last
<1> QED BY <1>2, <1>3

-----------------------------------------------------------------------------
(* The inductive invariant.                                                *)

(* A walk that has begun.                                                  *)
Begun ==
  [at : {"count", "cursor", "rows", "client", "end"}, params : Params,
   after : ResultID \cup {NULL}, place : Rows \cup {NULL},
   total : 0..Cardinality(ResultID), listed : SUBSET ResultID,
   twice : SUBSET ResultID, same : SUBSET ResultID,
   moved : BOOLEAN, still : BOOLEAN]

(* A walk whose order its cursor still stands for.                         *)
Steady(w) == w.params.sort = "newest" \/ ~w.moved

Listable(rows, live, p) == {r \in VisibleIn(rows, live) : Matches(r, p)}
IDs(rows) == {r.id : r \in rows}

(* What keeps its place is listed exactly when it does not stand behind    *)
(* the cursor.                                                             *)
ListedToCursor(w, rows) ==
  \A c, r \in rows : c.id = w.after /\ r.id \in w.same =>
    (r.id \in w.listed <=> ~First(w.params.sort, c, r))

(* A cursor is a row there is, where it was when it was looked up.         *)
WalkOK(w, rows, live) ==
  /\ w.after = NULL =>
       /\ w.listed = {} /\ w.twice = {} /\ w.place = NULL
       /\ w.at \in {"count", "rows", "end"}
  /\ w.after # NULL => w.after \in IDs(rows)
  /\ w.after # NULL /\ w.at = "rows" =>
       /\ w.place # NULL
       /\ Steady(w) =>
            \A c \in rows : c.id = w.after =>
              SamePlace(w.params.sort, c, w.place)
  /\ w.same \subseteq IDs(Listable(rows, live, w.params))
  /\ Steady(w) =>
       /\ w.twice \cap w.same = {}
       /\ w.at = "end" => w.same \subseteq w.listed
       /\ ListedToCursor(w, rows)
  /\ w.still =>
       /\ ~w.moved /\ w.listed \subseteq w.same
       /\ w.same = IDs(Listable(rows, live, w.params))
       /\ w.at # "count" =>
            w.total = Cardinality(Listable(rows, live, w.params))

(* What the totals say is of the same rows while nothing changes.          *)
SummaryOK(s, rows, live) ==
  /\ SumOver(s.by_status) = s.total
  /\ s.strong_new <= s.strong /\ s.week_searches <= s.new
  /\ s.still => s.total = Cardinality(VisibleIn(rows, live))
  /\ s.still /\ s.at = "answer" => SumOver(s.by_search) = s.total

(* The scores of a result are no older than the outcome that was read.     *)
DetailOK(d, rows) ==
  /\ d.at = "scores" =>
       \E r \in rows : r.id = d.id /\ d.overall <= r.evaluation.outcome
  /\ d.at \in {"evaluation", "answer"} => d.overall <= d.scores

WalkStays(w, rows, live) ==
  w \in Walks /\ (w # NoWalk => WalkOK(w, rows, live))
SummaryStays(s, rows, live) ==
  s \in Summaries /\ (s # NoSummary => SummaryOK(s, rows, live))
RequestsStay(requests, rows) ==
  /\ requests \in [Request -> Requests]
  /\ \A q \in Request : DetailOK(requests[q], rows)

ListIInv ==
  /\ here \subseteq {"walk", "summary", "queue"} \cup Request
  /\ searches \subseteq Search
  /\ Table(results)
  /\ WalkStays(walk, results, searches)
  /\ SummaryStays(summary, results, searches)
  /\ RequestsStay(request, results)

-----------------------------------------------------------------------------
(* What a change of the table does to what is under way.                   *)

(* A walk keeps its promises when results are added, scored or triaged,    *)
(* and when searches are deleted: only what keeps its place counts.        *)
LEMMA WalkGoesOn ==
  ASSUME Table(results), WalkStays(walk, results, searches),
         NEW rows, Table(rows), Became(results, rows),
         NEW live, Followed(live, rows)
  PROVE  WalkStays(walk', rows, live)
<1>1. CASE walk = NoWalk
  BY <1>1 DEF Followed, WalkStays, Walks
<1>2. CASE walk # NoWalk
  <2> DEFINE w == walk
             same == Sames(w, live, rows)
             moved == w.moved \/ ScoreChanged(w.after, rows)
             v == [w EXCEPT !.same = same, !.moved = moved, !.still = FALSE]
  <2>1. walk' = v
    BY <1>2 DEF Followed
  <2>2. w \in Begun /\ WalkOK(w, results, searches)
    BY <1>2 DEF WalkStays, Walks, Begun
  <2>3. same \subseteq w.same
    BY DEF Sames
  <2>4. moved \in BOOLEAN
    BY <2>2 DEF Begun, ScoreChanged
  <2> HIDE DEF same, moved
  <2>5. /\ v.at = w.at /\ v.params = w.params /\ v.after = w.after
        /\ v.place = w.place /\ v.total = w.total /\ v.listed = w.listed
        /\ v.twice = w.twice /\ v.same = same /\ v.moved = moved
        /\ v.still = FALSE
    BY <2>2 DEF Begun
  <2>6. v \in Begun
    BY <2>2, <2>3, <2>4 DEF Begun
  <2> HIDE DEF v, w
  <2>7. ASSUME NEW c \in rows, NEW d \in results, c.id = d.id
        PROVE  c.created = d.created
    BY <2>7 DEF Became, Table
  <2>8. ASSUME Steady(v), NEW c \in rows, NEW d \in results,
               c.id = d.id, c.id = w.after
        PROVE  Steady(w) /\ SamePlace(w.params.sort, c, d)
    <3>1. Steady(w) /\ (w.params.sort = "newest" \/ ~moved)
      BY <2>5, <2>8 DEF Steady, moved
    <3>2. w.params.sort # "newest" => d.overall_score = c.overall_score
      BY <2>8, <3>1 DEF moved, ScoreChanged
    <3> QED BY <2>7, <2>8, <3>1, <3>2 DEF SamePlace
  <2>9. Steady(v) => Steady(w)
    BY <2>5 DEF Steady, moved
  <2>10. ASSUME NEW c \in rows, NEW d \in results,
                c.id = d.id, c.id \in same
         PROVE  SamePlace(w.params.sort, c, d)
    <3>1. PICK r \in results, s \in VisibleIn(rows, live) :
            /\ r.id = c.id /\ s.id = c.id
            /\ r.overall_score = s.overall_score
      BY <2>10 DEF same, Sames
    <3>2. r = d /\ s = c
      BY <2>10, <3>1 DEF Table, VisibleIn
    <3> QED BY <2>7, <2>10, <3>1, <3>2 DEF SamePlace
  <2>11. w.after # NULL => w.after \in IDs(results) /\ w.after \in IDs(rows)
    BY <2>2 DEF WalkOK, IDs, Became
  <2>12. same \subseteq IDs(Listable(rows, live, w.params))
    BY DEF same, Sames, Listable, IDs
  <2>13. w.same \subseteq IDs(results)
    BY <2>2 DEF WalkOK, Listable, VisibleIn, IDs
  <2>14. ASSUME Steady(v)
         PROVE  ListedToCursor(v, rows)
    <3> SUFFICES ASSUME NEW c \in rows, NEW r \in rows,
                        c.id = w.after, r.id \in same
                 PROVE  r.id \in w.listed <=> ~First(w.params.sort, c, r)
      BY <2>5 DEF ListedToCursor
    <3>1. w.after # NULL
      <4>1. c \in Rows
        BY DEF Table
      <4> QED BY <4>1, RowFacts, NullAssumption
    <3>2. PICK d \in results : d.id = c.id
      BY <2>11, <3>1 DEF IDs
    <3>3. PICK s \in results : s.id = r.id
      BY <2>3, <2>13 DEF IDs
    <3>4. /\ SamePlace(w.params.sort, c, d)
          /\ SamePlace(w.params.sort, r, s)
      BY <2>8, <2>10, <2>14, <3>2, <3>3
    <3>5. s.id \in w.listed <=> ~First(w.params.sort, d, s)
      BY <2>2, <2>3, <2>9, <2>14, <3>2, <3>3 DEF WalkOK, ListedToCursor
    <3> QED BY <3>3, <3>4, <3>5, PlacesKeepOrder
  <2>15. ASSUME w.after # NULL, w.at = "rows"
         PROVE  /\ w.place # NULL
                /\ Steady(v) =>
                     \A c \in rows : c.id = w.after =>
                       SamePlace(w.params.sort, c, w.place)
    <3>1. w.place # NULL
      BY <2>2, <2>15 DEF WalkOK
    <3>2. ASSUME Steady(v), NEW c \in rows, c.id = w.after
          PROVE  SamePlace(w.params.sort, c, w.place)
      <4>1. PICK d \in results : d.id = c.id
        BY <2>11, <2>15, <3>2 DEF IDs
      <4>2. SamePlace(w.params.sort, d, w.place)
        BY <2>2, <2>9, <2>15, <3>2, <4>1 DEF WalkOK
      <4>3. SamePlace(w.params.sort, c, d)
        BY <2>8, <3>2, <4>1
      <4> QED BY <4>2, <4>3 DEF SamePlace
    <3> QED BY <3>1, <3>2
  <2>16. WalkOK(v, rows, live)
    <3>1. v.after = NULL =>
            /\ v.listed = {} /\ v.twice = {} /\ v.place = NULL
            /\ v.at \in {"count", "rows", "end"}
      BY <2>2, <2>5 DEF WalkOK
    <3>2. Steady(v) =>
            /\ v.twice \cap v.same = {}
            /\ v.at = "end" => v.same \subseteq v.listed
      BY <2>2, <2>3, <2>5, <2>9 DEF WalkOK
    <3> QED BY <2>5, <2>11, <2>12, <2>14, <2>15, <3>1, <3>2 DEF WalkOK
  <2>17. v \in Walks
    BY <2>6 DEF Walks, Begun
  <2> QED BY <2>1, <2>16, <2>17 DEF WalkStays
<1> QED BY <1>1, <1>2

(* A summary no longer promises that its counts agree with the table.      *)
LEMMA SummaryGoesOn ==
  ASSUME SummaryStays(summary, results, searches),
         NEW rows, NEW live, Followed(live, rows)
  PROVE  SummaryStays(summary', rows, live)
<1>1. CASE summary = NoSummary
  BY <1>1 DEF Followed, SummaryStays, Summaries
<1>2. CASE summary # NoSummary
  <2> DEFINE s == [summary EXCEPT !.still = FALSE]
  <2>1. summary' = s
    BY <1>2 DEF Followed
  <2>2. /\ s.by_status = summary.by_status /\ s.total = summary.total
        /\ s.strong_new = summary.strong_new /\ s.strong = summary.strong
        /\ s.week_searches = summary.week_searches /\ s.new = summary.new
        /\ s.still = FALSE /\ s \in Summaries
    BY <1>2 DEF SummaryStays, Summaries
  <2> HIDE DEF s
  <2>3. SummaryOK(s, rows, live)
    BY <1>2, <2>2 DEF SummaryStays, SummaryOK
  <2> QED BY <2>1, <2>2, <2>3 DEF SummaryStays
<1> QED BY <1>1, <1>2

(* A detail read before shows nothing older than what was read.            *)
LEMMA DetailGoesOn ==
  ASSUME NEW rows, Table(rows), NEW later, Table(later), Became(rows, later),
         NEW d \in Requests, DetailOK(d, rows)
  PROVE  DetailOK(d, later)
<1>1. ASSUME d.at = "scores"
      PROVE  \E r \in later : r.id = d.id
                                /\ d.overall <= r.evaluation.outcome
  <2>1. PICK r \in rows : r.id = d.id /\ d.overall <= r.evaluation.outcome
    BY <1>1 DEF DetailOK
  <2>2. PICK s \in later : /\ s.id = r.id
                           /\ r.evaluation.outcome <= s.evaluation.outcome
    BY DEF Became
  <2>3. /\ r.evaluation.outcome \in Nat /\ s.evaluation.outcome \in Nat
    BY NumberAssumption DEF Table, Rows, Outcomes
  <2>4. d.overall \in Nat
    BY <1>1, NumberAssumption DEF Requests, NoRequest, Outcomes
  <2> QED BY <2>1, <2>2, <2>3, <2>4
<1> QED BY <1>1 DEF DetailOK

(* So every change of the table keeps the invariant when requests go on.   *)
LEMMA TableChanges ==
  ASSUME ListIInv, NEW rows, Table(rows), Became(results, rows),
         NEW live \in SUBSET Search, Followed(live, rows), here' \subseteq here,
         RequestsStay(request', rows)
  PROVE  ListIInv'
<1>1. results' = rows /\ searches' = live
  BY DEF Followed
<1>2. WalkStays(walk', rows, live)
  BY WalkGoesOn DEF ListIInv
<1>3. SummaryStays(summary', rows, live)
  BY SummaryGoesOn DEF ListIInv
<1> QED BY <1>1, <1>2, <1>3 DEF ListIInv

LEMMA RequestsGoOn ==
  ASSUME ListIInv, NEW rows, Table(rows), Became(results, rows),
         request' = request
  PROVE  RequestsStay(request', rows)
<1>1. \A q \in Request :
        request[q] \in Requests /\ DetailOK(request[q], results)
  BY DEF ListIInv, RequestsStay
<1>2. \A q \in Request : DetailOK(request[q], rows)
  BY <1>1, DetailGoesOn DEF ListIInv
<1> QED BY <1>2 DEF ListIInv, RequestsStay

-----------------------------------------------------------------------------
(* The steps of the worker, and of the user's other requests.              *)

LEMMA AddResultStep ==
  ASSUME ListIInv, NEW f \in Findable, AddResult(f)
  PROVE  ListIInv'
<1> DEFINE rows == results \cup {Found(f)}
<1>1. f \in [id : ResultID, search : Search, created : Times]
  BY FindableAssumption
<1>2. Found(f) \in Rows /\ Found(f).id = f.id
      /\ Found(f).scores = Found(f).evaluation.outcome
  BY <1>1, NumberAssumption
  DEF Found, Rows, SearchResultStatuses, EvaluationStatuses, Outcomes
<1> HIDE DEF Found
<1>3. Table(rows)
  BY <1>2 DEF ListIInv, Table, AddResult
<1>4. Became(results, rows)
  BY NumberAssumption DEF ListIInv, Table, Became, Rows, Outcomes
<1>5. Followed(searches, rows) /\ here' = here /\ request' = request
  BY DEF AddResult
<1> HIDE DEF rows
<1> QED BY <1>3, <1>4, <1>5, RequestsGoOn, TableChanges DEF ListIInv

(* A row that takes the place of one with its id leaves a table.           *)
LEMMA Replaced ==
  ASSUME NEW rows, Table(rows), NEW r \in rows,
         NEW s \in Rows, s.id = r.id, s.created = r.created,
         s.scores = s.evaluation.outcome,
         r.evaluation.outcome <= s.evaluation.outcome
  PROVE  /\ Table((rows \ {r}) \cup {s})
         /\ Became(rows, (rows \ {r}) \cup {s})
<1>1. Table((rows \ {r}) \cup {s})
  BY DEF Table
<1>2. ASSUME NEW t \in rows
      PROVE  \E u \in (rows \ {r}) \cup {s} :
               /\ u.id = t.id /\ u.created = t.created
               /\ t.evaluation.outcome <= u.evaluation.outcome
  <2>1. CASE t = r
    BY <2>1
  <2>2. CASE t # r
    BY <2>2, NumberAssumption DEF Table, Rows, Outcomes
  <2> QED BY <2>1, <2>2
<1> QED BY <1>1, <1>2 DEF Became

LEMMA EvaluateStep ==
  ASSUME ListIInv, NEW r \in results, NEW score \in Scores \cup {NULL},
         Evaluate(r, score)
  PROVE  ListIInv'
<1> DEFINE f == [s \in results |-> s.evaluation.outcome]
           n == r.evaluation.outcome + 1
<1>1. Table(results) /\ r \in Rows
  BY DEF ListIInv, Table
<1>2. MaxOutcomes \in Nat /\ \A t \in Rows : t.evaluation.outcome \in Nat
  BY NumberAssumption DEF Rows, Outcomes
<1>3. f \in [results -> Nat]
  BY <1>1, <1>2 DEF Table
<1>4. SumOver(f) \in Nat /\ f[r] <= SumOver(f)
  <2> HIDE DEF f
  <2> QED BY <1>1, <1>3, TableIsFinite, SumFacts
<1>5. f[r] = r.evaluation.outcome /\ SumOver(f) < MaxOutcomes
  BY DEF Evaluate
<1> HIDE DEF f
<1>6. n \in 0..MaxOutcomes /\ r.evaluation.outcome <= n
  BY <1>1, <1>2, <1>4, <1>5
<1> HIDE DEF n
<1>7. PICK status \in EvaluationStatuses :
        Followed(searches, (results \ {r}) \cup {Evaluated(r, score, status)})
  BY DEF Evaluate, EvaluationStatuses
<1> DEFINE s == Evaluated(r, score, status)
           rows == (results \ {r}) \cup {s}
<1>8. s \in Rows /\ s.id = r.id /\ s.created = r.created
      /\ s.scores = n /\ s.evaluation.outcome = n
  <2>1. s = [r EXCEPT !.evaluation_status = status, !.overall_score = score,
                      !.evaluation = [outcome |-> n, overall |-> score],
                      !.scores = n]
    BY DEF Evaluated, n
  <2> HIDE DEF s
  <2>2. s.evaluation = [outcome |-> n, overall |-> score]
    BY <1>1, <2>1 DEF Rows
  <2> QED BY <1>1, <1>6, <2>1, <2>2 DEF Rows, Outcomes
<1> HIDE DEF s
<1>9. Table(rows) /\ Became(results, rows)
  BY <1>1, <1>6, <1>8, Replaced
<1>10. Followed(searches, rows) /\ here' = here /\ request' = request
  BY <1>7 DEF Evaluate, s
<1> HIDE DEF rows
<1> QED BY <1>9, <1>10, RequestsGoOn, TableChanges DEF ListIInv

LEMMA QueuedStep ==
  ASSUME ListIInv, NEW r \in results,
         NEW status \in {"pending", "processing"}, Queued(r, status)
  PROVE  ListIInv'
<1> DEFINE s == [r EXCEPT !.evaluation_status = status]
           rows == (results \ {r}) \cup {s}
<1>1. Table(results) /\ r \in Rows
  BY DEF ListIInv, Table
<1>2. r.evaluation.outcome \in Nat /\ r.scores = r.evaluation.outcome
  BY <1>1, NumberAssumption DEF Table, Rows, Outcomes
<1>3. s \in Rows /\ s.id = r.id /\ s.created = r.created
      /\ s.scores = r.scores /\ s.evaluation = r.evaluation
  BY <1>1 DEF Rows, EvaluationStatuses
<1> HIDE DEF s
<1>4. Table(rows) /\ Became(results, rows)
  BY <1>1, <1>2, <1>3, Replaced
<1>5. Followed(searches, rows) /\ here' \subseteq here /\ request' = request
  BY DEF Queued, s
<1> HIDE DEF rows
<1> QED BY <1>4, <1>5, RequestsGoOn, TableChanges DEF ListIInv

LEMMA DeleteSearchStep ==
  ASSUME ListIInv, NEW s \in Search, DeleteSearch(s)
  PROVE  ListIInv'
<1>1. Table(results) /\ searches \ {s} \in SUBSET Search
  BY DEF ListIInv
<1>2. Became(results, results)
  BY <1>1, NumberAssumption DEF Table, Became, Rows, Outcomes
<1>3. /\ Followed(searches \ {s}, results)
      /\ here' = here /\ request' = request
  BY DEF DeleteSearch
<1> QED BY <1>1, <1>2, <1>3, RequestsGoOn, TableChanges

LEMMA WriteStatusStep ==
  ASSUME ListIInv, NEW q \in Request, WriteStatus(q)
  PROVE  ListIInv'
<1> DEFINE d == request[q]
           e == [at |-> "row", id |-> d.id]
<1>1. d \in Requests /\ d.at = "update" /\ request' = [request EXCEPT ![q] = e]
  BY DEF ListIInv, RequestsStay, WriteStatus, Becomes
<1>2. d.status \in SearchResultStatuses /\ e \in Requests /\ d.id \in ResultID
  BY <1>1 DEF Requests, NoRequest
<1>3. PICK r \in results :
        /\ r.id = d.id
        /\ Followed(searches, (results \ {r}) \cup {Triaged(r, d.status)})
  BY DEF WriteStatus
<1> DEFINE s == Triaged(r, d.status)
           rows == (results \ {r}) \cup {s}
<1>4. Table(results) /\ r \in Rows
  BY DEF ListIInv, Table
<1>5. r.evaluation.outcome \in Nat /\ r.scores = r.evaluation.outcome
  BY <1>4, NumberAssumption DEF Table, Rows, Outcomes
<1>6. s \in Rows /\ s.id = r.id /\ s.created = r.created
      /\ s.scores = r.scores /\ s.evaluation = r.evaluation
  <2> HIDE DEF d
  <2> QED BY <1>2, <1>4 DEF Triaged, Rows
<1> HIDE DEF s
<1>7. Table(rows) /\ Became(results, rows)
  BY <1>4, <1>5, <1>6, Replaced
<1>8. Followed(searches, rows) /\ here' = here
  BY <1>3 DEF WriteStatus, s
<1> HIDE DEF rows, d
<1>9. ASSUME NEW p \in Request
      PROVE  request'[p] \in Requests /\ DetailOK(request'[p], rows)
  <2>1. request[p] \in Requests /\ DetailOK(request[p], results)
        /\ request'[p] = IF p = q THEN e ELSE request[p]
    BY <1>1 DEF ListIInv, RequestsStay
  <2>2. DetailOK(request[p], rows)
    BY <1>4, <1>7, <2>1, DetailGoesOn
  <2>3. DetailOK(e, rows)
    BY DEF DetailOK
  <2> QED BY <1>2, <2>1, <2>2, <2>3
<1>10. RequestsStay(request', rows)
  <2> HIDE DEF e
  <2> QED BY <1>1, <1>2, <1>9 DEF ListIInv, RequestsStay
<1> QED BY <1>7, <1>8, <1>10, TableChanges DEF ListIInv

-----------------------------------------------------------------------------
(* The steps of a walk.                                                    *)

(* What only moves a walk on keeps the invariant when the walk does.       *)
LEMMA WalkMoves ==
  ASSUME ListIInv, notWalk' = notWalk \/
           (/\ here' \subseteq here
            /\ UNCHANGED <<searches, results, request, summary>>),
         WalkStays(walk', results, searches)
  PROVE  ListIInv'
BY DEF ListIInv, notWalk

LEMMA FilteredIsListable ==
  ASSUME NEW p
  PROVE  /\ Filtered(p) = Listable(results, searches, p)
         /\ Filtered(p) \subseteq results
BY DEF Filtered, Visible, Listable, VisibleIn

LEMMA StartWalkStep ==
  ASSUME ListIInv, NEW p \in Asked, StartWalk(p)
  PROVE  ListIInv'
<1> DEFINE rows == Filtered(p)
           v == [at |-> "count", params |-> p, after |-> NULL,
                 place |-> NULL, total |-> 0,
                 listed |-> {}, twice |-> {}, same |-> IDs(rows),
                 moved |-> FALSE, still |-> TRUE]
<1>1. walk' = v
  BY DEF StartWalk, IDs
<1>2. p \in Params /\ Table(results)
  BY AskedAssumption DEF ListIInv
<1>3. rows \in SUBSET results /\ rows = Listable(results, searches, p)
  BY FilteredIsListable
<1> HIDE DEF rows
<1>4. Cardinality(rows) \in Counts /\ Table(rows)
  BY <1>2, <1>3, PartIsCounted
<1>5. IDs(rows) \subseteq ResultID
  BY <1>4 DEF IDs, Table, Rows
<1>6. v \in Begun
  <2>1. Cardinality(ResultID) \in Nat
    BY NumberAssumption, FS_CardinalityType
  <2> QED BY <1>2, <1>5, <2>1 DEF Begun
<1>7. v \in Walks
  BY <1>6 DEF Begun, Walks
<1>8. ListedToCursor(v, results)
  BY <1>2, RowFacts, NullAssumption DEF ListedToCursor, Table
<1>9. WalkOK(v, results, searches)
  <2>1. /\ v.at = "count" /\ v.params = p /\ v.after = NULL
        /\ v.place = NULL
        /\ v.listed = {} /\ v.twice = {} /\ v.same = IDs(rows)
        /\ v.moved = FALSE
    OBVIOUS
  <2> HIDE DEF v
  <2> QED BY <1>3, <1>8, <2>1 DEF WalkOK
<1>10. WalkStays(v, results, searches)
  BY <1>7, <1>9 DEF WalkStays
<1> HIDE DEF v
<1> QED BY <1>1, <1>10, WalkMoves DEF StartWalk

LEMMA EndWalkStep ==
  ASSUME ListIInv, EndWalk
  PROVE  ListIInv'
<1>1. WalkStays(NoWalk, results, searches)
  BY DEF WalkStays, Walks
<1> QED BY <1>1, WalkMoves DEF EndWalk

LEMMA NextPageStep ==
  ASSUME ListIInv, NextPage
  PROVE  ListIInv'
<1> DEFINE v == [walk EXCEPT !.at = "count"]
<1>1. walk.at = "client" /\ walk # NoWalk
  BY DEF NextPage, NoWalk
<1>2. walk \in Begun /\ WalkOK(walk, results, searches)
  BY <1>1 DEF ListIInv, WalkStays, Walks, Begun
<1>3. /\ v.at = "count" /\ v.params = walk.params
      /\ v.after = walk.after /\ v.place = walk.place
      /\ v.total = walk.total /\ v.listed = walk.listed
      /\ v.twice = walk.twice /\ v.same = walk.same
      /\ v.moved = walk.moved /\ v.still = walk.still
      /\ v \in Walks
  BY <1>2 DEF Begun, Walks
<1> HIDE DEF v
<1>4. Steady(v) = Steady(walk)
      /\ ListedToCursor(v, results) = ListedToCursor(walk, results)
  BY <1>3 DEF Steady, ListedToCursor
<1>5. WalkOK(v, results, searches)
  BY <1>1, <1>2, <1>3, <1>4 DEF WalkOK
<1>6. WalkStays(v, results, searches) /\ WalkStays(NoWalk, results, searches)
  BY <1>3, <1>5 DEF WalkStays, Walks
<1>7. walk' = v \/ walk' = NoWalk
  BY DEF NextPage, v
<1> QED BY <1>6, <1>7, WalkMoves DEF NextPage

(* Between two pages only the count of a walk is made anew.                *)
LEMMA CountTotalStep ==
  ASSUME ListIInv, CountTotal
  PROVE  ListIInv'
<1> DEFINE n == Total(walk)
           at == IF walk.after = NULL THEN "rows" ELSE "cursor"
           v == [walk EXCEPT !.at = at, !.total = n]
<1>1. walk.at = "count" /\ walk # NoWalk
  BY DEF CountTotal, NoWalk
<1>2. walk \in Begun /\ WalkOK(walk, results, searches)
  BY <1>1 DEF ListIInv, WalkStays, Walks, Begun
<1>3. n = Cardinality(Listable(results, searches, walk.params))
  BY FilteredIsListable DEF Total
<1>4. n \in Counts
  BY FilteredIsListable, PartIsCounted DEF ListIInv, Total
<1> HIDE DEF n
<1>5. /\ v.at = at /\ v.params = walk.params
      /\ v.after = walk.after /\ v.place = walk.place /\ v.total = n
      /\ v.listed = walk.listed /\ v.twice = walk.twice
      /\ v.same = walk.same /\ v.moved = walk.moved
      /\ v.still = walk.still
  BY <1>2 DEF Begun
<1>6. v \in Walks
  BY <1>2, <1>4 DEF Begun, Walks, Counts
<1> HIDE DEF v
<1>7. Steady(v) = Steady(walk)
      /\ ListedToCursor(v, results) = ListedToCursor(walk, results)
  BY <1>5 DEF Steady, ListedToCursor
<1>8. WalkOK(v, results, searches)
  BY <1>1, <1>2, <1>3, <1>5, <1>7 DEF WalkOK
<1>9. WalkStays(v, results, searches)
  BY <1>6, <1>8 DEF WalkStays
<1>10. walk' = v
  BY DEF CountTotal, v, n
<1> QED BY <1>9, <1>10, WalkMoves DEF CountTotal

LEMMA LoadCursorStep ==
  ASSUME ListIInv, LoadCursor
  PROVE  ListIInv'
<1>1. PICK c \in results :
        c.id = walk.after /\ walk' = [walk EXCEPT !.at = "rows", !.place = c]
  BY DEF LoadCursor
<1> DEFINE v == [walk EXCEPT !.at = "rows", !.place = c]
<1>2. walk.at = "cursor"
  BY DEF LoadCursor
<1>3. walk # NoWalk
  BY <1>2 DEF NoWalk
<1>4. walk \in Begun /\ WalkOK(walk, results, searches)
  BY <1>3 DEF ListIInv, WalkStays, Walks, Begun
<1>5. Table(results) /\ c \in Rows
  BY DEF ListIInv, Table
<1>6. /\ v.at = "rows" /\ v.params = walk.params
      /\ v.after = walk.after /\ v.place = c /\ v.total = walk.total
      /\ v.listed = walk.listed /\ v.twice = walk.twice
      /\ v.same = walk.same /\ v.moved = walk.moved
      /\ v.still = walk.still
  BY <1>4 DEF Begun
<1>7. v \in Walks
  BY <1>4, <1>5 DEF Begun, Walks
<1> HIDE DEF v
<1>8. Steady(v) = Steady(walk)
  BY <1>6 DEF Steady
<1>9. ListedToCursor(v, results) = ListedToCursor(walk, results)
  BY <1>6 DEF ListedToCursor
<1>10. v.after # NULL /\ v.place # NULL
  BY <1>1, <1>5, <1>6, RowFacts, NullAssumption
<1>11. \A d \in results : d.id = v.after =>
         SamePlace(v.params.sort, d, v.place)
  BY <1>1, <1>5, <1>6 DEF Table, SamePlace
<1>12. WalkOK(v, results, searches)
  BY <1>2, <1>4, <1>6, <1>8, <1>9, <1>10, <1>11 DEF WalkOK
<1>13. WalkStays(v, results, searches)
  BY <1>7, <1>12 DEF WalkStays
<1> QED BY <1>1, <1>13, WalkMoves DEF LoadCursor, v

(* A page lists what keeps its place behind its cursor and nothing that is *)
(* listed, up to the cursor it leaves.                                     *)
LEMMA ListRowsStep ==
  ASSUME ListIInv, ListRows
  PROVE  ListIInv'
<1> DEFINE sort == walk.params.sort
           all == Filtered(walk.params)
           rows == Selected(walk)
           page == Page(walk, rows)
           ids == IDs(page)
           more == Cardinality(rows) > Limit
           at == IF more THEN "client" ELSE "end"
           last == IF page = {} THEN walk.after ELSE LastOf(sort, page)
           listed == walk.listed \cup ids
           twice == walk.twice \cup (walk.listed \cap ids)
           v == [walk EXCEPT !.at = at, !.after = last, !.listed = listed,
                             !.twice = twice]
<1>1. walk' = v /\ walk.at = "rows" /\ notWalk' = notWalk
  BY DEF ListRows, IDs
<1>2. walk # NoWalk
  BY <1>1 DEF NoWalk
<1>3. walk \in Begun /\ WalkOK(walk, results, searches)
  BY <1>2 DEF ListIInv, WalkStays, Walks, Begun
<1>4. Table(results) /\ all = Listable(results, searches, walk.params)
      /\ all \subseteq results
  BY FilteredIsListable DEF ListIInv
<1>5. walk.place # NULL => walk.place \in Rows
  BY <1>3 DEF Begun
<1>6. rows \subseteq all
  BY DEF Selected
<1>7. ASSUME NEW r \in all
      PROVE  r \in rows <=>
               (walk.place # NULL => First(sort, walk.place, r))
  <2>1. r \in Rows
    BY <1>4 DEF Table
  <2>2. r \in rows <=> (walk.place # NULL => Beyond(sort, walk.place, r))
    BY DEF Selected
  <2> QED BY <1>5, <2>1, <2>2, BeyondIsAfter
<1>8. Table(rows)
  BY <1>4, <1>6, PartIsCounted
<1> HIDE DEF all, rows
<1>9. /\ page \subseteq rows
      /\ rows # {} => page # {}
      /\ ~more => page = rows
      /\ \A r \in page, s \in rows \ page : First(sort, r, s)
  BY <1>8, PageFacts
<1> HIDE DEF page
<1>10. /\ page \subseteq results /\ rows \subseteq results
       /\ results \subseteq Rows /\ Table(page)
  BY <1>4, <1>6, <1>8, <1>9, PartIsCounted DEF Table
<1>11. rows = {} => ~more
  BY FS_EmptySet, NumberAssumption
<1>12. \A r, s \in results : r.id = s.id => r = s
  BY <1>4 DEF Table
<1>13. page # {} =>
         \E r \in page : /\ last = r.id
                         /\ \A s \in page : s = r \/ First(sort, s, r)
  BY <1>10, CursorFacts
<1>14. /\ ids \subseteq ResultID
       /\ last \in ResultID \cup {NULL}
       /\ page # {} => last # NULL
  <2>1. \A r \in page : r.id \in ResultID /\ r.id # NULL
    BY <1>10, RowFacts, NullAssumption
  <2> HIDE DEF last
  <2>2. page # {} => last \in ResultID /\ last # NULL
    BY <1>13, <2>1
  <2>3. page = {} => last = walk.after
    BY DEF last
  <2> QED BY <1>3, <2>1, <2>2, <2>3 DEF Begun, IDs
<1>15. page = {} => last = walk.after
  OBVIOUS
<1> HIDE DEF last, more
<1>16. /\ v.at = at /\ v.params = walk.params /\ v.after = last
       /\ v.place = walk.place /\ v.total = walk.total
       /\ v.listed = listed /\ v.twice = twice
       /\ v.same = walk.same /\ v.moved = walk.moved
       /\ v.still = walk.still
  BY <1>3 DEF Begun
<1>17. v \in Walks
  BY <1>3, <1>14 DEF Begun, Walks
<1>18. at \in {"client", "end"} /\ (at = "end" <=> ~more)
  OBVIOUS
<1> HIDE DEF v, at, ids
<1>19. walk.same \subseteq IDs(all)
  BY <1>3, <1>4 DEF WalkOK
<1>20. ids \subseteq IDs(all)
  BY <1>6, <1>9 DEF ids, IDs
<1>21. \A r \in results : r.id \in IDs(all) => r \in all
  BY <1>4, <1>12 DEF IDs
<1>22. ASSUME Steady(walk), NEW r \in all, r.id \in walk.same
       PROVE  /\ r \in rows => r.id \notin walk.listed
              /\ r \notin rows => r.id \in walk.listed
                   /\ walk.place # NULL /\ ~First(sort, walk.place, r)
  <2>1. CASE walk.after = NULL
    <3>1. walk.listed = {} /\ walk.place = NULL
      BY <1>3, <2>1 DEF WalkOK
    <3> QED BY <1>7, <3>1
  <2>2. CASE walk.after # NULL
    <3>1. walk.place # NULL /\ walk.after \in IDs(results)
      BY <1>1, <1>3, <2>2 DEF WalkOK
    <3>2. PICK c \in results : c.id = walk.after
      BY <3>1 DEF IDs
    <3>3. SamePlace(sort, c, walk.place)
      BY <1>1, <1>3, <1>22, <2>2, <3>2 DEF WalkOK
    <3>4. SamePlace(sort, r, r)
      BY DEF SamePlace
    <3>5. First(sort, c, r) <=> First(sort, walk.place, r)
      BY <3>3, <3>4, PlacesKeepOrder
    <3>6. r.id \in walk.listed <=> ~First(sort, c, r)
      BY <1>3, <1>4, <1>22, <3>2 DEF WalkOK, ListedToCursor
    <3> QED BY <1>7, <3>1, <3>5, <3>6
  <2> QED BY <2>1, <2>2
<1>23. \A r \in results : r.id \in ids <=> r \in page
  BY <1>10, <1>12 DEF ids, IDs
<1>24. v.after = NULL =>
         /\ v.listed = {} /\ v.twice = {} /\ v.place = NULL
         /\ v.at \in {"count", "rows", "end"}
  <2> SUFFICES ASSUME last = NULL
               PROVE  /\ listed = {} /\ twice = {} /\ walk.place = NULL
                      /\ at = "end"
    BY <1>16
  <2>1. page = {} /\ walk.after = NULL
    BY <1>14, <1>15
  <2>2. ids = {} /\ ~more
    BY <1>9, <1>11, <2>1 DEF ids, IDs
  <2> QED BY <1>3, <1>18, <2>1, <2>2 DEF WalkOK
<1>25. v.after # NULL => v.after \in IDs(results)
  <2>1. CASE page = {}
    BY <1>3, <1>15, <1>16, <2>1 DEF WalkOK
  <2>2. CASE page # {}
    BY <1>10, <1>13, <1>16, <2>2 DEF IDs
  <2> QED BY <2>1, <2>2
<1>26. ASSUME Steady(walk)
       PROVE  twice \cap walk.same = {}
  <2> SUFFICES ASSUME NEW i \in walk.same, i \in walk.listed, i \in ids
               PROVE  FALSE
    BY <1>3, <1>26 DEF WalkOK
  <2>1. PICK r \in page : r.id = i
    BY DEF ids, IDs
  <2>2. r \in all /\ r \in rows
    BY <1>6, <1>9
  <2> QED BY <1>22, <1>26, <2>1, <2>2
<1>27. ASSUME Steady(walk), at = "end"
       PROVE  walk.same \subseteq listed
  <2> SUFFICES ASSUME NEW i \in walk.same
               PROVE  i \in listed
    OBVIOUS
  <2>1. PICK r \in all : r.id = i
    BY <1>19 DEF IDs
  <2>2. page = rows
    BY <1>9, <1>18, <1>27
  <2> QED BY <1>4, <1>22, <1>23, <1>27, <2>1, <2>2
<1>28. ASSUME Steady(walk)
       PROVE  ListedToCursor(v, results)
  <2> SUFFICES ASSUME NEW c \in results, NEW r \in results,
                      c.id = last, r.id \in walk.same
               PROVE  r.id \in listed <=> ~First(sort, c, r)
    BY <1>16 DEF ListedToCursor
  <2>1. r \in all /\ r \in Rows /\ c \in Rows
    BY <1>10, <1>19, <1>21
  <2>2. CASE page = {}
    <3>1. ids = {} /\ last = walk.after
      BY <1>15, <2>2 DEF ids, IDs
    <3> QED BY <1>3, <1>28, <3>1 DEF WalkOK, ListedToCursor
  <2>3. CASE page # {}
    <3>1. c \in page /\ \A s \in page : s = c \/ First(sort, s, c)
      BY <1>10, <1>12, <1>13, <2>3
    <3>2. CASE r \in page
      <4>1. ~First(sort, c, r)
        BY <2>1, <3>1, <3>2, OrderFacts
      <4> QED BY <1>23, <3>2, <4>1
    <3>3. CASE r \in rows \ page
      <4>1. First(sort, c, r)
        BY <1>9, <3>1, <3>3
      <4> QED BY <1>22, <1>23, <1>28, <2>1, <3>3, <4>1
    <3>4. CASE r \notin rows
      <4>1. /\ r.id \in walk.listed /\ walk.place # NULL
            /\ ~First(sort, walk.place, r)
        BY <1>22, <1>28, <2>1, <3>4
      <4>2. c \in all /\ c \in rows
        BY <1>6, <1>9, <3>1
      <4>3. First(sort, walk.place, c)
        BY <1>7, <4>1, <4>2
      <4>4. ~First(sort, c, r)
        BY <1>5, <2>1, <4>1, <4>3, OrderFacts
      <4> QED BY <4>1, <4>4
    <3> QED BY <3>2, <3>3, <3>4
  <2> QED BY <2>2, <2>3
<1>29. Steady(v) = Steady(walk)
  BY <1>16 DEF Steady
<1>30. v.still =>
         /\ ~v.moved /\ v.listed \subseteq v.same
         /\ v.same = IDs(all) /\ v.total = Cardinality(all)
  BY <1>1, <1>3, <1>4, <1>16, <1>20 DEF WalkOK
<1>31. WalkOK(v, results, searches)
  <2> HIDE DEF sort, listed, twice
  <2> QED BY <1>4, <1>16, <1>18, <1>19, <1>24, <1>25, <1>26, <1>27, <1>28,
             <1>29, <1>30 DEF WalkOK
<1>32. WalkStays(v, results, searches)
  BY <1>17, <1>31 DEF WalkStays
<1> QED BY <1>1, <1>32, WalkMoves

-----------------------------------------------------------------------------
(* The steps of a request.                                                 *)

LEMMA RequestMoves ==
  ASSUME ListIInv, NEW q \in Request, NEW d \in Requests,
         DetailOK(d, results), Becomes(q, d), here' \subseteq here,
         UNCHANGED <<notRequest, results>>
  PROVE  ListIInv'
<1>1. request' = [request EXCEPT ![q] = d]
  BY DEF Becomes
<1>2. RequestsStay(request', results)
  BY <1>1 DEF ListIInv, RequestsStay
<1> QED BY <1>2 DEF ListIInv, notRequest

LEMMA GetStep ==
  ASSUME ListIInv, NEW q \in Request, NEW i \in ResultID, Get(q, i)
  PROVE  ListIInv'
<1> DEFINE d == [at |-> "row", id |-> i]
<1>1. d \in Requests /\ DetailOK(d, results)
  BY DEF Requests, DetailOK
<1>2. /\ Becomes(q, d) /\ here' \subseteq here
      /\ UNCHANGED <<notRequest, results>>
  BY DEF Get, Comes
<1> QED BY <1>1, <1>2, RequestMoves

LEMMA UpdateStatusStep ==
  ASSUME ListIInv, NEW q \in Request, NEW t \in Triages,
         UpdateStatus(q, t.id, t.status)
  PROVE  ListIInv'
<1> DEFINE d == [at |-> "update", id |-> t.id, status |-> t.status]
<1>1. d \in Requests /\ DetailOK(d, results)
  BY TriagesAssumption DEF Requests, DetailOK
<1>2. /\ Becomes(q, d) /\ here' \subseteq here
      /\ UNCHANGED <<notRequest, results>>
  BY DEF UpdateStatus, Comes
<1> QED BY <1>1, <1>2, RequestMoves

LEMMA NoRequestIsOK == NoRequest \in Requests /\ DetailOK(NoRequest, results)
BY DEF NoRequest, Requests, DetailOK

LEMMA ReadRowStep ==
  ASSUME ListIInv, NEW q \in Request, ReadRow(q)
  PROVE  ListIInv'
<1>1. UNCHANGED <<notRequest, here, results>>
  BY DEF ReadRow
<1>2. CASE Becomes(q, NoRequest)
  BY <1>1, <1>2, NoRequestIsOK, RequestMoves
<1>3. ASSUME NEW r \in Shown(request[q].id),
             Becomes(q, [at |-> IF r.overall_score # NULL THEN "evaluation"
                                ELSE "answer",
                         id |-> r.id, overall |-> 0, scores |-> 0])
      PROVE  ListIInv'
  <2> DEFINE at == IF r.overall_score # NULL THEN "evaluation"
                   ELSE "answer"
             d == [at |-> at, id |-> r.id, overall |-> 0, scores |-> 0]
  <2>1. r.id \in ResultID
    BY DEF Shown, Visible, ListIInv, Table, Rows
  <2>2. at \in {"evaluation", "answer"}
    OBVIOUS
  <2> HIDE DEF at
  <2>3. d \in Requests /\ DetailOK(d, results)
    BY <2>1, <2>2, NumberAssumption DEF Requests, DetailOK, Outcomes
  <2>4. Becomes(q, d)
    BY <1>3 DEF at
  <2> HIDE DEF d
  <2> QED BY <1>1, <2>3, <2>4, RequestMoves
<1> QED BY <1>2, <1>3 DEF ReadRow

(* What a request knows when it has read the row.                          *)
Reading ==
  [at : {"evaluation", "scores", "answer"}, id : ResultID,
   overall : Outcomes, scores : Outcomes]

LEMMA ReadEvaluationStep ==
  ASSUME ListIInv, NEW q \in Request, ReadEvaluation(q)
  PROVE  ListIInv'
<1> DEFINE d == request[q]
<1>1. d \in Requests /\ DetailOK(d, results) /\ d.at = "evaluation"
      /\ UNCHANGED <<notRequest, here, results>>
  BY DEF ListIInv, RequestsStay, ReadEvaluation
<1>2. d \in Reading
  BY <1>1 DEF Requests, NoRequest, Reading
<1>3. PICK r \in results :
        /\ r.id = d.id
        /\ Becomes(q, IF r.evaluation.overall # NULL
                      THEN [d EXCEPT !.at = "scores",
                                     !.overall = r.evaluation.outcome]
                      ELSE [d EXCEPT !.at = "answer"])
  BY DEF ReadEvaluation
<1>4. r.evaluation.outcome \in Outcomes /\ r.evaluation.outcome \in Nat
  BY NumberAssumption DEF ListIInv, Table, Rows, Outcomes
<1> HIDE DEF d
<1>5. CASE Becomes(q, [d EXCEPT !.at = "scores",
                                !.overall = r.evaluation.outcome])
  <2> DEFINE e == [d EXCEPT !.at = "scores",
                            !.overall = r.evaluation.outcome]
  <2>1. /\ e.at = "scores" /\ e.id = d.id
        /\ e.overall = r.evaluation.outcome /\ e \in Requests
    BY <1>2, <1>4 DEF Reading, Requests
  <2> HIDE DEF e
  <2>2. DetailOK(e, results)
    BY <1>3, <1>4, <2>1 DEF DetailOK
  <2>3. Becomes(q, e)
    BY <1>5 DEF e
  <2> QED BY <1>1, <2>1, <2>2, <2>3, RequestMoves
<1>6. CASE Becomes(q, [d EXCEPT !.at = "answer"])
           /\ ~(r.evaluation.overall # NULL)
  <2> DEFINE e == [d EXCEPT !.at = "answer"]
  <2>1. /\ e.at = "answer" /\ e.overall = d.overall /\ e.scores = d.scores
        /\ e \in Requests
    BY <1>2 DEF Reading, Requests
  <2> HIDE DEF e
  <2>2. DetailOK(e, results)
    BY <1>1, <2>1 DEF DetailOK
  <2>3. Becomes(q, e)
    BY <1>6 DEF e
  <2> QED BY <1>1, <2>1, <2>2, <2>3, RequestMoves
<1> QED BY <1>3, <1>5, <1>6

(* The scores are read after the evaluation, and are of no earlier outcome. *)
LEMMA ReadScoresStep ==
  ASSUME ListIInv, NEW q \in Request, ReadScores(q)
  PROVE  ListIInv'
<1> DEFINE d == request[q]
<1>1. d \in Requests /\ DetailOK(d, results) /\ d.at = "scores"
      /\ UNCHANGED <<notRequest, here, results>>
  BY DEF ListIInv, RequestsStay, ReadScores
<1>2. d \in Reading
  BY <1>1 DEF Requests, NoRequest, Reading
<1>3. PICK r \in results :
        /\ r.id = d.id
        /\ Becomes(q, [d EXCEPT !.at = "answer", !.scores = r.scores])
  BY DEF ReadScores
<1> HIDE DEF d
<1> DEFINE e == [d EXCEPT !.at = "answer", !.scores = r.scores]
<1>4. r.scores \in Outcomes /\ r.scores = r.evaluation.outcome
  BY DEF ListIInv, Table, Rows, Outcomes
<1>5. d.overall <= r.evaluation.outcome
  BY <1>1, <1>3 DEF DetailOK, ListIInv, Table
<1>6. /\ e.at = "answer" /\ e.overall = d.overall /\ e.scores = r.scores
      /\ e \in Requests
  BY <1>2, <1>4 DEF Reading, Requests
<1> HIDE DEF e
<1>7. DetailOK(e, results)
  BY <1>4, <1>5, <1>6 DEF DetailOK
<1>8. Becomes(q, e)
  BY <1>3 DEF e
<1> QED BY <1>1, <1>6, <1>7, <1>8, RequestMoves

LEMMA AnswerStep ==
  ASSUME ListIInv, NEW q \in Request, Answer(q)
  PROVE  ListIInv'
BY NoRequestIsOK, RequestMoves DEF Answer

-----------------------------------------------------------------------------
(* The steps of a summary.                                                 *)

LEMMA SummaryMoves ==
  ASSUME ListIInv, here' \subseteq here,
         UNCHANGED <<searches, results, walk, request>>,
         SummaryStays(summary', results, searches)
  PROVE  ListIInv'
BY DEF ListIInv

LEMMA StatusesAreFinite ==
  IsFiniteSet(SearchResultStatuses)
<1>1. IsFiniteSet({"new"})
  BY FS_Singleton
<1>2. IsFiniteSet({"new", "saved"})
  BY <1>1, FS_AddElement
<1>3. IsFiniteSet({"new", "saved", "applied"})
  BY <1>2, FS_AddElement
<1>4. IsFiniteSet({"new", "saved", "applied", "dismissed"})
  BY <1>3, FS_AddElement
<1> QED BY <1>4 DEF SearchResultStatuses

(* Every row has one status, so the counts by status add up.               *)
LEMMA StatusesAddUp ==
  ASSUME NEW rows, Table(rows)
  PROVE  /\ [s \in SearchResultStatuses |-> Cardinality(WithStatus(rows, s))]
              \in [SearchResultStatuses -> Counts]
         /\ SumOver([s \in SearchResultStatuses |->
                       Cardinality(WithStatus(rows, s))]) = Cardinality(rows)
<1> DEFINE S == SearchResultStatuses
           f == [s \in S |-> Cardinality(WithStatus(rows, s))]
           part == [s \in S |-> WithStatus(rows, s)]
<1>1. \A s \in S : part[s] \in SUBSET rows /\ f[s] = Cardinality(part[s])
  BY DEF WithStatus
<1>2. \A s \in S : f[s] \in Counts /\ IsFiniteSet(part[s])
  BY <1>1, PartIsCounted
<1>3. \A s, t \in S : s # t => part[s] \cap part[t] = {}
  BY DEF WithStatus
<1>4. rows = UNION {part[s] : s \in S}
  <2>1. \A r \in rows : r.status \in S /\ r \in part[r.status]
    BY DEF WithStatus, Table, Rows
  <2> HIDE DEF part, S
  <2> QED BY <1>1, <2>1
<1>5. DOMAIN f = S /\ f \in [S -> Counts]
  BY <1>2
<1>6. IsFiniteSet(S)
  BY StatusesAreFinite
<1> HIDE DEF part, f, S
<1>7. SumOver(f) = Cardinality(rows)
  BY <1>1, <1>2, <1>3, <1>4, <1>5, <1>6, SizesAddUp
<1> QED BY <1>5, <1>7 DEF f, S

(* And so do the counts by search: what is shown is of a search there is.  *)
LEMMA SearchesAddUp ==
  ASSUME Table(results), searches \subseteq Search
  PROVE  LET f == [s \in Search |->
                     IF s \in searches THEN SearchTotal(s) ELSE 0]
         IN  /\ f \in [Search -> Counts]
             /\ SumOver(f) = Cardinality(VisibleIn(results, searches))
<1> DEFINE f == [s \in Search |->
                   IF s \in searches THEN SearchTotal(s) ELSE 0]
           part == [s \in Search |->
                      {r \in results : r.search = s /\ s \in searches}]
           rows == VisibleIn(results, searches)
<1>1. \A s \in Search : /\ part[s] \in SUBSET results
                        /\ f[s] = Cardinality(part[s])
  <2> SUFFICES ASSUME NEW s \in Search
               PROVE  f[s] = Cardinality(part[s])
    OBVIOUS
  <2>1. CASE s \in searches
    <3>1. part[s] = {r \in results : r.search = s}
      BY <2>1
    <3> QED BY <2>1, <3>1 DEF SearchTotal
  <2>2. CASE s \notin searches
    <3>1. part[s] = {}
      BY <2>2
    <3> HIDE DEF part
    <3> QED BY <2>2, <3>1, FS_EmptySet
  <2> QED BY <2>1, <2>2
<1>2. \A s \in Search : f[s] \in Counts /\ IsFiniteSet(part[s])
  <2> HIDE DEF f, part
  <2> QED BY <1>1, PartIsCounted
<1>3. \A s, t \in Search : s # t => part[s] \cap part[t] = {}
  OBVIOUS
<1>4. rows = UNION {part[s] : s \in Search}
  <2>1. \A r \in rows : r.search \in Search /\ r \in part[r.search]
    BY DEF VisibleIn
  <2>2. \A s \in Search : part[s] \subseteq rows
    BY DEF VisibleIn
  <2> HIDE DEF part, rows
  <2> QED BY <2>1, <2>2
<1>5. DOMAIN f = Search /\ f \in [Search -> Counts]
  <2>1. f = [s \in Search |-> f[s]]
    OBVIOUS
  <2> HIDE DEF f
  <2> QED BY <1>2, <2>1
<1>6. IsFiniteSet(Search)
  BY NumberAssumption
<1> HIDE DEF part, f, rows
<1>7. SumOver(f) = Cardinality(rows)
  BY <1>1, <1>2, <1>3, <1>4, <1>5, <1>6, SizesAddUp
<1> QED BY <1>5, <1>7 DEF f, rows

LEMMA StartSummaryStep ==
  ASSUME ListIInv, StartSummary
  PROVE  ListIInv'
<1> DEFINE rows == Visible(results)
           s == Totals(rows)
           strong == Strong(rows) \ WithStatus(rows, "dismissed")
           fresh == Strong(rows) \cap WithStatus(rows, "new")
           week == ThisWeek(rows)
           found == {r.search : r \in week}
           counts == [st \in SearchResultStatuses |->
                        Cardinality(WithStatus(rows, st))]
           none == [x \in Search |-> 0]
<1>1. /\ summary' = s /\ here' \subseteq here
      /\ UNCHANGED <<searches, results, walk, request>>
  BY DEF StartSummary
<1>2. rows \in SUBSET results /\ rows = VisibleIn(results, searches)
  BY DEF Visible, VisibleIn
<1> HIDE DEF rows
<1>3. Table(rows) /\ Cardinality(rows) \in Counts
  BY <1>2, PartIsCounted DEF ListIInv
<1>4. /\ Cardinality(strong) \in Counts /\ Cardinality(strong) \in Nat
      /\ IsFiniteSet(strong)
  BY <1>3, PartIsCounted DEF Strong
<1>5. Cardinality(fresh) \in Counts
  BY <1>3, PartIsCounted DEF Strong
<1>6. /\ Cardinality(week) \in Counts /\ Cardinality(week) \in Nat
      /\ IsFiniteSet(week)
  BY <1>3, PartIsCounted DEF ThisWeek
<1>7. fresh \in SUBSET strong
  BY DEF WithStatus
<1>8. Cardinality(fresh) <= Cardinality(strong)
  <2> HIDE DEF fresh, strong
  <2> QED BY <1>4, <1>7, FS_Subset
<1> HIDE DEF week, strong, fresh
<1>9. IsFiniteSet(found) /\ Cardinality(found) <= Cardinality(week)
  <2> DEFINE f == [r \in week |-> r.search]
  <2>1. found = {f[r] : r \in week} /\ DOMAIN f = week
    OBVIOUS
  <2> HIDE DEF f, found
  <2> QED BY <1>6, <2>1, ImageIsNoLarger
<1> HIDE DEF found
<1>10. Cardinality(ResultID) \in Nat
  BY NumberAssumption, FS_CardinalityType
<1>11. Cardinality(found) \in Counts
  <2>1. Cardinality(found) \in Nat
    BY <1>9, FS_CardinalityType
  <2> QED BY <1>6, <1>9, <1>10, <2>1 DEF Counts
<1>12. counts \in [SearchResultStatuses -> Counts]
       /\ SumOver(counts) = Cardinality(rows)
  BY <1>3, StatusesAddUp
<1>13. none \in [Search -> Counts]
  BY <1>10 DEF Counts
<1> HIDE DEF counts, none
<1>14. s = [at |-> "totals", total |-> Cardinality(rows),
            new |-> Cardinality(week), strong |-> Cardinality(strong),
            strong_new |-> Cardinality(fresh),
            week_searches |-> Cardinality(found),
            by_status |-> counts, by_search |-> none, still |-> TRUE]
  BY DEF Totals, week, strong, fresh, found, counts, none
<1> HIDE DEF s
<1>15. s \in Summaries
  BY <1>3, <1>4, <1>5, <1>6, <1>11, <1>12, <1>13, <1>14 DEF Summaries
<1>16. SummaryOK(s, results, searches)
  BY <1>2, <1>8, <1>9, <1>12, <1>14 DEF SummaryOK
<1> QED BY <1>1, <1>15, <1>16, SummaryMoves DEF SummaryStays

LEMMA CountBySearchStep ==
  ASSUME ListIInv, CountBySearch
  PROVE  ListIInv'
<1> DEFINE f == [s \in Search |->
                   IF s \in searches THEN SearchTotal(s) ELSE 0]
           s == [summary EXCEPT !.at = "answer", !.by_search = f]
<1>1. /\ summary' = s /\ summary.at = "totals" /\ here' = here
      /\ UNCHANGED <<searches, results, walk, request>>
  BY DEF CountBySearch, notSummary
<1>2. /\ f \in [Search -> Counts]
      /\ SumOver(f) = Cardinality(VisibleIn(results, searches))
  BY SearchesAddUp DEF ListIInv
<1> HIDE DEF f
<1>3. summary # NoSummary
  BY <1>1 DEF NoSummary
<1>4. summary \in Summaries /\ SummaryOK(summary, results, searches)
  BY <1>3 DEF ListIInv, SummaryStays
<1>5. /\ s.by_status = summary.by_status /\ s.total = summary.total
      /\ s.strong_new = summary.strong_new /\ s.strong = summary.strong
      /\ s.week_searches = summary.week_searches /\ s.new = summary.new
      /\ s.by_search = f /\ s.still = summary.still
      /\ s \in Summaries
  BY <1>2, <1>3, <1>4 DEF Summaries
<1> HIDE DEF s
<1>6. SummaryOK(s, results, searches)
  BY <1>2, <1>4, <1>5 DEF SummaryOK
<1> QED BY <1>1, <1>5, <1>6, SummaryMoves DEF SummaryStays

LEMMA EndSummaryStep ==
  ASSUME ListIInv, EndSummary
  PROVE  ListIInv'
<1>1. SummaryStays(NoSummary, results, searches)
  BY DEF SummaryStays, Summaries
<1> QED BY <1>1, SummaryMoves DEF EndSummary, notSummary

-----------------------------------------------------------------------------
(* The theorems.                                                           *)

LEMMA InitIsRight ==
  ASSUME Init
  PROVE  ListIInv
<1>1. Table(results)
  BY DEF Init, Table
<1>2. WalkStays(walk, results, searches)
  BY DEF Init, WalkStays, Walks
<1>3. SummaryStays(summary, results, searches)
  BY DEF Init, SummaryStays, Summaries
<1>4. RequestsStay(request, results)
  BY NoRequestIsOK DEF Init, RequestsStay
<1> QED BY <1>1, <1>2, <1>3, <1>4, ScenariosAssumption DEF ListIInv, Init

LEMMA NextIsRight ==
  ASSUME ListIInv, [Next]_vars
  PROVE  ListIInv'
<1>1. ASSUME NEW f \in Findable, AddResult(f)
      PROVE  ListIInv'
  BY <1>1, AddResultStep
<1>2. ASSUME NEW r \in results, NEW score \in Scores \cup {NULL},
             Evaluate(r, score)
      PROVE  ListIInv'
  BY <1>2, EvaluateStep
<1>15. ASSUME NEW r \in results, NEW status \in {"pending", "processing"},
              Queued(r, status)
       PROVE  ListIInv'
  BY <1>15, QueuedStep
<1>3. ASSUME NEW s \in Search, DeleteSearch(s)
      PROVE  ListIInv'
  BY <1>3, DeleteSearchStep
<1>4. ASSUME NEW p \in Asked, StartWalk(p)
      PROVE  ListIInv'
  BY <1>4, StartWalkStep
<1>5. CASE NextPage \/ CountTotal
  BY <1>5, NextPageStep, CountTotalStep
<1>6. CASE LoadCursor
  BY <1>6, LoadCursorStep
<1>7. CASE ListRows
  BY <1>7, ListRowsStep
<1>8. CASE EndWalk
  BY <1>8, EndWalkStep
<1>9. ASSUME NEW q \in Request,
             \/ ReadRow(q) \/ ReadEvaluation(q) \/ ReadScores(q)
             \/ Answer(q) \/ WriteStatus(q)
      PROVE  ListIInv'
  BY <1>9, ReadRowStep, ReadEvaluationStep, ReadScoresStep, AnswerStep,
     WriteStatusStep
<1>10. ASSUME NEW q \in Request,
              \/ \E i \in ResultID : Get(q, i)
              \/ \E t \in Triages : UpdateStatus(q, t.id, t.status)
       PROVE  ListIInv'
  BY <1>10, GetStep, UpdateStatusStep
<1>11. CASE StartSummary
  BY <1>11, StartSummaryStep
<1>12. CASE CountBySearch
  BY <1>12, CountBySearchStep
<1>13. CASE EndSummary
  BY <1>13, EndSummaryStep
<1>14. CASE UNCHANGED vars
  BY <1>14 DEF vars, ListIInv
<1> QED BY <1>1, <1>2, <1>3, <1>4, <1>5, <1>6, <1>7, <1>8, <1>9, <1>10,
           <1>11, <1>12, <1>13, <1>14, <1>15 DEF Next

LEMMA InvariantHolds == Spec => []ListIInv
<1>1. Init => ListIInv
  BY InitIsRight
<1>2. ListIInv /\ [Next]_vars => ListIInv'
  BY NextIsRight
<1> QED BY <1>1, <1>2, PTL DEF Spec

(* A walk lists every result that keeps its place once, leaves none of     *)
(* them out, and lists as many as it counted when nothing changes,         *)
(* whatever the worker and the user do between two pages                   *)
(* (results.go:296-365).                                                   *)
THEOREM WalksAreRight == Spec => []WalkInv
<1>1. ListIInv => WalkInv
  <2> HAVE ListIInv
  <2>1. TypeOK
    BY DEF ListIInv, Table, WalkStays, SummaryStays, RequestsStay, TypeOK
  <2>2. CASE walk = NoWalk
    BY <2>1, <2>2 DEF WalkInv, NothingListedTwice, NothingLeftOut,
                      TotalIsListed, Undisturbed
  <2>3. CASE walk # NoWalk
    <3>1. walk \in Begun /\ WalkOK(walk, results, searches)
      BY <2>3 DEF ListIInv, WalkStays, Walks, Begun
    <3>2. NothingListedTwice /\ NothingLeftOut
      BY <3>1 DEF NothingListedTwice, NothingLeftOut, Undisturbed, WalkOK,
                  Steady
    <3>3. TotalIsListed
      <4> SUFFICES ASSUME walk.at = "end", walk.still
                   PROVE  Cardinality(walk.listed) = walk.total
        BY DEF TotalIsListed
      <4> DEFINE rows == Listable(results, searches, walk.params)
      <4>1. /\ walk.listed = IDs(rows) /\ walk.total = Cardinality(rows)
        BY <3>1 DEF WalkOK, Steady
      <4>2. rows \in SUBSET results /\ Table(results)
        BY DEF ListIInv, Listable, VisibleIn
      <4> HIDE DEF rows
      <4>3. Table(rows)
        BY <4>2, PartIsCounted
      <4> QED BY <4>1, <4>3, IDsAreCounted DEF IDs
    <3> QED BY <2>1, <3>2, <3>3 DEF WalkInv
  <2> QED BY <2>2, <2>3
<1> QED BY <1>1, InvariantHolds, PTL

(* A detail shows the scores of its outcome or of a later one, and the     *)
(* counts of a summary add up to its total, of any results and searches    *)
(* (results.go:547-720).                                                   *)
THEOREM AnswersAreRight == Spec => []AnswersAgree
<1>1. ListIInv => AnswersAgree
  <2> HAVE ListIInv
  <2>1. ASSUME NEW q \in Request, request[q].at = "answer"
        PROVE  request[q].scores >= request[q].overall
    <3>1. request[q] \in Requests /\ DetailOK(request[q], results)
      BY DEF ListIInv, RequestsStay
    <3>2. request[q].scores \in Nat /\ request[q].overall \in Nat
      BY <2>1, <3>1, NumberAssumption DEF Requests, NoRequest, Outcomes
    <3> QED BY <2>1, <3>1, <3>2 DEF DetailOK
  <2>2. SummaryAddsUp
    <3>1. summary.at = "answer" => summary # NoSummary
      BY DEF NoSummary
    <3> QED BY <3>1 DEF ListIInv, SummaryStays, SummaryOK, SummaryAddsUp
  <2> QED BY <2>1, <2>2 DEF AnswersAgree, BreakdownIsNotOlder
<1> QED BY <1>1, InvariantHolds, PTL
=============================================================================
