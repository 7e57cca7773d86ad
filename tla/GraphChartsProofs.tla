--------------------------- MODULE GraphChartsProofs ---------------------------
(***************************************************************************)
(* Proofs about the charts, for every length of a bucket, every set of     *)
(* messages, any number of faults and requests.  The invariant has three   *)
(* parts: what the history holds, what the stored buckets are (each a      *)
(* function of a history that no longer changes there) and what every      *)
(* point shown, cached or on its way was joined from.  The sums and the    *)
(* fractions are folds over finite sets; their equations are proved here   *)
(* by induction on the set.                                                *)
(***************************************************************************)
EXTENDS GraphCharts, TLAPS, FiniteSetTheorems, SequenceTheorems, WellFoundedInduction

-----------------------------------------------------------------------------
\* What the history holds.
ObservationType == {None} \cup [at : Int, value : Int]
RiskType == {None} \cup [at : Nat, score : Int]
ItemType == [at : Nat, factory : ObservationType, infra : ObservationType, risk : RiskType]

HistoryOK ==
  /\ now \in Nat
  /\ latest \in [factory : ObservationType, infra : ObservationType, risk : RiskType]
  /\ IsFiniteSet(history) /\ history \subseteq ItemType
  /\ \A i \in history : i.at <= now /\ (i.risk # None => i.risk.at <= i.at)
  /\ \A i, j \in history : i.at = j.at => i = j
  /\ \A i, j \in history :
       i.risk # None /\ j.risk # None /\ i.risk.at = j.risk.at => i.risk = j.risk
  /\ latest.risk # None => \E i \in history : i.risk = latest.risk

\* A stored bucket is what its part of the history gives, whenever it is read.
IsBucket(b) == \E k \in Int : b = k * BucketTicks

GraphOK ==
  /\ IsFiniteSet(graph)
  /\ \A g \in graph :
       /\ IsBucket(g.start) /\ g.start <= ClosedBucket(now)
       /\ g = AggregateGraphItem(history, g.start)

\* What a point was joined from: at most as many buckets as the window joins,
\* with values that are in range and reach to every risk of its buckets.
Covered(p) == {g \in graph : p.timestamp <= g.start /\ g.start <= p.end}

InRange(p) ==
  \A m \in Metrics : p.values[m] # None =>
    LET v == p.values[m]
    IN v.mean.den > 0 /\ v.min * v.mean.den <= v.mean.num /\ v.mean.num <= v.max * v.mean.den

Reaches(p) ==
  \A g \in Covered(p) : \A i \in QueryHistory(history, g.start) :
    g.count > 0 /\ i.risk # None
      => p.values["risk"].min <= i.risk.score /\ i.risk.score <= p.values["risk"].max

PointOK(p) ==
  /\ \E g \in graph : p.timestamp = g.start
  /\ \E g \in graph : p.end = BucketEnd(g.start)
  /\ p.timestamp <= p.end
  /\ Cardinality(Covered(p)) <= joined
  /\ InRange(p)
  /\ Reaches(p)

Disjoint(points) ==
  \A p, q \in points : p = q \/ p.end < q.timestamp \/ q.end < p.timestamp

Gapless(points) ==
  \A g \in graph, p, q \in points :
    p.timestamp < g.start /\ g.start < q.timestamp => g.start \in Timestamps(points)

PointsOK(points) ==
  /\ \A p \in points : PointOK(p)
  /\ Disjoint(points)
  /\ joined = 1 => Gapless(points)

RequestOK(r) ==
  /\ DOMAIN r = {"base", "since", "current", "answer"}
  /\ PointsOK(r.answer)
  /\ r.since # NoSince => PointsOK(r.base \cup r.answer)

PageOK ==
  /\ joined \in {1, 2, 4}
  /\ PointsOK(chart) /\ PointsOK(cache)
  /\ requests \in Seq(ToSet(requests))
  /\ \A k \in DOMAIN requests : RequestOK(requests[k])

IInv == HistoryOK /\ GraphOK /\ PageOK

-----------------------------------------------------------------------------
(***************************************************************************)
(* Induction, in the form the provers can use: over sets of numbers and of *)
(* sets.                                                                   *)
(***************************************************************************)
LEMMA Induction ==
  ASSUME NEW S, 0 \in S, \A n \in Nat : n \in S => n + 1 \in S
  PROVE  Nat \subseteq S
<1> DEFINE R == OpToRel(<, Nat)
           T == Nat \ S
<1> SUFFICES ASSUME T # {} PROVE FALSE  OBVIOUS
<1>1. PICK n \in T : \A m \in T : ~ (<<m, n>> \in R)
  <2>1. IsWellFoundedOn(R, Nat)  BY NatLessThanWellFounded
  <2>2. T \subseteq Nat /\ T # {}  OBVIOUS
  <2> HIDE DEF R, T
  <2> QED BY <2>1, <2>2, WFMin
<1>2. \A m \in T : ~ (m < n)  BY <1>1 DEF OpToRel
<1>3. n # 0 /\ n - 1 \in Nat  OBVIOUS
<1>4. n - 1 \in S  BY <1>2, <1>3
<1> QED BY <1>3, <1>4

LEMMA FiniteInduction ==
  ASSUME NEW S, IsFiniteSet(S), NEW P, {} \in P,
         \A T \in SUBSET S : T # {} /\ (\A x \in T : T \ {x} \in P) => T \in P
  PROVE  \A T \in SUBSET S : T \in P
<1> DEFINE R == StrictSubsetOrdering(S)
           F == FiniteSubsetsOf(S)
           D == (SUBSET S) \ P
<1> SUFFICES ASSUME D # {} PROVE FALSE  OBVIOUS
<1>1. IsWellFoundedOn(R, F)  BY FS_StrictSubsetOrderingWellFounded
<1>2. D \subseteq F  BY FS_Subset DEF FiniteSubsetsOf
<1>3. PICK B \in D : \A C \in D : ~ (<<C, B>> \in R)
  <2> HIDE DEF R, F, D
  <2> QED BY <1>1, <1>2, WFMin
<1>4. \A x \in B : ~ (B \ {x} \in D)
  <2> SUFFICES ASSUME NEW x \in B, B \ {x} \in D PROVE FALSE  OBVIOUS
  <2>1. <<B \ {x}, B>> \in StrictSubsetOrdering(S)  BY DEF StrictSubsetOrdering
  <2> QED BY <1>3, <2>1
<1> QED BY <1>4

\* A finite set of numbers has a least and a greatest one.
LEMMA LeastAndGreatest ==
  ASSUME NEW S, IsFiniteSet(S), S \subseteq Int, S # {}
  PROVE  /\ Min(S) \in S /\ \A y \in S : Min(S) <= y
         /\ Max(S) \in S /\ \A y \in S : y <= Max(S)
<1> DEFINE Bounded(T) == /\ \E x \in T : \A y \in T : x <= y
                         /\ \E x \in T : \A y \in T : y <= x
           P == {T \in SUBSET S : T = {} \/ Bounded(T)}
<1>1. {} \in P  OBVIOUS
<1>2. \A T \in SUBSET S : T # {} /\ (\A x \in T : T \ {x} \in P) => T \in P
  <2> SUFFICES ASSUME NEW T \in SUBSET S, T # {}, \A x \in T : T \ {x} \in P
               PROVE  Bounded(T)
    OBVIOUS
  <2>1. PICK x \in T : TRUE  OBVIOUS
  <2>2. CASE T \ {x} = {}
    <3>1. \A y \in T : y = x  BY <2>2
    <3>2. x \in Int  OBVIOUS
    <3> QED BY <2>1, <3>1, <3>2
  <2>3. CASE T \ {x} # {}
    <3>1. Bounded(T \ {x})  BY <2>1, <2>3
    <3>2. PICK a \in T \ {x} : \A y \in T \ {x} : a <= y  BY <3>1
    <3>3. PICK b \in T \ {x} : \A y \in T \ {x} : y <= b  BY <3>1
    <3>4. x \in Int /\ a \in Int /\ b \in Int /\ T \subseteq Int  OBVIOUS
    <3>5. \E c \in T : \A y \in T : c <= y
      <4>1. CASE a <= x  BY <4>1, <3>2
      <4>2. CASE x <= a  BY <4>2, <3>2, <3>4
      <4> QED BY <3>4, <4>1, <4>2
    <3>6. \E c \in T : \A y \in T : y <= c
      <4>1. CASE x <= b  BY <4>1, <3>3
      <4>2. CASE b <= x  BY <4>2, <3>3, <3>4
      <4> QED BY <3>4, <4>1, <4>2
    <3> QED BY <3>5, <3>6
  <2> QED BY <2>2, <2>3
<1>3. S \in P
  <2> HIDE DEF P
  <2> QED BY <1>1, <1>2, FiniteInduction
<1> QED BY <1>3 DEF Min, Max

-----------------------------------------------------------------------------
(***************************************************************************)
(* Folds.  A fold takes one element after the other from a finite set; its *)
(* equation has a solution, which the definition of the fold chooses.      *)
(***************************************************************************)
Pick(s) == CHOOSE x \in s : TRUE

Removes(rest, S) == \A s \in SUBSET S : s # {} => \E x \in s : rest[s] = s \ {x}

Folds(f, S, V, base, rest, step) ==
  /\ f \in [SUBSET S -> V]
  /\ \A s \in SUBSET S : f[s] = IF s = {} THEN base ELSE step[<<s, f[rest[s]]>>]

LEMMA FoldExists ==
  ASSUME NEW S, IsFiniteSet(S), NEW V, NEW base, base \in V, NEW rest, Removes(rest, S),
         NEW step, step \in [(SUBSET S) \X V -> V]
  PROVE  \E f : Folds(f, S, V, base, rest, step)
<1> DEFINE Small(n) == {s \in SUBSET S : Cardinality(s) <= n}
           Eq(f, s) == f[s] = IF s = {} THEN base ELSE step[<<s, f[rest[s]]>>]
           P == {n \in Nat : \E f \in [Small(n) -> V] : \A s \in Small(n) : Eq(f, s)}
<1>0. \A s \in SUBSET S : IsFiniteSet(s) /\ Cardinality(s) \in Nat
  BY FS_Subset, FS_CardinalityType
<1>1. 0 \in P
  <2>1. Small(0) = {{}}
    BY <1>0, FS_EmptySet
  <2>2. \A s \in Small(0) : Eq([s1 \in Small(0) |-> base], s)
    BY <2>1
  <2> QED BY <2>2
<1>2. \A n \in Nat : n \in P => n + 1 \in P
  <2> SUFFICES ASSUME NEW n \in Nat, n \in P PROVE n + 1 \in P  OBVIOUS
  <2>1. PICK f \in [Small(n) -> V] : \A s \in Small(n) : Eq(f, s)  OBVIOUS
  <2> DEFINE g == [s \in Small(n + 1) |-> IF s = {} THEN base ELSE step[<<s, f[rest[s]]>>]]
  <2>2. \A s \in Small(n + 1) : s # {} => rest[s] \in Small(n)
    <3> SUFFICES ASSUME NEW s \in Small(n + 1), s # {} PROVE rest[s] \in Small(n)  OBVIOUS
    <3>1. PICK x \in s : rest[s] = s \ {x}  BY DEF Removes
    <3>2. Cardinality(rest[s]) = Cardinality(s) - 1  BY <1>0, <3>1, FS_RemoveElement
    <3> QED BY <1>0, <3>1, <3>2
  <2>3. g \in [Small(n + 1) -> V]
    BY <2>2
  <2>4. \A s \in Small(n) : s \in Small(n + 1)
    BY <1>0
  <2>5. \A s \in Small(n) : g[s] = f[s]
    BY <2>1, <2>4
  <2>6. \A s \in Small(n + 1) : Eq(g, s)
    <3> SUFFICES ASSUME NEW s \in Small(n + 1) PROVE Eq(g, s)  OBVIOUS
    <3>1. g[s] = IF s = {} THEN base ELSE step[<<s, f[rest[s]]>>]  OBVIOUS
    <3>2. s # {} => g[rest[s]] = f[rest[s]]  BY <2>2, <2>5
    <3> HIDE DEF g
    <3> QED BY <3>1, <3>2
  <2>7. \E h \in [Small(n + 1) -> V] : \A s \in Small(n + 1) : Eq(h, s)
    <3> HIDE DEF g, Eq, Small
    <3> QED BY <2>3, <2>6
  <2> HIDE DEF Eq, Small
  <2> QED BY <2>7
<1>3. Cardinality(S) \in P
  <2> HIDE DEF P
  <2> QED BY <1>0, <1>1, <1>2, Induction
<1>4. Small(Cardinality(S)) = SUBSET S
  BY <1>0, FS_Subset
<1> QED BY <1>3, <1>4 DEF Folds

\* The sum of the values of a function, and of those of a part of its domain.
SumTable(sum, S, c) ==
  /\ sum \in [SUBSET S -> Int]
  /\ Sum(c) = sum[S]
  /\ sum[{}] = 0
  /\ \A s \in SUBSET S : s # {} => sum[s] = c[Pick(s)] + sum[s \ {Pick(s)}]

LEMMA SumUnfolds ==
  ASSUME NEW S, IsFiniteSet(S), NEW c, DOMAIN c = S, \A x \in S : c[x] \in Int
  PROVE  \E sum : SumTable(sum, S, c)
<1> DEFINE rest == [s \in SUBSET S |-> s \ {Pick(s)}]
           step == [p \in (SUBSET S) \X Int |-> IF p[1] = {} THEN 0 ELSE c[Pick(p[1])] + p[2]]
           Body(i) == [s \in SUBSET S |-> IF s = {} THEN 0 ELSE c[Pick(s)] + i[s \ {Pick(s)}]]
           iter == CHOOSE i : i = Body(i)
<1>1. \A s \in SUBSET S : s # {} => Pick(s) \in s
  BY DEF Pick
<1>2. step \in [(SUBSET S) \X Int -> Int]
  BY <1>1
<1>3. Removes(rest, S)
  BY <1>1 DEF Removes
<1>4. PICK f : Folds(f, S, Int, 0, rest, step)
  <2>1. 0 \in Int  OBVIOUS
  <2> HIDE DEF step, rest
  <2> QED BY <1>2, <1>3, <2>1, FoldExists
<1>5. \A s \in SUBSET S : f[s] = IF s = {} THEN 0 ELSE c[Pick(s)] + f[s \ {Pick(s)}]
  <2> SUFFICES ASSUME NEW s \in SUBSET S, s # {}
               PROVE  f[s] = c[Pick(s)] + f[s \ {Pick(s)}]
    BY <1>4 DEF Folds
  <2>1. rest[s] = s \ {Pick(s)} /\ rest[s] \in SUBSET S  OBVIOUS
  <2>2. <<s, f[rest[s]]>> \in (SUBSET S) \X Int  BY <1>4, <2>1 DEF Folds
  <2>3. f[s] = step[<<s, f[rest[s]]>>]  BY <1>4 DEF Folds
  <2>4. step[<<s, f[rest[s]]>>] = c[Pick(s)] + f[rest[s]]  BY <2>2
  <2> QED BY <2>1, <2>3, <2>4
<1>6. f = Body(f)
  BY <1>4, <1>5 DEF Folds
<1>7. iter = Body(iter)
  BY <1>6
<1>8. Sum(c) = iter[S]
  BY DEF Sum, FoldFunction, FoldFunctionOnSet, MapThenFoldSet, Pick
<1>9. /\ iter = [s \in SUBSET S |-> iter[s]]
      /\ \A s \in SUBSET S : iter[s] = IF s = {} THEN 0 ELSE c[Pick(s)] + iter[s \ {Pick(s)}]
  <2> HIDE DEF iter
  <2> QED BY <1>7
<1> HIDE DEF iter
<1>10. \A s \in SUBSET S : iter[s] \in Int
  <2> DEFINE P == {s \in SUBSET S : iter[s] \in Int}
  <2>1. iter[{}] = 0  BY <1>9
  <2>2. {} \in P  BY <2>1
  <2>3. \A T \in SUBSET S : T # {} /\ (\A x \in T : T \ {x} \in P) => T \in P
    <3> SUFFICES ASSUME NEW T \in SUBSET S, T # {}, \A x \in T : T \ {x} \in P
                 PROVE  iter[T] \in Int
      OBVIOUS
    <3>1. iter[T] = c[Pick(T)] + iter[T \ {Pick(T)}]  BY <1>9
    <3>2. Pick(T) \in T /\ c[Pick(T)] \in Int  BY <1>1
    <3>3. iter[T \ {Pick(T)}] \in Int  BY <3>2
    <3> QED BY <3>1, <3>2, <3>3
  <2>4. \A T \in SUBSET S : T \in P
    <3> HIDE DEF P
    <3> QED BY <2>2, <2>3, FiniteInduction
  <2> QED BY <2>4
<1>11. iter \in [SUBSET S -> Int]  BY <1>9, <1>10
<1>12. iter[{}] = 0 /\ \A s \in SUBSET S : s # {} => iter[s] = c[Pick(s)] + iter[s \ {Pick(s)}]
  BY <1>9
<1> QED BY <1>8, <1>11, <1>12 DEF SumTable

LEMMA SumOfNaturals ==
  ASSUME NEW S, IsFiniteSet(S), NEW c, DOMAIN c = S, \A x \in S : c[x] \in Nat
  PROVE  Sum(c) \in Nat /\ \A x \in S : c[x] <= Sum(c)
<1>0. PICK sum : SumTable(sum, S, c)
  BY SumUnfolds
<1>1. /\ sum \in [SUBSET S -> Int]
      /\ Sum(c) = sum[S]
      /\ sum[{}] = 0
      /\ \A s \in SUBSET S : s # {} => sum[s] = c[Pick(s)] + sum[s \ {Pick(s)}]
  BY <1>0 DEF SumTable
<1> DEFINE P == {s \in SUBSET S : sum[s] \in Nat /\ \A x \in s : c[x] <= sum[s]}
<1>2. {} \in P  BY <1>1
<1>3. \A T \in SUBSET S : T # {} /\ (\A x \in T : T \ {x} \in P) => T \in P
  <2> SUFFICES ASSUME NEW T \in SUBSET S, T # {}, \A x \in T : T \ {x} \in P
               PROVE  sum[T] \in Nat /\ \A x \in T : c[x] <= sum[T]
    OBVIOUS
  <2> DEFINE y == Pick(T)
  <2>1. y \in T  BY DEF Pick
  <2>2. T \ {y} \in P  BY <2>1
  <2>3. sum[T] = c[y] + sum[T \ {y}]  BY <1>1
  <2> HIDE DEF y
  <2>4. c[y] \in Nat /\ sum[T \ {y}] \in Nat  BY <2>1, <2>2
  <2>5. \A x \in T \ {y} : c[x] <= sum[T \ {y}]  BY <2>2
  <2>6. \A x \in T : c[x] \in Nat  OBVIOUS
  <2> HIDE DEF P
  <2>7. \A x \in T : c[x] <= sum[T]
    <3> SUFFICES ASSUME NEW x \in T PROVE c[x] <= sum[T]  OBVIOUS
    <3>1. CASE x = y  BY <3>1, <2>3, <2>4
    <3>2. CASE x # y
      <4>1. c[x] <= sum[T \ {y}]  BY <3>2, <2>5
      <4> QED BY <4>1, <2>3, <2>4, <2>6
    <3> QED BY <3>1, <3>2
  <2>8. sum[T] \in Nat  BY <2>3, <2>4
  <2> QED BY <2>7, <2>8
<1>4. S \in P
  <2> HIDE DEF P
  <2>1. \A T \in SUBSET S : T \in P  BY <1>2, <1>3, FiniteInduction
  <2> QED BY <2>1
<1> QED BY <1>1, <1>4

\* Values between two bounds have their sum between so many times these.
LEMMA SumBetween ==
  ASSUME NEW S, IsFiniteSet(S), NEW c, DOMAIN c = S, NEW lo \in Int, NEW hi \in Int,
         \A x \in S : c[x] \in Int /\ lo <= c[x] /\ c[x] <= hi
  PROVE  /\ Sum(c) \in Int
         /\ lo * Cardinality(S) <= Sum(c) /\ Sum(c) <= hi * Cardinality(S)
<1>0. PICK sum : SumTable(sum, S, c)
  BY SumUnfolds
<1>1. /\ sum \in [SUBSET S -> Int]
      /\ Sum(c) = sum[S]
      /\ sum[{}] = 0
      /\ \A s \in SUBSET S : s # {} => sum[s] = c[Pick(s)] + sum[s \ {Pick(s)}]
  BY <1>0 DEF SumTable
<1> DEFINE P == {s \in SUBSET S : lo * Cardinality(s) <= sum[s] /\ sum[s] <= hi * Cardinality(s)}
<1>2. {} \in P  BY <1>1, FS_EmptySet
<1>3. \A T \in SUBSET S : T # {} /\ (\A x \in T : T \ {x} \in P) => T \in P
  <2> SUFFICES ASSUME NEW T \in SUBSET S, T # {}, \A x \in T : T \ {x} \in P
               PROVE  lo * Cardinality(T) <= sum[T] /\ sum[T] <= hi * Cardinality(T)
    OBVIOUS
  <2> DEFINE y == Pick(T)
             n == Cardinality(T \ {y})
             r == sum[T \ {y}]
  <2>1. y \in T  BY DEF Pick
  <2>2. T \ {y} \in P  BY <2>1
  <2>3. sum[T] = c[y] + r  BY <1>1
  <2>4. IsFiniteSet(T) /\ IsFiniteSet(T \ {y}) /\ n \in Nat  BY FS_Subset, FS_CardinalityType
  <2>5. Cardinality(T) = n + 1
    <3>1. Cardinality(T \ {y}) = Cardinality(T) - 1  BY <2>1, <2>4, FS_RemoveElement
    <3>2. Cardinality(T) \in Nat  BY <2>4, FS_CardinalityType
    <3> QED BY <3>1, <3>2
  <2>6. c[y] \in Int /\ lo <= c[y] /\ c[y] <= hi /\ r \in Int  BY <1>1, <2>1
  <2>7. lo * n <= r /\ r <= hi * n  BY <2>2
  <2>8. lo * (n + 1) = lo * n + lo /\ hi * (n + 1) = hi * n + hi  BY <2>4
  <2>9. lo * n \in Int /\ hi * n \in Int  BY <2>4
  <2> HIDE DEF n, r, y
  <2>10. lo * (n + 1) <= c[y] + r /\ c[y] + r <= hi * (n + 1)
    BY <2>6, <2>7, <2>8, <2>9
  <2> QED BY <2>3, <2>5, <2>10
<1>4. S \in P
  <2> HIDE DEF P
  <2>1. \A T \in SUBSET S : T \in P  BY <1>2, <1>3, FiniteInduction
  <2> QED BY <2>1
<1> QED BY <1>1, <1>4

\* Numbers that each count a part of a set, in disjoint parts, count at most the set.
LEMMA SumOfParts ==
  ASSUME NEW S, IsFiniteSet(S), NEW c, DOMAIN c = S, NEW A,
         \A x \in S : c[x] \in Nat /\ IsFiniteSet(A[x]) /\ c[x] <= Cardinality(A[x]),
         \A x, y \in S : x # y => A[x] \cap A[y] = {},
         NEW U, IsFiniteSet(U), \A x \in S : A[x] \subseteq U
  PROVE  Sum(c) <= Cardinality(U)
<1>0. PICK sum : SumTable(sum, S, c)
  BY SumUnfolds
<1>1. /\ sum \in [SUBSET S -> Int]
      /\ Sum(c) = sum[S]
      /\ sum[{}] = 0
      /\ \A s \in SUBSET S : s # {} => sum[s] = c[Pick(s)] + sum[s \ {Pick(s)}]
  BY <1>0 DEF SumTable
<1> DEFINE Part(s) == UNION {A[x] : x \in s}
<1>a. \A s \in SUBSET S : IsFiniteSet(Part(s)) /\ Cardinality(Part(s)) \in Nat
  <2> SUFFICES ASSUME NEW s \in SUBSET S
               PROVE  IsFiniteSet(Part(s)) /\ Cardinality(Part(s)) \in Nat
    OBVIOUS
  <2>1. Part(s) \in SUBSET U  OBVIOUS
  <2> HIDE DEF Part
  <2> QED BY <2>1, FS_Subset, FS_CardinalityType
<1> DEFINE P == {s \in SUBSET S : sum[s] <= Cardinality(Part(s))}
<1>2. {} \in P
  <2>1. Part({}) = {}  OBVIOUS
  <2> HIDE DEF Part
  <2>2. Cardinality(Part({})) = 0  BY <2>1, FS_EmptySet
  <2>3. sum[{}] = 0  BY <1>1
  <2> QED BY <2>2, <2>3
<1>3. \A T \in SUBSET S : T # {} /\ (\A x \in T : T \ {x} \in P) => T \in P
  <2> SUFFICES ASSUME NEW T \in SUBSET S, T # {}, \A x \in T : T \ {x} \in P
               PROVE  sum[T] <= Cardinality(Part(T))
    OBVIOUS
  <2> DEFINE y == Pick(T)
             R == T \ {y}
  <2>1. y \in T  BY DEF Pick
  <2>2. sum[R] <= Cardinality(Part(R))  BY <2>1
  <2>3. sum[T] = c[y] + sum[R]  BY <1>1
  <2>4. Part(T) = Part(R) \cup A[y] /\ Part(R) \cap A[y] = {}
    <3> HIDE DEF y
    <3> QED BY <2>1
  <2>5. IsFiniteSet(Part(R)) /\ IsFiniteSet(A[y]) /\ c[y] <= Cardinality(A[y]) /\ c[y] \in Nat
    BY <1>a, <2>1
  <2>6. sum[R] \in Int  BY <1>1
  <2> HIDE DEF y, R, Part, P
  <2>7. Cardinality(Part(T)) = Cardinality(Part(R)) + Cardinality(A[y]) - Cardinality({})
    BY <2>4, <2>5, FS_Union
  <2>8. Cardinality(Part(R)) \in Nat /\ Cardinality(A[y]) \in Nat
    BY <2>5, FS_CardinalityType
  <2> QED BY <2>2, <2>3, <2>5, <2>6, <2>7, <2>8, FS_EmptySet
<1>4. S \in P
  <2> HIDE DEF P
  <2>1. \A T \in SUBSET S : T \in P  BY <1>2, <1>3, FiniteInduction
  <2> QED BY <2>1
<1>5. Sum(c) <= Cardinality(Part(S)) /\ Sum(c) \in Int
  BY <1>1, <1>4
<1>6. Part(S) \in SUBSET U  OBVIOUS
<1> HIDE DEF Part, P
<1>7. Cardinality(Part(S)) <= Cardinality(U) /\ Cardinality(Part(S)) \in Nat /\ Cardinality(U) \in Nat
  BY <1>a, <1>6, FS_Subset, FS_CardinalityType
<1> QED BY <1>5, <1>7

\* The sum of fractions.
Fractions == [num : Int, den : Nat \ {0}]

FractionTable(sum, S, f) ==
  /\ sum \in [SUBSET S -> Fractions]
  /\ SumFractions(f) = sum[S]
  /\ sum[{}] = Zero
  /\ \A s \in SUBSET S : s # {} => sum[s] = Plus(f[Pick(s)], sum[s \ {Pick(s)}])

LEMMA PlusType ==
  ASSUME NEW p \in Fractions, NEW q \in Fractions
  PROVE  Plus(p, q) \in Fractions
<1>1. p.num \in Int /\ q.num \in Int /\ p.den \in Nat \ {0} /\ q.den \in Nat \ {0}
  BY DEF Fractions
<1>2. p.num * q.den + q.num * p.den \in Int  BY <1>1
<1>3. p.den * q.den \in Nat \ {0}  BY <1>1
<1> QED BY <1>2, <1>3 DEF Plus, Fractions

LEMMA SumFractionsUnfolds ==
  ASSUME NEW S, IsFiniteSet(S), NEW f, DOMAIN f = S, \A x \in S : f[x] \in Fractions
  PROVE  \E sum : FractionTable(sum, S, f)
<1> DEFINE rest == [s \in SUBSET S |-> s \ {Pick(s)}]
           step == [p \in (SUBSET S) \X Fractions |->
                      IF p[1] = {} THEN Zero ELSE Plus(f[Pick(p[1])], p[2])]
           Body(i) == [s \in SUBSET S |->
                         IF s = {} THEN Zero ELSE Plus(f[Pick(s)], i[s \ {Pick(s)}])]
           iter == CHOOSE i : i = Body(i)
<1>0. Zero \in Fractions
  BY DEF Zero, Fractions
<1>1. \A s \in SUBSET S : s # {} => Pick(s) \in s
  BY DEF Pick
<1>2. step \in [(SUBSET S) \X Fractions -> Fractions]
  BY <1>0, <1>1, PlusType
<1>3. Removes(rest, S)
  BY <1>1 DEF Removes
<1>4. PICK g : Folds(g, S, Fractions, Zero, rest, step)
  <2> HIDE DEF step, rest
  <2> QED BY <1>0, <1>2, <1>3, FoldExists
<1>5. \A s \in SUBSET S : g[s] = IF s = {} THEN Zero ELSE Plus(f[Pick(s)], g[s \ {Pick(s)}])
  <2> SUFFICES ASSUME NEW s \in SUBSET S, s # {}
               PROVE  g[s] = Plus(f[Pick(s)], g[s \ {Pick(s)}])
    BY <1>4 DEF Folds
  <2>1. rest[s] = s \ {Pick(s)} /\ rest[s] \in SUBSET S  OBVIOUS
  <2>2. <<s, g[rest[s]]>> \in (SUBSET S) \X Fractions  BY <1>4, <2>1 DEF Folds
  <2>3. g[s] = step[<<s, g[rest[s]]>>]  BY <1>4 DEF Folds
  <2>4. step[<<s, g[rest[s]]>>] = Plus(f[Pick(s)], g[rest[s]])  BY <2>2
  <2> QED BY <2>1, <2>3, <2>4
<1>6. g = Body(g)
  BY <1>4, <1>5 DEF Folds
<1>7. iter = Body(iter)
  BY <1>6
<1>8. SumFractions(f) = iter[S]
  BY DEF SumFractions, FoldFunction, FoldFunctionOnSet, MapThenFoldSet, Pick
<1>9. /\ iter = [s \in SUBSET S |-> iter[s]]
      /\ \A s \in SUBSET S :
           iter[s] = IF s = {} THEN Zero ELSE Plus(f[Pick(s)], iter[s \ {Pick(s)}])
  <2> HIDE DEF iter
  <2> QED BY <1>7
<1> HIDE DEF iter
<1>10. \A s \in SUBSET S : iter[s] \in Fractions
  <2> DEFINE P == {s \in SUBSET S : iter[s] \in Fractions}
  <2>1. iter[{}] = Zero  BY <1>9
  <2>2. {} \in P  BY <1>0, <2>1
  <2>3. \A T \in SUBSET S : T # {} /\ (\A x \in T : T \ {x} \in P) => T \in P
    <3> SUFFICES ASSUME NEW T \in SUBSET S, T # {}, \A x \in T : T \ {x} \in P
                 PROVE  iter[T] \in Fractions
      OBVIOUS
    <3>1. iter[T] = Plus(f[Pick(T)], iter[T \ {Pick(T)}])  BY <1>9
    <3>2. Pick(T) \in T /\ f[Pick(T)] \in Fractions  BY <1>1
    <3>3. iter[T \ {Pick(T)}] \in Fractions  BY <3>2
    <3> QED BY <3>1, <3>2, <3>3, PlusType
  <2>4. \A T \in SUBSET S : T \in P
    <3> HIDE DEF P
    <3> QED BY <2>2, <2>3, FiniteInduction
  <2> QED BY <2>4
<1>11. iter \in [SUBSET S -> Fractions]  BY <1>9, <1>10
<1>12. /\ iter[{}] = Zero
       /\ \A s \in SUBSET S : s # {} => iter[s] = Plus(f[Pick(s)], iter[s \ {Pick(s)}])
  BY <1>9
<1> QED BY <1>8, <1>11, <1>12 DEF FractionTable

LEMMA TimesMonotone ==
  ASSUME NEW a \in Int, NEW b \in Int, NEW k \in Nat, a <= b
  PROVE  k * a <= k * b
OBVIOUS

\* One more fraction n/d with weight c, in range of c times lo, on top of N/D with W.
LEMMA WeightedStepAbove ==
  ASSUME NEW lo \in Int, NEW W \in Nat, NEW D \in Nat, NEW N \in Int,
         NEW n \in Int, NEW d \in Nat, NEW c \in Nat,
         lo * (D * W) <= N, lo * (d * c) <= n
  PROVE  lo * ((d * D) * (c + W)) <= n * D + N * d
<1>1. D * (lo * (d * c)) <= D * n  BY TimesMonotone
<1>2. d * (lo * (D * W)) <= d * N  BY TimesMonotone
<1> QED BY <1>1, <1>2

LEMMA WeightedStepBelow ==
  ASSUME NEW hi \in Int, NEW W \in Nat, NEW D \in Nat, NEW N \in Int,
         NEW n \in Int, NEW d \in Nat, NEW c \in Nat,
         N <= hi * (D * W), n <= hi * (d * c)
  PROVE  n * D + N * d <= hi * ((d * D) * (c + W))
<1>1. D * n <= D * (hi * (d * c))  BY TimesMonotone
<1>2. d * N <= d * (hi * (D * W))  BY TimesMonotone
<1> QED BY <1>1, <1>2

\* Fractions that are weights times averages in a range have a sum that is all
\* the weight times an average in that range.
LEMMA WeightedSum ==
  ASSUME NEW S, IsFiniteSet(S), NEW f, DOMAIN f = S, \A x \in S : f[x] \in Fractions,
         NEW w, DOMAIN w = S, \A x \in S : w[x] \in Nat,
         NEW lo \in Int, NEW hi \in Int,
         \A x \in S : /\ lo * (f[x].den * w[x]) <= f[x].num
                      /\ f[x].num <= hi * (f[x].den * w[x])
  PROVE  LET F == SumFractions(f)
         IN  /\ F \in Fractions
             /\ lo * (F.den * Sum(w)) <= F.num /\ F.num <= hi * (F.den * Sum(w))
<1>0. PICK sum : FractionTable(sum, S, f)
  BY SumFractionsUnfolds
<1>1. /\ sum \in [SUBSET S -> Fractions]
      /\ SumFractions(f) = sum[S]
      /\ sum[{}] = Zero
      /\ \A s \in SUBSET S : s # {} => sum[s] = Plus(f[Pick(s)], sum[s \ {Pick(s)}])
  BY <1>0 DEF FractionTable
<1>2. \A x \in S : w[x] \in Int  OBVIOUS
<1>3. PICK all : SumTable(all, S, w)
  BY <1>2, SumUnfolds
<1>4. /\ all \in [SUBSET S -> Int]
      /\ Sum(w) = all[S]
      /\ all[{}] = 0
      /\ \A s \in SUBSET S : s # {} => all[s] = w[Pick(s)] + all[s \ {Pick(s)}]
  BY <1>3 DEF SumTable
<1> DEFINE Good(s) == /\ all[s] \in Nat
                      /\ lo * (sum[s].den * all[s]) <= sum[s].num
                      /\ sum[s].num <= hi * (sum[s].den * all[s])
           P == {s \in SUBSET S : Good(s)}
<1>5. {} \in P  BY <1>1, <1>4 DEF Zero
<1>6. \A T \in SUBSET S : T # {} /\ (\A x \in T : T \ {x} \in P) => T \in P
  <2> SUFFICES ASSUME NEW T \in SUBSET S, T # {}, \A x \in T : T \ {x} \in P
               PROVE  Good(T)
    OBVIOUS
  <2> DEFINE y == Pick(T)
             R == T \ {y}
  <2>1. y \in T  BY DEF Pick
  <2>2. Good(R) /\ R \in SUBSET S  BY <2>1
  <2>3. sum[T] = Plus(f[y], sum[R]) /\ all[T] = w[y] + all[R]  BY <1>1, <1>4
  <2>4. sum[R] \in Fractions /\ f[y] \in Fractions /\ w[y] \in Nat  BY <1>1, <2>1, <2>2
  <2>5. lo * (f[y].den * w[y]) <= f[y].num /\ f[y].num <= hi * (f[y].den * w[y])  BY <2>1
  <2> HIDE DEF y, R
  <2>6. /\ sum[R].den \in Nat /\ sum[R].num \in Int
        /\ f[y].den \in Nat /\ f[y].num \in Int /\ all[R] \in Nat
    BY <2>2, <2>4 DEF Fractions
  <2>7. lo * ((f[y].den * sum[R].den) * (w[y] + all[R]))
          <= f[y].num * sum[R].den + sum[R].num * f[y].den
    BY <2>2, <2>4, <2>5, <2>6, WeightedStepAbove
  <2>8. f[y].num * sum[R].den + sum[R].num * f[y].den
          <= hi * ((f[y].den * sum[R].den) * (w[y] + all[R]))
    BY <2>2, <2>4, <2>5, <2>6, WeightedStepBelow
  <2>9. /\ sum[T].den = f[y].den * sum[R].den
        /\ sum[T].num = f[y].num * sum[R].den + sum[R].num * f[y].den
    BY <2>3 DEF Plus
  <2>10. all[T] \in Nat  BY <2>3, <2>4, <2>6
  <2> QED BY <2>3, <2>7, <2>8, <2>9, <2>10
<1>7. S \in P
  <2> HIDE DEF P
  <2>1. \A T \in SUBSET S : T \in P  BY <1>5, <1>6, FiniteInduction
  <2> QED BY <2>1
<1> QED BY <1>1, <1>4, <1>7

-----------------------------------------------------------------------------
(***************************************************************************)
(* Buckets, readings and their summaries.                                  *)
(***************************************************************************)
LEMMA Multiples ==
  ASSUME NEW k \in Int, NEW l \in Int, k * BucketTicks < l * BucketTicks
  PROVE  k * BucketTicks + BucketTicks <= l * BucketTicks
<1>1. k < l  BY BucketAssumption
<1>2. BucketTicks * (k + 1) <= BucketTicks * l  BY <1>1, BucketAssumption, TimesMonotone
<1> QED BY <1>2, BucketAssumption

LEMMA BucketsApart ==
  ASSUME NEW a, IsBucket(a), NEW b, IsBucket(b), a < b
  PROVE  BucketEnd(a) < b
<1>1. PICK k \in Int : a = k * BucketTicks  BY DEF IsBucket
<1>2. PICK l \in Int : b = l * BucketTicks  BY DEF IsBucket
<1>3. a + BucketTicks <= b  BY <1>1, <1>2, Multiples
<1>4. a \in Int /\ b \in Int  BY <1>1, <1>2, BucketAssumption
<1> QED BY <1>3, <1>4, BucketAssumption DEF BucketEnd

LEMMA BucketType ==
  ASSUME NEW a, IsBucket(a)
  PROVE  a \in Int /\ BucketEnd(a) \in Int /\ a <= BucketEnd(a)
BY BucketAssumption DEF IsBucket, BucketEnd

LEMMA FloorFacts ==
  ASSUME NEW t \in Int
  PROVE  /\ FloorToBucket(t) \in Int
         /\ FloorToBucket(t) <= t /\ t < FloorToBucket(t) + BucketTicks
BY BucketAssumption DEF FloorToBucket

LEMMA ClosedBucketFacts ==
  ASSUME NEW t \in Int
  PROVE  /\ IsBucket(ClosedBucket(t)) /\ BucketEnd(ClosedBucket(t)) < t
         /\ \A u \in Int : t <= u => ClosedBucket(t) <= ClosedBucket(u)
<1>1. IsBucket(ClosedBucket(t))
  <2>1. t \div BucketTicks - 1 \in Int  BY BucketAssumption
  <2>2. ClosedBucket(t) = (t \div BucketTicks - 1) * BucketTicks
    BY BucketAssumption DEF ClosedBucket, FloorToBucket
  <2> QED BY <2>1, <2>2 DEF IsBucket
<1>2. BucketEnd(ClosedBucket(t)) < t
  BY FloorFacts, BucketAssumption DEF BucketEnd, ClosedBucket
<1>3. ASSUME NEW u \in Int, t <= u, ClosedBucket(u) < ClosedBucket(t) PROVE FALSE
  <2>0. t \div BucketTicks \in Int /\ u \div BucketTicks \in Int  BY BucketAssumption
  <2>1. PICK a \in Int : FloorToBucket(u) = a * BucketTicks  BY <2>0 DEF FloorToBucket
  <2>2. PICK b \in Int : FloorToBucket(t) = b * BucketTicks  BY <2>0 DEF FloorToBucket
  <2>3. FloorToBucket(u) < FloorToBucket(t)
    BY <1>3, FloorFacts, BucketAssumption DEF ClosedBucket
  <2>4. FloorToBucket(u) + BucketTicks <= FloorToBucket(t)  BY <2>1, <2>2, <2>3, Multiples
  <2> QED BY <1>3, <2>4, FloorFacts, BucketAssumption
<1>4. \A u \in Int : ClosedBucket(u) \in Int
  BY FloorFacts, BucketAssumption DEF ClosedBucket
<1> QED BY <1>1, <1>2, <1>3, <1>4

\* The image of a finite set is finite and has at most as many elements.
LEMMA ImageFinite ==
  ASSUME NEW T, IsFiniteSet(T), NEW f, DOMAIN f = T
  PROVE  /\ IsFiniteSet({f[x] : x \in T})
         /\ Cardinality({f[x] : x \in T}) <= Cardinality(T)
<1> DEFINE U == {f[x] : x \in T}
           h == [x \in T |-> f[x]]
<1>1. h \in Surjection(T, U)  BY DEF Surjection
<1> HIDE DEF U, h
<1>2. IsFiniteSet(U) /\ Cardinality(U) <= Cardinality(T)  BY <1>1, FS_Surjection
<1> QED BY <1>2 DEF U

ReadingType == [at : Int, value : Int, item : Nat]

\* Every time that is read has one reading that is added.
LEMMA OnceFacts ==
  ASSUME NEW R, IsFiniteSet(R), R \subseteq ReadingType
  PROVE  /\ Once(R) \subseteq R /\ IsFiniteSet(Once(R))
         /\ \A r \in R : \E q \in Once(R) : q.at = r.at
         /\ \A q, r \in Once(R) : q.at = r.at => q.item = r.item
<1>1. Once(R) \in SUBSET R  BY DEF Once
<1>2. IsFiniteSet(Once(R))  BY <1>1, FS_Subset
<1>3. ASSUME NEW r \in R PROVE \E q \in Once(R) : q.at = r.at
  <2> DEFINE Same == {q \in R : q.at = r.at}
             f == [q \in Same |-> q.item]
             Items == {f[q] : q \in Same}
  <2>1. IsFiniteSet(Same)
    <3>1. Same \in SUBSET R  OBVIOUS
    <3> QED BY <3>1, FS_Subset
  <2>2. IsFiniteSet(Items)
    <3> DOMAIN f = Same  OBVIOUS
    <3> HIDE DEF f, Same
    <3> QED BY <2>1, ImageFinite
  <2>3. Items \subseteq Int /\ Items # {}
    BY DEF ReadingType
  <2>4. PICK n \in Items : \A m \in Items : n <= m
    <3> HIDE DEF Items
    <3> QED BY <2>2, <2>3, LeastAndGreatest
  <2>5. PICK q \in Same : q.item = n  OBVIOUS
  <2>6. \A p \in R : p.at = q.at => q.item <= p.item
    <3> SUFFICES ASSUME NEW p \in R, p.at = q.at PROVE q.item <= p.item  OBVIOUS
    <3>1. p \in Same  OBVIOUS
    <3>2. p.item \in Items  BY <3>1
    <3> QED BY <3>2, <2>4, <2>5
  <2>7. \A p \in R : p.item \in Nat  BY DEF ReadingType
  <2>8. q \in R /\ q.at = r.at  OBVIOUS
  <2>9. q \in Once(R)
    <3> HIDE DEF Same, Items
    <3> QED BY <2>6, <2>7, <2>8 DEF Once
  <2> QED BY <2>8, <2>9
<1>4. ASSUME NEW q \in Once(R), NEW r \in Once(R), q.at = r.at PROVE q.item = r.item
  <2>1. ~ (q.item < r.item) /\ ~ (r.item < q.item)  BY <1>1, <1>4 DEF Once
  <2>2. q.item \in Nat /\ r.item \in Nat  BY <1>1 DEF ReadingType
  <2> QED BY <2>1, <2>2
<1> QED BY <1>1, <1>2, <1>3, <1>4

\* What a summary, or the values of a point, may be: the mean is in range.
Ranged(v) ==
  /\ v.min \in Int /\ v.max \in Int /\ v.mean \in Fractions
  /\ v.min * v.mean.den <= v.mean.num /\ v.mean.num <= v.max * v.mean.den

LEMMA SummaryFacts ==
  ASSUME NEW R, IsFiniteSet(R), R \subseteq ReadingType, R # {}
  PROVE  /\ Summary(R) # None
         /\ Summary(R).count = Cardinality(R)
         /\ Ranged(Summary(R))
         /\ \A r \in R : Summary(R).min <= r.value /\ r.value <= Summary(R).max
<1> DEFINE f == [r \in R |-> r.value]
           V == Values(R)
           s == Summary(R)
           n == Cardinality(R)
<1>1. s = [count |-> n, min |-> Min(V), max |-> Max(V), mean |-> [num |-> Sum(f), den |-> n]]
  BY DEF Summary
<1>2. s # None  BY <1>1 DEF None
<1>3. /\ s.count = n /\ s.min = Min(V) /\ s.max = Max(V)
      /\ s.mean = [num |-> Sum(f), den |-> n]
  BY <1>1
<1>4. n \in Nat \ {0}
  BY FS_CardinalityType, FS_EmptySet
<1>5. V = {f[r] : r \in R} /\ DOMAIN f = R
  BY DEF Values
<1>6. IsFiniteSet(V) /\ V \subseteq Int /\ V # {}
  <2>1. V \subseteq Int /\ V # {}  BY DEF Values, ReadingType
  <2> HIDE DEF V, f
  <2> QED BY <1>5, <2>1, ImageFinite
<1>7. /\ Min(V) \in Int /\ \A v \in V : Min(V) <= v
      /\ Max(V) \in Int /\ \A v \in V : v <= Max(V)
  <2> HIDE DEF V
  <2> QED BY <1>6, LeastAndGreatest
<1>8. \A r \in R : f[r] = r.value /\ f[r] \in V /\ f[r] \in Int
  BY <1>5 DEF ReadingType
<1>9. Sum(f) \in Int /\ Min(V) * n <= Sum(f) /\ Sum(f) <= Max(V) * n
  <2>1. \A r \in R : f[r] \in Int /\ Min(V) <= f[r] /\ f[r] <= Max(V)  BY <1>7, <1>8
  <2> HIDE DEF f, V
  <2> QED BY <1>5, <1>7, <2>1, SumBetween
<1>10. Ranged(s)
  <2> HIDE DEF s, f, V, n
  <2>1. s.mean \in Fractions /\ s.mean.num = Sum(f) /\ s.mean.den = n
    BY <1>3, <1>4, <1>9 DEF Fractions
  <2> QED BY <1>3, <1>7, <1>9, <2>1 DEF Ranged
<1>11. \A r \in R : s.min <= r.value /\ r.value <= s.max
  BY <1>3, <1>7, <1>8
<1> QED BY <1>2, <1>3, <1>10, <1>11

-----------------------------------------------------------------------------
(***************************************************************************)
(* A stored bucket, of a history that is what HistoryOK says.              *)
(***************************************************************************)
LEMMA HistoryItems ==
  ASSUME HistoryOK, NEW i \in history
  PROVE  /\ i.at \in Nat /\ i.at <= now
         /\ i.factory # None => i.factory.at \in Int /\ i.factory.value \in Int
         /\ i.infra # None => i.infra.at \in Int /\ i.infra.value \in Int
         /\ i.risk # None => i.risk.at \in Nat /\ i.risk.score \in Int
         /\ FactoryAt(i) \in Int /\ InfraAt(i) \in Int
<1>1. i \in ItemType /\ i.at <= now  BY DEF HistoryOK
<1>2. i.at \in Nat /\ i.factory \in ObservationType /\ i.infra \in ObservationType /\ i.risk \in RiskType
  BY <1>1 DEF ItemType
<1>3. i.factory # None => i.factory.at \in Int /\ i.factory.value \in Int
  BY <1>2 DEF ObservationType
<1>4. i.infra # None => i.infra.at \in Int /\ i.infra.value \in Int
  BY <1>2 DEF ObservationType
<1>5. i.risk # None => i.risk.at \in Nat /\ i.risk.score \in Int
  BY <1>2 DEF RiskType
<1> QED BY <1>1, <1>2, <1>3, <1>4, <1>5 DEF FactoryAt, InfraAt

LEMMA QueryFinite ==
  ASSUME HistoryOK, NEW b
  PROVE  QueryHistory(history, b) \subseteq history /\ IsFiniteSet(QueryHistory(history, b))
<1>1. QueryHistory(history, b) \in SUBSET history  BY DEF QueryHistory
<1> QED BY <1>1, FS_Subset DEF HistoryOK

LEMMA FactoryReadingFacts ==
  ASSUME HistoryOK, NEW b
  PROVE  LET R == FactoryReadings(QueryHistory(history, b), b)
         IN  IsFiniteSet(R) /\ R \subseteq ReadingType
<1> DEFINE J == {j \in QueryHistory(history, b) : j.factory # None /\ TimestampInBucket(FactoryAt(j), b)}
           f == [i \in J |-> Reading(FactoryAt(i), i.factory.value, i)]
<1>1. J \in SUBSET QueryHistory(history, b)  OBVIOUS
<1>2. IsFiniteSet(J)
  <2> HIDE DEF J
  <2> QED BY <1>1, QueryFinite, FS_Subset
<1>3. FactoryReadings(QueryHistory(history, b), b) = {f[i] : i \in J} /\ DOMAIN f = J
  BY DEF FactoryReadings
<1>4. IsFiniteSet({f[i] : i \in J})
  <2> HIDE DEF f, J
  <2> QED BY <1>2, <1>3, ImageFinite
<1>5. \A i \in J : f[i] \in ReadingType
  BY QueryFinite, HistoryItems DEF Reading, ReadingType
<1> QED BY <1>3, <1>4, <1>5

LEMMA InfraReadingFacts ==
  ASSUME HistoryOK, NEW b
  PROVE  LET R == InfraReadings(QueryHistory(history, b), b)
         IN  IsFiniteSet(R) /\ R \subseteq ReadingType
<1> DEFINE J == {j \in QueryHistory(history, b) : j.infra # None /\ TimestampInBucket(InfraAt(j), b)}
           f == [i \in J |-> Reading(InfraAt(i), i.infra.value, i)]
<1>1. J \in SUBSET QueryHistory(history, b)  OBVIOUS
<1>2. IsFiniteSet(J)
  <2> HIDE DEF J
  <2> QED BY <1>1, QueryFinite, FS_Subset
<1>3. InfraReadings(QueryHistory(history, b), b) = {f[i] : i \in J} /\ DOMAIN f = J
  BY DEF InfraReadings
<1>4. IsFiniteSet({f[i] : i \in J})
  <2> HIDE DEF f, J
  <2> QED BY <1>2, <1>3, ImageFinite
<1>5. \A i \in J : f[i] \in ReadingType
  BY QueryFinite, HistoryItems DEF Reading, ReadingType
<1> QED BY <1>3, <1>4, <1>5

LEMMA RiskReadingFacts ==
  ASSUME HistoryOK, NEW b
  PROVE  LET R == RiskReadings(QueryHistory(history, b))
         IN  /\ IsFiniteSet(R) /\ R \subseteq ReadingType
             /\ \A i \in QueryHistory(history, b) : i.risk # None =>
                  \E r \in Once(R) : r.value = i.risk.score
<1> DEFINE J == {j \in QueryHistory(history, b) : j.risk # None}
           f == [i \in J |-> Reading(i.risk.at, i.risk.score, i)]
           R == RiskReadings(QueryHistory(history, b))
<1>1. J \in SUBSET QueryHistory(history, b)  OBVIOUS
<1>2. IsFiniteSet(J)
  <2> HIDE DEF J
  <2> QED BY <1>1, QueryFinite, FS_Subset
<1>3. R = {f[i] : i \in J} /\ DOMAIN f = J
  BY DEF RiskReadings
<1>4. IsFiniteSet(R)
  <2>1. IsFiniteSet({f[i] : i \in J})
    <3> HIDE DEF f, J, R
    <3> QED BY <1>2, <1>3, ImageFinite
  <2> QED BY <1>3, <2>1
<1>5. \A i \in J : f[i] \in ReadingType
  <2> SUFFICES ASSUME NEW i \in J PROVE f[i] \in ReadingType  OBVIOUS
  <2>1. i.risk.at \in Int /\ i.risk.score \in Int /\ i.at \in Nat
    BY QueryFinite, HistoryItems
  <2>2. f[i] = Reading(i.risk.at, i.risk.score, i)  OBVIOUS
  <2> HIDE DEF f, J, R
  <2> QED BY <2>1, <2>2 DEF Reading, ReadingType
<1>6. R \subseteq ReadingType  BY <1>3, <1>5
<1>7. ASSUME NEW i \in QueryHistory(history, b), i.risk # None
      PROVE  \E r \in Once(R) : r.value = i.risk.score
  <2>1. i \in J  BY <1>7
  <2>2. f[i] = Reading(i.risk.at, i.risk.score, i) /\ f[i] \in R  BY <1>3, <2>1
  <2>3. PICK r \in Once(R) : r.at = f[i].at
    <3> HIDE DEF R, f, J
    <3> QED BY <1>4, <1>6, <2>2, OnceFacts
  <2>4. r \in R
    <3> HIDE DEF R, f, J
    <3> QED BY <1>4, <1>6, OnceFacts
  <2>5. PICK j \in J : r = Reading(j.risk.at, j.risk.score, j)
    BY <1>3, <2>4
  <2>6. j.risk.at = i.risk.at  BY <2>2, <2>3, <2>5 DEF Reading
  <2>7. j \in history /\ i \in history /\ j.risk # None  BY QueryFinite
  <2>8. j.risk = i.risk
    <3> HIDE DEF R, f, J
    <3> QED BY <1>7, <2>6, <2>7 DEF HistoryOK
  <2> QED BY <2>5, <2>8 DEF Reading
<1> QED BY <1>4, <1>6, <1>7

SummaryOK(s) == s # None => s.count \in Nat \ {0} /\ Ranged(s)

LEMMA OnceSummary ==
  ASSUME NEW R, IsFiniteSet(R), R \subseteq ReadingType
  PROVE  /\ SummaryOK(Summary(Once(R)))
         /\ Summary(Once(R)) # None => R # {} /\ Summary(Once(R)).count = Cardinality(Once(R))
         /\ \A r \in Once(R) : /\ Summary(Once(R)) # None
                               /\ Summary(Once(R)).min <= r.value
                               /\ r.value <= Summary(Once(R)).max
<1>1. Once(R) \subseteq R /\ IsFiniteSet(Once(R)) /\ Once(R) \subseteq ReadingType
  BY OnceFacts
<1>2. CASE Once(R) = {}
  <2>1. Summary(Once(R)) = None  BY <1>2 DEF Summary
  <2> QED BY <1>2, <2>1 DEF SummaryOK
<1>3. CASE Once(R) # {}
  <2>1. Cardinality(Once(R)) \in Nat \ {0}  BY <1>1, <1>3, FS_CardinalityType, FS_EmptySet
  <2>2. R # {}  BY <1>1, <1>3
  <2> QED BY <1>1, <1>3, <2>1, <2>2, SummaryFacts DEF SummaryOK
<1> QED BY <1>2, <1>3

\* What is in an item of the graph: a metric with a value has observations.
ItemOK(g) ==
  /\ g.count \in Nat
  /\ SummaryOK(g.sensor) /\ SummaryOK(g.infra) /\ SummaryOK(g.risk)
  /\ g.sensor # None \/ g.infra # None => g.count > 0
  /\ \A i \in QueryHistory(history, g.start) : i.risk # None =>
       g.risk # None /\ g.risk.min <= i.risk.score /\ i.risk.score <= g.risk.max

LEMMA ItemFacts ==
  ASSUME HistoryOK, NEW b, NEW g, g = AggregateGraphItem(history, b)
  PROVE  g.start = b /\ ItemOK(g)
<1> DEFINE items == QueryHistory(history, b)
           F == FactoryReadings(items, b)
           I == InfraReadings(items, b)
           R == RiskReadings(items)
           C == {i \in items : \/ TimestampInBucket(FactoryAt(i), b)
                               \/ TimestampInBucket(InfraAt(i), b)}
<1>1. /\ g.start = b /\ g.count = Cardinality(C)
      /\ g.sensor = Summary(Once(F)) /\ g.infra = Summary(Once(I)) /\ g.risk = Summary(Once(R))
  BY DEF AggregateGraphItem, ObservationCount
<1>2. IsFiniteSet(F) /\ F \subseteq ReadingType /\ IsFiniteSet(I) /\ I \subseteq ReadingType
  BY FactoryReadingFacts, InfraReadingFacts
<1>3. IsFiniteSet(R) /\ R \subseteq ReadingType
  BY RiskReadingFacts
<1>4. \A i \in items : i.risk # None => \E r \in Once(R) : r.value = i.risk.score
  BY RiskReadingFacts
<1>5. IsFiniteSet(C) /\ g.count \in Nat /\ (C # {} => g.count > 0)
  <2>1. C \in SUBSET items  OBVIOUS
  <2>2. IsFiniteSet(items)  BY QueryFinite
  <2> HIDE DEF C, items
  <2>3. IsFiniteSet(C)  BY <2>1, <2>2, FS_Subset
  <2> QED BY <1>1, <2>3, FS_CardinalityType, FS_EmptySet
<1>6. F # {} \/ I # {} => C # {}
  BY DEF FactoryReadings, InfraReadings
<1>7. SummaryOK(g.sensor) /\ SummaryOK(g.infra) /\ SummaryOK(g.risk)
  <2> HIDE DEF F, I, R, C
  <2> QED BY <1>1, <1>2, <1>3, OnceSummary
<1>8. g.sensor # None \/ g.infra # None => g.count > 0
  <2> HIDE DEF F, I, R, C
  <2> QED BY <1>1, <1>2, <1>5, <1>6, OnceSummary
<1>9. \A i \in items : i.risk # None =>
        g.risk # None /\ g.risk.min <= i.risk.score /\ i.risk.score <= g.risk.max
  <2> HIDE DEF F, I, R, C, items
  <2> QED BY <1>1, <1>3, <1>4, OnceSummary
<1> QED BY <1>1, <1>5, <1>7, <1>8, <1>9 DEF ItemOK

-----------------------------------------------------------------------------
(***************************************************************************)
(* Points: of one bucket, and merged from some.                            *)
(***************************************************************************)
PointValues(p) ==
  /\ p.count \in Nat
  /\ \A m \in Metrics : p.values[m] # None => p.count > 0 /\ Ranged(p.values[m])

\* The values of a metric reach to those of a point it was merged from.
Reaching(p, q, m) ==
  q.values[m] # None =>
    p.values[m] # None /\ p.values[m].min <= q.values[m].min /\ q.values[m].max <= p.values[m].max

LEMMA ExtractFacts ==
  ASSUME NEW g, ItemOK(g)
  PROVE  LET p == Extract(g)
         IN  /\ p.timestamp = g.start /\ p.end = BucketEnd(g.start) /\ PointValues(p)
             /\ \A i \in QueryHistory(history, g.start) : g.count > 0 /\ i.risk # None =>
                  /\ p.values["risk"] # None
                  /\ p.values["risk"].min <= i.risk.score
                  /\ i.risk.score <= p.values["risk"].max
<1> DEFINE p == Extract(g)
           Shown(s) == [min |-> s.min, max |-> s.max, mean |-> s.mean]
<1>1. p.timestamp = g.start /\ p.end = BucketEnd(g.start) /\ p.count = g.count
  BY DEF Extract
<1>2. /\ p.values["sensor"] = IF g.sensor = None THEN None ELSE Shown(g.sensor)
      /\ p.values["infra"] = IF g.infra = None THEN None ELSE Shown(g.infra)
      /\ p.values["risk"] = IF g.risk = None \/ g.count = 0 THEN None ELSE Shown(g.risk)
  BY DEF Extract, Metrics
<1>3. \A s : SummaryOK(s) /\ s # None => Shown(s) # None /\ Ranged(Shown(s))
  BY DEF SummaryOK, Ranged, None
<1>4. /\ g.count \in Nat /\ SummaryOK(g.sensor) /\ SummaryOK(g.infra) /\ SummaryOK(g.risk)
      /\ g.sensor # None \/ g.infra # None => g.count > 0
  BY DEF ItemOK
<1> HIDE DEF p
<1>5. PointValues(p)
  <2>1. p.values["sensor"] # None => p.count > 0 /\ Ranged(p.values["sensor"])
    BY <1>1, <1>2, <1>3, <1>4
  <2>2. p.values["infra"] # None => p.count > 0 /\ Ranged(p.values["infra"])
    BY <1>1, <1>2, <1>3, <1>4
  <2>3. p.values["risk"] # None => p.count > 0 /\ Ranged(p.values["risk"])
    BY <1>1, <1>2, <1>3, <1>4
  <2> QED BY <1>1, <1>4, <2>1, <2>2, <2>3 DEF PointValues, Metrics
<1>6. ASSUME NEW i \in QueryHistory(history, g.start), g.count > 0, i.risk # None
      PROVE  /\ p.values["risk"] # None
             /\ p.values["risk"].min <= i.risk.score
             /\ i.risk.score <= p.values["risk"].max
  <2>1. g.risk # None /\ g.risk.min <= i.risk.score /\ i.risk.score <= g.risk.max
    BY <1>6 DEF ItemOK
  <2>2. p.values["risk"] = Shown(g.risk)  BY <1>2, <1>4, <1>6, <2>1
  <2> QED BY <1>3, <1>4, <2>1, <2>2
<1> QED BY <1>1, <1>5, <1>6 DEF p

LEMMA ScaledBelow ==
  ASSUME NEW lo \in Int, NEW a \in Int, NEW n \in Int, NEW d \in Nat, NEW c \in Nat,
         lo <= a, a * d <= n
  PROVE  lo * (d * c) <= n * c
<1>1. d * lo <= d * a  BY TimesMonotone
<1>2. d * lo <= n  BY <1>1
<1>3. c * (d * lo) <= c * n  BY <1>2, TimesMonotone
<1> QED BY <1>3

LEMMA ScaledAbove ==
  ASSUME NEW hi \in Int, NEW a \in Int, NEW n \in Int, NEW d \in Nat, NEW c \in Nat,
         a <= hi, n <= a * d
  PROVE  n * c <= hi * (d * c)
<1>1. d * a <= d * hi  BY TimesMonotone
<1>2. n <= d * hi  BY <1>1
<1>3. c * n <= c * (d * hi)  BY <1>2, TimesMonotone
<1> QED BY <1>3

LEMMA AverageFacts ==
  ASSUME NEW L \in Nat, NEW group, DOMAIN group = 1..L, NEW m \in Metrics,
         \A k \in 1..L : PointValues(group[k]),
         NEW lo \in Int, NEW hi \in Int,
         \A p \in Known(group, m) : lo <= p.values[m].min /\ p.values[m].max <= hi,
         Known(group, m) # {}
  PROVE  LET a == WeightedAverage(group, m)
         IN  a \in Fractions /\ lo * a.den <= a.num /\ a.num <= hi * a.den
<1> DEFINE S == 1..L
           f == [k \in S |-> Weighted(group[k], m)]
           w == [k \in S |-> Weight(group[k], m)]
           F == SumFractions(f)
           W == Sum(w)
<1>1. WeightedAverage(group, m) = [num |-> F.num, den |-> F.den * W]
  BY DEF WeightedAverage
<1>2. IsFiniteSet(S) /\ DOMAIN f = S /\ DOMAIN w = S
  BY FS_Interval
<1>3. \A k \in S : group[k].values[m] # None => group[k] \in Known(group, m)
  BY DEF Known, ToSet
<1>4. \A k \in S : w[k] \in Nat
  BY DEF Weight, PointValues
<1>5. ASSUME NEW k \in S
      PROVE  /\ f[k] \in Fractions
             /\ lo * (f[k].den * w[k]) <= f[k].num /\ f[k].num <= hi * (f[k].den * w[k])
  <2>1. CASE w[k] = 0
    <3>1. f[k] = Zero  BY <2>1 DEF Weighted
    <3>2. f[k].num = 0 /\ f[k].den = 1 /\ f[k] \in Fractions  BY <3>1 DEF Zero, Fractions
    <3>3. lo * (1 * 0) = 0 /\ hi * (1 * 0) = 0  OBVIOUS
    <3> QED BY <2>1, <3>2, <3>3
  <2>2. CASE w[k] # 0
    <3> DEFINE v == group[k].values[m]
               c == group[k].count
    <3>1. v # None /\ w[k] = c /\ c \in Nat  BY <2>2, <1>4 DEF Weight, PointValues
    <3>2. f[k] = [num |-> v.mean.num * c, den |-> v.mean.den]  BY <2>2 DEF Weighted
    <3>3. /\ v.min \in Int /\ v.max \in Int /\ v.mean \in Fractions
          /\ v.min * v.mean.den <= v.mean.num /\ v.mean.num <= v.max * v.mean.den
      BY <3>1 DEF PointValues, Ranged
    <3>4. lo <= v.min /\ v.max <= hi  BY <1>3, <3>1
    <3> HIDE DEF v, c
    <3>5. v.mean.num \in Int /\ v.mean.den \in Nat \ {0}  BY <3>3 DEF Fractions
    <3>8. lo * (v.mean.den * c) <= v.mean.num * c /\ v.mean.num * c <= hi * (v.mean.den * c)
      BY <3>1, <3>3, <3>4, <3>5, ScaledBelow, ScaledAbove
    <3>9. f[k].num = v.mean.num * c /\ f[k].den = v.mean.den /\ f[k] \in Fractions
      BY <3>1, <3>2, <3>5 DEF Fractions
    <3> HIDE DEF f, w
    <3> QED BY <3>1, <3>8, <3>9
  <2> QED BY <2>1, <2>2
<1>6. F \in Fractions /\ lo * (F.den * W) <= F.num /\ F.num <= hi * (F.den * W)
  <2> HIDE DEF S, f, w
  <2> QED BY <1>2, <1>4, <1>5, WeightedSum
<1>7. W \in Nat /\ W > 0
  <2>1. PICK k \in S : group[k].values[m] # None  BY DEF Known, ToSet
  <2>2. w[k] > 0  BY <2>1 DEF Weight, PointValues
  <2> HIDE DEF S, w
  <2>3. W \in Nat /\ w[k] <= W  BY <1>2, <1>4, SumOfNaturals
  <2> QED BY <1>4, <2>2, <2>3
<1> HIDE DEF F, W
<1>8. F.den \in Nat \ {0} /\ F.num \in Int  BY <1>6 DEF Fractions
<1>9. F.den * W \in Nat \ {0}  BY <1>7, <1>8
<1>10. [num |-> F.num, den |-> F.den * W] \in Fractions  BY <1>8, <1>9 DEF Fractions
<1> QED BY <1>1, <1>6, <1>10

LEMMA MergedFacts ==
  ASSUME NEW T, NEW group \in Seq(T), Len(group) > 0,
         \A k \in 1..Len(group) : PointValues(group[k])
  PROVE  LET p == Merged(group)
         IN  /\ p.timestamp = group[1].timestamp /\ p.end = group[Len(group)].end
             /\ PointValues(p)
             /\ \A k \in 1..Len(group), m \in Metrics : Reaching(p, group[k], m)
<1> DEFINE p == Merged(group)
           L == Len(group)
           K(m) == Known(group, m)
           Least(m) == {q.values[m].min : q \in K(m)}
           Most(m) == {q.values[m].max : q \in K(m)}
<1>1. L \in Nat /\ L > 0 /\ DOMAIN group = 1..L
  OBVIOUS
<1>2. /\ p.timestamp = group[1].timestamp /\ p.end = group[L].end /\ p.count = Count(group)
      /\ \A m \in Metrics : p.values[m] =
           IF K(m) = {} THEN None
           ELSE [min |-> Min(Least(m)), max |-> Max(Most(m)), mean |-> WeightedAverage(group, m)]
  BY DEF Merged, Last
<1>3. \A m : \A q \in K(m) : \E k \in 1..L : q = group[k] /\ q.values[m] # None
  BY DEF Known, ToSet
<1>4. \A m : \A k \in 1..L : group[k].values[m] # None => group[k] \in K(m)
  BY DEF Known, ToSet
<1>5. /\ Count(group) \in Nat
      /\ \A k \in 1..L : group[k].count <= Count(group) /\ group[k].count \in Nat
  <2> DEFINE c == [k \in 1..L |-> group[k].count]
  <2>1. Count(group) = Sum(c)  BY DEF Count
  <2>2. \A k \in 1..L : c[k] = group[k].count /\ c[k] \in Nat  BY DEF PointValues
  <2>3. IsFiniteSet(1..L) /\ DOMAIN c = 1..L  BY <1>1, FS_Interval
  <2> HIDE DEF c
  <2>4. Sum(c) \in Nat /\ \A k \in 1..L : c[k] <= Sum(c)  BY <2>2, <2>3, SumOfNaturals
  <2> QED BY <2>1, <2>2, <2>4
<1>6. ASSUME NEW m \in Metrics, K(m) # {}
      PROVE  /\ \A q \in K(m) : Min(Least(m)) <= q.values[m].min /\ q.values[m].max <= Max(Most(m))
             /\ p.values[m] # None /\ Ranged(p.values[m]) /\ p.count > 0
  <2>1. \A q \in K(m) : q.values[m].min \in Int /\ q.values[m].max \in Int /\ q.count > 0
    BY <1>3 DEF PointValues, Ranged
  <2>2. IsFiniteSet(K(m))
    <3> DEFINE h == [k \in 1..L |-> group[k]]
    <3>1. IsFiniteSet(1..L) /\ DOMAIN h = 1..L  BY <1>1, FS_Interval
    <3>2. IsFiniteSet({h[k] : k \in 1..L})
      <4> HIDE DEF h
      <4> QED BY <3>1, ImageFinite
    <3>3. K(m) \in SUBSET {h[k] : k \in 1..L}  BY <1>3
    <3> QED BY <3>2, <3>3, FS_Subset
  <2>3. IsFiniteSet(Least(m)) /\ IsFiniteSet(Most(m))
    <3> DEFINE a == [q \in K(m) |-> q.values[m].min]
               b == [q \in K(m) |-> q.values[m].max]
    <3>1. DOMAIN a = K(m) /\ DOMAIN b = K(m)  OBVIOUS
    <3>2. Least(m) = {a[q] : q \in K(m)} /\ Most(m) = {b[q] : q \in K(m)}  OBVIOUS
    <3> HIDE DEF a, b, K, Least, Most
    <3> QED BY <2>2, <3>1, <3>2, ImageFinite
  <2>4. Least(m) \subseteq Int /\ Most(m) \subseteq Int /\ Least(m) # {} /\ Most(m) # {}
    BY <1>6, <2>1
  <2>5. /\ Min(Least(m)) \in Int /\ \A x \in Least(m) : Min(Least(m)) <= x
        /\ Max(Most(m)) \in Int /\ \A x \in Most(m) : x <= Max(Most(m))
    <3> HIDE DEF Least, Most
    <3> QED BY <2>3, <2>4, LeastAndGreatest
  <2>6. \A q \in K(m) : Min(Least(m)) <= q.values[m].min /\ q.values[m].max <= Max(Most(m))
    <3> SUFFICES ASSUME NEW q \in K(m)
                 PROVE  Min(Least(m)) <= q.values[m].min /\ q.values[m].max <= Max(Most(m))
      OBVIOUS
    <3>1. q.values[m].min \in Least(m) /\ q.values[m].max \in Most(m)  OBVIOUS
    <3> HIDE DEF Least, Most
    <3> QED BY <2>5, <3>1
  <2> DEFINE lo == Min(Least(m))
             hi == Max(Most(m))
             a == WeightedAverage(group, m)
  <2>7. a \in Fractions /\ lo * a.den <= a.num /\ a.num <= hi * a.den
    <3>1. Known(group, m) # {} /\ lo \in Int /\ hi \in Int  BY <1>6, <2>5
    <3>2. \A q \in Known(group, m) : lo <= q.values[m].min /\ q.values[m].max <= hi  BY <2>6
    <3>3. \A k \in 1..L : PointValues(group[k])  OBVIOUS
    <3> HIDE DEF lo, hi, L, K
    <3> QED BY <1>1, <3>1, <3>2, <3>3, AverageFacts
  <2>8. p.values[m] = [min |-> lo, max |-> hi, mean |-> a]
    BY <1>2, <1>6
  <2>9. p.values[m] # None /\ Ranged(p.values[m])
    <3>1. lo \in Int /\ hi \in Int  BY <2>5
    <3> HIDE DEF lo, hi, a, p
    <3>2. p.values[m].min = lo /\ p.values[m].max = hi /\ p.values[m].mean = a
      BY <2>8
    <3>3. [min |-> lo, max |-> hi, mean |-> a] # None  BY DEF None
    <3>4. p.values[m] # None  BY <2>8, <3>3
    <3> QED BY <2>7, <3>1, <3>2, <3>4 DEF Ranged
  <2>10. p.count > 0
    <3>1. PICK q \in K(m) : TRUE  BY <1>6
    <3>2. PICK k \in 1..L : q = group[k] /\ q.values[m] # None  BY <1>3
    <3>3. group[k].count > 0 /\ group[k].count <= Count(group) /\ group[k].count \in Nat
      BY <1>5, <2>1, <3>1, <3>2
    <3> HIDE DEF p
    <3> QED BY <1>2, <1>5, <3>3
  <2> QED BY <2>6, <2>9, <2>10
<1>7. PointValues(p)
  <2> SUFFICES ASSUME NEW m \in Metrics, p.values[m] # None
               PROVE  p.count > 0 /\ Ranged(p.values[m])
    BY <1>2, <1>5 DEF PointValues
  <2>1. K(m) # {}  BY <1>2
  <2> QED BY <1>6, <2>1
<1>8. ASSUME NEW k \in 1..L, NEW m \in Metrics, group[k].values[m] # None
      PROVE  /\ p.values[m] # None
             /\ p.values[m].min <= group[k].values[m].min
             /\ group[k].values[m].max <= p.values[m].max
  <2>1. group[k] \in K(m)  BY <1>4, <1>8
  <2>2. p.values[m] # None /\ p.values[m].min = Min(Least(m)) /\ p.values[m].max = Max(Most(m))
    <3>1. K(m) # {}  BY <2>1
    <3>2. p.values[m] = [min |-> Min(Least(m)), max |-> Max(Most(m)),
                         mean |-> WeightedAverage(group, m)]
      BY <1>2, <3>1
    <3> HIDE DEF p, K, Least, Most
    <3> QED BY <1>6, <3>1, <3>2
  <2> QED BY <1>6, <2>1, <2>2
<1> QED BY <1>2, <1>7, <1>8 DEF Reaching

-----------------------------------------------------------------------------
(***************************************************************************)
(* Items in order, and the points they are joined to.                      *)
(***************************************************************************)
Startable(items) ==
  /\ IsFiniteSet(items)
  /\ \A g \in items : g.start \in Int
  /\ \A g, h \in items : g.start = h.start => g = h

LEMMA SortedFacts ==
  ASSUME NEW items, Startable(items)
  PROVE  LET s == Sorted(items)
             N == Cardinality(items)
         IN  /\ N \in Nat /\ s \in [1..N -> items]
             /\ \A j, k \in 1..N : j < k => s[j].start < s[k].start
             /\ \A g \in items : \E k \in 1..N : s[k] = g
<1> DEFINE N == Cardinality(items)
           Below(g) == {h \in items : h.start < g.start}
           rank == [g \in items |-> Cardinality(Below(g)) + 1]
           s == Sorted(items)
<1>1. IsFiniteSet(items) /\ N \in Nat
  BY FS_CardinalityType DEF Startable
<1>2. \A g \in items : Below(g) \in SUBSET items /\ g \notin Below(g)
  BY DEF Startable
<1>3. \A g \in items : IsFiniteSet(Below(g)) /\ Cardinality(Below(g)) \in Nat
  <2> HIDE DEF Below
  <2> QED BY <1>1, <1>2, FS_Subset, FS_CardinalityType
<1>4. \A g \in items : rank[g] \in 1..N
  <2> SUFFICES ASSUME NEW g \in items PROVE rank[g] \in 1..N  OBVIOUS
  <2>1. Cardinality(Below(g)) <= N /\ Cardinality(Below(g)) # N
    <3> HIDE DEF Below
    <3> QED BY <1>1, <1>2, FS_Subset
  <2> HIDE DEF Below
  <2> QED BY <1>1, <1>3, <2>1
<1>5. ASSUME NEW g \in items, NEW h \in items, g.start < h.start PROVE rank[g] < rank[h]
  <2>1. Below(g) \in SUBSET Below(h) /\ g \in Below(h) /\ g \notin Below(g)
    BY <1>5 DEF Startable
  <2> HIDE DEF Below
  <2>2. Cardinality(Below(g)) <= Cardinality(Below(h)) /\ Cardinality(Below(g)) # Cardinality(Below(h))
    BY <1>3, <2>1, FS_Subset
  <2> QED BY <1>3, <2>2
<1>6. rank \in Injection(items, 1..N)
  <2>1. rank \in [items -> 1..N]  BY <1>4
  <2>2. ASSUME NEW g \in items, NEW h \in items, rank[g] = rank[h] PROVE g = h
    <3>1. g.start \in Int /\ h.start \in Int  BY DEF Startable
    <3>2. ~ (g.start < h.start) /\ ~ (h.start < g.start)
      <4> HIDE DEF rank
      <4> QED BY <1>4, <1>5, <2>2
    <3>3. g.start = h.start  BY <3>1, <3>2
    <3> QED BY <3>3 DEF Startable
  <2> HIDE DEF rank
  <2> QED BY <2>1, <2>2 DEF Injection, IsInjective
<1>7. \A k \in 1..N : \E g \in items : rank[g] = k
  <2>1. IsFiniteSet(1..N) /\ Cardinality(1..N) = N  BY <1>1, FS_Interval
  <2> HIDE DEF rank
  <2>2. rank \in Surjection(items, 1..N)  BY <1>6, <2>1, FS_Injection
  <2> QED BY <2>2 DEF Surjection
<1>8. s = [k \in 1..N |-> CHOOSE g \in items : Cardinality(Below(g)) = k - 1]
  BY DEF Sorted
<1>9. \A k \in 1..N : s[k] \in items /\ rank[s[k]] = k
  <2> SUFFICES ASSUME NEW k \in 1..N PROVE s[k] \in items /\ rank[s[k]] = k  OBVIOUS
  <2>1. PICK g \in items : rank[g] = k  BY <1>7
  <2>2. Cardinality(Below(g)) = k - 1
    <3>1. Cardinality(Below(g)) + 1 = k  BY <2>1
    <3> HIDE DEF Below
    <3> QED BY <1>3, <3>1
  <2>3. s[k] = CHOOSE h \in items : Cardinality(Below(h)) = k - 1  BY <1>8
  <2> HIDE DEF Below, s
  <2>4. s[k] \in items /\ Cardinality(Below(s[k])) = k - 1  BY <2>2, <2>3
  <2> QED BY <2>4
<1>10. s \in [1..N -> items]
  BY <1>8, <1>9
<1>11. ASSUME NEW j \in 1..N, NEW k \in 1..N, j < k PROVE s[j].start < s[k].start
  <2>1. s[j] \in items /\ s[k] \in items /\ rank[s[j]] = j /\ rank[s[k]] = k  BY <1>9
  <2> HIDE DEF rank, s
  <2>2. s[j].start \in Int /\ s[k].start \in Int  BY <2>1 DEF Startable
  <2>3. ~ (s[k].start < s[j].start)  BY <1>5, <1>11, <2>1
  <2>4. s[j].start # s[k].start  BY <1>11, <2>1 DEF Startable
  <2> QED BY <2>2, <2>3, <2>4
<1>12. ASSUME NEW g \in items PROVE \E k \in 1..N : s[k] = g
  <2>1. rank[g] \in 1..N  BY <1>4
  <2> HIDE DEF rank, s
  <2>2. s[rank[g]] \in items /\ rank[s[rank[g]]] = rank[g]  BY <1>9, <2>1
  <2>3. s[rank[g]] = g  BY <1>6, <2>2 DEF Injection, IsInjective
  <2> QED BY <2>1, <2>3
<1> HIDE DEF s, N
<1>13. /\ N \in Nat /\ s \in [1..N -> items]
       /\ \A j, k \in 1..N : j < k => s[j].start < s[k].start
       /\ \A g \in items : \E k \in 1..N : s[k] = g
  BY <1>1, <1>10, <1>11, <1>12
<1> QED BY <1>13 DEF s, N

\* The k-th point joins the items from First to Final.
First(k, n) == (k - 1) * n + 1
Final(k, n, N) == IF k * n <= N THEN k * n ELSE N

Joins(p, s, a, b) ==
  /\ p.timestamp = s[a].start /\ p.end = BucketEnd(s[b].start)
  /\ PointValues(p)
  /\ \A k \in a..b : \A i \in QueryHistory(history, s[k].start) :
       s[k].count > 0 /\ i.risk # None =>
         /\ p.values["risk"] # None
         /\ p.values["risk"].min <= i.risk.score
         /\ i.risk.score <= p.values["risk"].max

LEMMA GroupBounds ==
  ASSUME NEW N \in Nat, NEW n \in {1, 2, 4}, NEW k \in 1..(N + n - 1) \div n
  PROVE  /\ First(k, n) \in 1..N /\ Final(k, n, N) \in 1..N
         /\ First(k, n) <= Final(k, n, N) /\ Final(k, n, N) < First(k, n) + n
BY DEF First, Final

LEMMA JoinOfOne ==
  ASSUME NEW s, NEW a \in Int, ItemOK(s[a])
  PROVE  Joins(Extract(s[a]), s, a, a)
<1>1. a..a = {a}  OBVIOUS
<1> QED BY <1>1, ExtractFacts DEF Joins

LEMMA JoinOfSome ==
  ASSUME HistoryOK, NEW items, NEW N \in Nat, NEW s \in [1..N -> items], \A g \in items : ItemOK(g),
         NEW a \in 1..N, NEW b \in 1..N, a <= b
  PROVE  Joins(Merged(SubSeq([k \in 1..N |-> Extract(s[k])], a, b)), s, a, b)
<1> DEFINE points == [k \in 1..N |-> Extract(s[k])]
           group == SubSeq(points, a, b)
           T == {Extract(s[k]) : k \in 1..N}
           L == b - a + 1
           p == Merged(group)
<1>1. points \in Seq(T)  OBVIOUS
<1>2. group \in Seq(T) /\ Len(group) = L /\ \A i \in 1..L : group[i] = Extract(s[a + i - 1])
  <2>1. group = [i \in 1..L |-> points[i + a - 1]]  BY <1>1
  <2>2. \A i \in 1..L : i + a - 1 \in 1..N  OBVIOUS
  <2>3. \A i \in 1..L : group[i] = Extract(s[a + i - 1]) /\ group[i] \in T  BY <2>1, <2>2
  <2>4. group \in [1..L -> T]  BY <2>1, <2>3
  <2> HIDE DEF group, T, points
  <2> QED BY <2>3, <2>4
<1>3. \A i \in 1..L : a + i - 1 \in 1..N /\ s[a + i - 1] \in items
  OBVIOUS
<1>4. \A i \in 1..L : PointValues(group[i])
  <2> HIDE DEF group
  <2> QED BY <1>2, <1>3, ExtractFacts
<1>5. L \in Nat /\ L > 0 /\ 1 \in 1..L /\ L \in 1..L  OBVIOUS
<1>6. /\ p.timestamp = group[1].timestamp /\ p.end = group[L].end /\ PointValues(p)
      /\ \A i \in 1..L, m \in Metrics : Reaching(p, group[i], m)
  <2> HIDE DEF group, L, T
  <2> QED BY <1>2, <1>4, <1>5, MergedFacts
<1>7. group[1] = Extract(s[a]) /\ group[L] = Extract(s[b])
  <2> HIDE DEF group
  <2> QED BY <1>2, <1>5
<1>8. p.timestamp = s[a].start /\ p.end = BucketEnd(s[b].start)
  <2> HIDE DEF group, p
  <2> QED BY <1>6, <1>7, ExtractFacts
<1>9. ASSUME NEW k \in a..b, NEW i \in QueryHistory(history, s[k].start),
             s[k].count > 0, i.risk # None
      PROVE  /\ p.values["risk"] # None
             /\ p.values["risk"].min <= i.risk.score
             /\ i.risk.score <= p.values["risk"].max
  <2> DEFINE l == k - a + 1
             q == Extract(s[k])
  <2>1. l \in 1..L /\ a + l - 1 = k  OBVIOUS
  <2>2. group[l] = q
    <3> HIDE DEF group, l, q
    <3> QED BY <1>2, <2>1 DEF q
  <2>3. ItemOK(s[k])  OBVIOUS
  <2>4. /\ q.values["risk"] # None /\ PointValues(q)
        /\ q.values["risk"].min <= i.risk.score /\ i.risk.score <= q.values["risk"].max
    BY <1>9, <2>3, ExtractFacts
  <2>5. "risk" \in Metrics  BY DEF Metrics
  <2> HIDE DEF group, p, q, l
  <2>6. /\ p.values["risk"] # None /\ p.values["risk"].min <= q.values["risk"].min
        /\ q.values["risk"].max <= p.values["risk"].max
    BY <1>6, <2>1, <2>2, <2>4, <2>5 DEF Reaching
  <2>7. /\ p.values["risk"].min \in Int /\ p.values["risk"].max \in Int
        /\ q.values["risk"].min \in Int /\ q.values["risk"].max \in Int
    BY <1>6, <2>4, <2>5, <2>6 DEF PointValues, Ranged
  <2>8. i.risk.score \in Int
    BY <1>9, QueryFinite, HistoryItems
  <2> QED BY <2>4, <2>6, <2>7, <2>8
<1> HIDE DEF p
<1>10. Joins(p, s, a, b)
  BY <1>6, <1>8, <1>9 DEF Joins
<1> QED BY <1>10 DEF p

LEMMA MinOfTwo ==
  ASSUME NEW a \in Int, NEW b \in Int
  PROVE  Min({a, b}) = IF a <= b THEN a ELSE b
<1>1. IsFiniteSet({a, b})
  <2>1. IsFiniteSet({a})  BY FS_Singleton
  <2>2. IsFiniteSet({a} \cup {b})  BY <2>1, FS_AddElement
  <2>3. {a, b} = {a} \cup {b}  OBVIOUS
  <2> QED BY <2>2, <2>3
<1>2. Min({a, b}) \in {a, b} /\ \A y \in {a, b} : Min({a, b}) <= y
  BY <1>1, LeastAndGreatest
<1>3. Min({a, b}) \in {a, b} /\ Min({a, b}) <= a /\ Min({a, b}) <= b
  BY <1>2
<1> QED BY <1>3

LEMMA PointsFacts ==
  ASSUME HistoryOK, NEW items, Startable(items), \A g \in items : ItemOK(g), NEW n \in {1, 2, 4}
  PROVE  LET s == Sorted(items)
             N == Cardinality(items)
         IN  /\ \A p \in ToSet(Points(items, n)) :
                  \E k \in 1..(N + n - 1) \div n :
                    p = Points(items, n)[k] /\ Joins(p, s, First(k, n), Final(k, n, N))
             /\ n = 1 => \A g \in items : Extract(g) \in ToSet(Points(items, n))
<1> DEFINE s == Sorted(items)
           N == Cardinality(items)
           M == (N + n - 1) \div n
           points == [k \in 1..N |-> Extract(s[k])]
           P == Points(items, n)
<1>1. /\ N \in Nat /\ s \in [1..N -> items]
      /\ \A g \in items : \E k \in 1..N : s[k] = g
  BY SortedFacts
<1>2. P = Reaggregate(points, n)
  <2>1. DOMAIN s = 1..N  BY <1>1
  <2> HIDE DEF s, N
  <2> QED BY <2>1 DEF Points, s
<1>3. \A k \in 1..M : First(k, n) \in 1..N /\ Final(k, n, N) \in 1..N /\ First(k, n) <= Final(k, n, N)
  <2> HIDE DEF N
  <2> QED BY <1>1, GroupBounds
<1>4. CASE n = 1
  <2>1. P = points  BY <1>2, <1>4 DEF Reaggregate
  <2>2. ToSet(P) = {points[k] : k \in 1..N}
    <3>1. DOMAIN points = 1..N  OBVIOUS
    <3> HIDE DEF points, P
    <3> QED BY <2>1, <3>1 DEF ToSet
  <2>3. M = N /\ \A k \in 1..N : First(k, n) = k /\ Final(k, n, N) = k
    <3> HIDE DEF N
    <3> QED BY <1>1, <1>4 DEF First, Final
  <2>4. \A k \in 1..N : P[k] = Extract(s[k]) /\ s[k] \in items
    <3> HIDE DEF P, s, N
    <3> QED BY <1>1, <2>1
  <2>5. \A k \in 1..N : Joins(P[k], s, k, k)
    <3> HIDE DEF P, s, N
    <3> QED BY <2>4, JoinOfOne
  <2>6. \A g \in items : Extract(g) \in ToSet(P)
    <3> HIDE DEF P, s, N
    <3> QED BY <1>1, <2>1, <2>2
  <2>7. \A p \in ToSet(P) : \E k \in 1..M : p = P[k] /\ Joins(p, s, First(k, n), Final(k, n, N))
    <3> HIDE DEF P, s, N, M
    <3> QED BY <2>1, <2>2, <2>3, <2>5
  <2> QED BY <2>6, <2>7
<1>5. CASE n # 1
  <2>1. /\ points \in Seq({Extract(s[k]) : k \in 1..N})
        /\ Len(points) = N
    BY <1>1
  <2>2. P = [k \in 1..M |-> Merged(SubSeq(points, First(k, n), Min({k * n, N})))]
    <3> HIDE DEF points, P, N, s
    <3> QED BY <1>2, <1>5, <2>1 DEF Reaggregate, First
  <2>3. \A k \in 1..M : Min({k * n, N}) = Final(k, n, N)
    <3>1. n \in Int /\ N \in Int  BY <1>1
    <3> HIDE DEF N, M
    <3>2. \A k \in 1..M : k * n \in Int  BY <3>1
    <3> QED BY <3>1, <3>2, MinOfTwo DEF Final
  <2>4. \A k \in 1..M : Joins(P[k], s, First(k, n), Final(k, n, N))
    <3> SUFFICES ASSUME NEW k \in 1..M PROVE Joins(P[k], s, First(k, n), Final(k, n, N))  OBVIOUS
    <3>1. P[k] = Merged(SubSeq(points, First(k, n), Final(k, n, N)))
      <4> HIDE DEF points, P, N, s, M
      <4> QED BY <2>2, <2>3
    <3> DEFINE a == First(k, n)
               b == Final(k, n, N)
    <3>2. a \in 1..N /\ b \in 1..N /\ a <= b  BY <1>3
    <3>3. Joins(Merged(SubSeq(points, a, b)), s, a, b)
      <4> HIDE DEF P, N, s, M, a, b
      <4> QED BY <1>1, <3>2, JoinOfSome
    <3> HIDE DEF P, N, s, M, points
    <3> QED BY <3>1, <3>3
  <2>5. ToSet(P) = {P[k] : k \in 1..M}
    <3>1. DOMAIN P = 1..M  BY <2>2
    <3> HIDE DEF P
    <3> QED BY <3>1 DEF ToSet
  <2>6. \A p \in ToSet(P) : \E k \in 1..M : p = P[k] /\ Joins(p, s, First(k, n), Final(k, n, N))
    <3> HIDE DEF P, s, N, M
    <3> QED BY <2>4, <2>5
  <2> QED BY <1>5, <2>6
<1> QED BY <1>4, <1>5

-----------------------------------------------------------------------------
(***************************************************************************)
(* The points of the graph, from any tick on.                              *)
(***************************************************************************)
LEMMA GraphItems ==
  ASSUME HistoryOK, GraphOK
  PROVE  /\ \A g \in graph : ItemOK(g) /\ IsBucket(g.start) /\ g.start \in Int
         /\ Startable(graph)
         /\ \A g, h \in graph : g.start < h.start => BucketEnd(g.start) < h.start
<1>1. \A g \in graph : IsBucket(g.start) /\ g = AggregateGraphItem(history, g.start)
  BY DEF GraphOK
<1>2. \A g \in graph : g.start \in Int  BY <1>1, BucketType
<1>3. \A g \in graph : ItemOK(g)  BY <1>1, ItemFacts
<1>4. \A g, h \in graph : g.start = h.start => g = h  BY <1>1
<1>5. \A g, h \in graph : g.start < h.start => BucketEnd(g.start) < h.start
  BY <1>1, BucketsApart
<1> QED BY <1>1, <1>2, <1>3, <1>4, <1>5 DEF Startable, GraphOK

From(t) == {g \in graph : g.start >= t}

LEMMA PointOfGroup ==
  ASSUME HistoryOK, GraphOK, NEW t \in Int, NEW N \in Nat, NEW s \in [1..N -> From(t)],
         \A j, k \in 1..N : j < k => s[j].start < s[k].start,
         \A g \in From(t) : \E k \in 1..N : s[k] = g,
         NEW a \in 1..N, NEW b \in 1..N, a <= b, b < a + joined,
         joined \in {1, 2, 4},
         NEW p, Joins(p, s, a, b)
  PROVE  PointOK(p)
<1>1. /\ p.timestamp = s[a].start /\ p.end = BucketEnd(s[b].start) /\ PointValues(p)
      /\ s[a] \in graph /\ s[b] \in graph
  BY DEF Joins, From
<1>2. \A k \in 1..N : s[k] \in graph /\ s[k].start \in Int /\ s[k].start >= t
  BY GraphItems DEF From
<1>3. ASSUME NEW g \in Covered(p) PROVE \E k \in a..b : g = s[k]
  <2>1. g \in graph /\ s[a].start <= g.start /\ g.start <= BucketEnd(s[b].start)
    BY <1>1 DEF Covered
  <2>2. g \in From(t)
    <3>1. g.start \in Int  BY <2>1, GraphItems
    <3> QED BY <1>2, <2>1, <3>1 DEF From
  <2>3. PICK k \in 1..N : s[k] = g  BY <2>2
  <2>4. k >= a
    <3> SUFFICES ASSUME k < a PROVE FALSE  OBVIOUS
    <3>1. s[k].start < s[a].start  OBVIOUS
    <3> QED BY <1>2, <2>1, <2>3, <3>1
  <2>5. k <= b
    <3> SUFFICES ASSUME b < k PROVE FALSE  OBVIOUS
    <3>1. s[b].start < s[k].start  OBVIOUS
    <3>2. BucketEnd(s[b].start) < s[k].start  BY <1>2, <3>1, GraphItems
    <3>3. BucketEnd(s[b].start) \in Int  BY <1>2, GraphItems, BucketType
    <3> QED BY <1>2, <2>1, <2>3, <3>2, <3>3
  <2> QED BY <2>3, <2>4, <2>5
<1>4. Cardinality(Covered(p)) <= joined
  <2> DEFINE f == [k \in a..b |-> s[k]]
             U == {f[k] : k \in a..b}
  <2>1. IsFiniteSet(a..b) /\ Cardinality(a..b) = b - a + 1 /\ DOMAIN f = a..b
    BY FS_Interval
  <2>2. IsFiniteSet(U) /\ Cardinality(U) <= b - a + 1
    <3> HIDE DEF f
    <3> QED BY <2>1, ImageFinite
  <2>3. Covered(p) \in SUBSET U  BY <1>3
  <2> HIDE DEF U
  <2>4. Cardinality(Covered(p)) <= Cardinality(U)  BY <2>2, <2>3, FS_Subset
  <2>5. Cardinality(Covered(p)) \in Nat /\ Cardinality(U) \in Nat
    BY <2>2, <2>3, FS_Subset, FS_CardinalityType
  <2> QED BY <2>2, <2>4, <2>5
<1>5. InRange(p)
  BY <1>1 DEF InRange, PointValues, Ranged, Fractions
<1>6. Reaches(p)
  BY <1>3 DEF Reaches, Joins
<1>7. p.timestamp <= p.end
  <2>1. s[a].start <= s[b].start
    <3>1. a = b \/ s[a].start < s[b].start  OBVIOUS
    <3> QED BY <1>2, <3>1
  <2>2. s[b].start <= BucketEnd(s[b].start) /\ BucketEnd(s[b].start) \in Int
    BY <1>2, GraphItems, BucketType
  <2> QED BY <1>1, <1>2, <2>1, <2>2
<1> QED BY <1>1, <1>4, <1>5, <1>6, <1>7 DEF PointOK

LEMMA DisjointGroups ==
  ASSUME HistoryOK, GraphOK, NEW N \in Nat, NEW s \in [1..N -> graph],
         \A j, k \in 1..N : j < k => s[j].start < s[k].start,
         NEW n \in {1, 2, 4}, NEW k \in 1..(N + n - 1) \div n, NEW l \in 1..(N + n - 1) \div n,
         k < l
  PROVE  BucketEnd(s[Final(k, n, N)].start) < s[First(l, n)].start
<1>1. Final(k, n, N) \in 1..N /\ First(l, n) \in 1..N
  BY GroupBounds
<1>2. Final(k, n, N) < First(l, n)
  BY DEF Final, First
<1> QED BY <1>1, <1>2, GraphItems

LEMMA PointTypes ==
  ASSUME HistoryOK, GraphOK, NEW p, PointOK(p)
  PROVE  p.timestamp \in Int /\ p.end \in Int /\ p.timestamp <= p.end
BY GraphItems, BucketType DEF PointOK

\* What is answered to a request that asks for what is newer than since.
LEMMA AnswerFacts ==
  ASSUME HistoryOK, GraphOK, joined \in {1, 2, 4}, NEW since \in Int, NEW oldest \in Int
  PROVE  LET A == GraphHistory(graph, joined, since, oldest)
         IN  /\ PointsOK(A)
             /\ since # NoSince =>
                  /\ \A p \in A : p.timestamp > since
                  /\ joined = 1 => \A g \in graph : g.start > since => g.start \in Timestamps(A)
                  /\ (\E g \in graph : g.start = since) =>
                       \A p \in A : Cardinality({g \in graph : since <= g.start /\ g.start < p.timestamp})
                                      >= joined
<1> DEFINE t == IF since = NoSince THEN oldest ELSE since
           items == From(t)
           s == Sorted(items)
           N == Cardinality(items)
           n == joined
           M == (N + n - 1) \div n
           A == GraphHistory(graph, joined, since, oldest)
           Group(p, k) == p = Points(items, n)[k] /\ Joins(p, s, First(k, n), Final(k, n, N))
<1>1. t \in Int /\ items \subseteq graph
  BY DEF From
<1>2. A = {p \in ToSet(Points(items, n)) : since # NoSince => p.timestamp > since}
  BY DEF GraphHistory, From
<1>3. Startable(items) /\ \A g \in items : ItemOK(g)
  <2> HIDE DEF items
  <2>1. Startable(graph) /\ \A g \in graph : ItemOK(g)  BY GraphItems
  <2>2. items \in SUBSET graph  BY <1>1
  <2>3. IsFiniteSet(items)  BY <2>1, <2>2, FS_Subset DEF Startable
  <2> QED BY <2>1, <2>2, <2>3 DEF Startable
<1>4. /\ N \in Nat /\ s \in [1..N -> items] /\ s \in [1..N -> graph]
      /\ \A j, k \in 1..N : j < k => s[j].start < s[k].start
      /\ \A g \in items : \E k \in 1..N : s[k] = g
  <2> HIDE DEF items
  <2>1. /\ N \in Nat /\ s \in [1..N -> items]
        /\ \A j, k \in 1..N : j < k => s[j].start < s[k].start
        /\ \A g \in items : \E k \in 1..N : s[k] = g
    BY <1>3, SortedFacts
  <2> HIDE DEF s, N
  <2> QED BY <1>1, <2>1
<1>5. /\ \A p \in ToSet(Points(items, n)) : \E k \in 1..M : Group(p, k)
      /\ n = 1 => \A g \in items : Extract(g) \in ToSet(Points(items, n))
  <2> HIDE DEF items
  <2> QED BY <1>3, PointsFacts
<1>6. \A p \in A : \E k \in 1..M : Group(p, k)
  BY <1>2, <1>5
<1>7. \A k \in 1..M : /\ First(k, n) \in 1..N /\ Final(k, n, N) \in 1..N
                      /\ First(k, n) <= Final(k, n, N) /\ Final(k, n, N) < First(k, n) + n
  <2> HIDE DEF N
  <2> QED BY <1>4, GroupBounds
<1>8. \A p \in A : PointOK(p)
  <2> SUFFICES ASSUME NEW p \in A PROVE PointOK(p)  OBVIOUS
  <2>1. PICK k \in 1..M : Group(p, k)  BY <1>6
  <2> DEFINE a == First(k, n)
             b == Final(k, n, N)
  <2>2. Joins(p, s, a, b)  BY <2>1
  <2>3. a \in 1..N /\ b \in 1..N /\ a <= b /\ b < a + joined  BY <1>7
  <2>4. /\ s \in [1..N -> From(t)]
        /\ \A j, l \in 1..N : j < l => s[j].start < s[l].start
        /\ \A g \in From(t) : \E l \in 1..N : s[l] = g
    BY <1>4
  <2> HIDE DEF a, b, s, N, t, A
  <2> QED BY <1>1, <1>4, <2>2, <2>3, <2>4, PointOfGroup
<1>9. ASSUME NEW k \in 1..M, NEW l \in 1..M, k < l
      PROVE  BucketEnd(s[Final(k, n, N)].start) < s[First(l, n)].start
  <2> HIDE DEF s, N
  <2> QED BY <1>4, <1>9, DisjointGroups
<1>10. Disjoint(A)
  <2> SUFFICES ASSUME NEW p \in A, NEW q \in A
               PROVE  p = q \/ p.end < q.timestamp \/ q.end < p.timestamp
    BY DEF Disjoint
  <2>1. PICK k \in 1..M : Group(p, k)  BY <1>6
  <2>2. PICK l \in 1..M : Group(q, l)  BY <1>6
  <2>3. /\ p.timestamp = s[First(k, n)].start /\ p.end = BucketEnd(s[Final(k, n, N)].start)
        /\ q.timestamp = s[First(l, n)].start /\ q.end = BucketEnd(s[Final(l, n, N)].start)
    BY <2>1, <2>2 DEF Joins
  <2>4. CASE k = l  BY <2>1, <2>2, <2>4
  <2>5. CASE k < l  BY <1>9, <2>3, <2>5
  <2>6. CASE l < k  BY <1>9, <2>3, <2>6
  <2>7. k \in Int /\ l \in Int  OBVIOUS
  <2> QED BY <2>4, <2>5, <2>6, <2>7
<1>11. ASSUME joined = 1, NEW g \in items, since # NoSince => g.start > since
       PROVE  g.start \in Timestamps(A)
  <2>1. Extract(g) \in ToSet(Points(items, n))  BY <1>5, <1>11
  <2>2. Extract(g).timestamp = g.start  BY DEF Extract
  <2>3. Extract(g) \in A  BY <1>2, <1>11, <2>1, <2>2
  <2> QED BY <2>2, <2>3 DEF Timestamps
<1>12. joined = 1 => Gapless(A)
  <2> SUFFICES ASSUME joined = 1, NEW g \in graph, NEW p \in A, NEW q \in A,
                      p.timestamp < g.start, g.start < q.timestamp
               PROVE  g.start \in Timestamps(A)
    BY DEF Gapless
  <2>1. PICK h \in items : p.timestamp = h.start
    <3>1. PICK k \in 1..M : Group(p, k)  BY <1>6
    <3>2. p.timestamp = s[First(k, n)].start /\ s[First(k, n)] \in items
      BY <1>4, <1>7, <3>1 DEF Joins
    <3> QED BY <3>2
  <2>2. g.start \in Int /\ h.start \in Int /\ h.start >= t
    BY <1>1, GraphItems DEF From
  <2>3. g \in items  BY <1>1, <2>1, <2>2 DEF From
  <2>4. since # NoSince => g.start > since
    <3>1. since # NoSince => p.timestamp > since  BY <1>2
    <3> QED BY <2>1, <2>2, <3>1
  <2> QED BY <1>11, <2>3, <2>4
<1>13. PointsOK(A)
  BY <1>8, <1>10, <1>12 DEF PointsOK
<1>14. since # NoSince => \A p \in A : p.timestamp > since
  BY <1>2
<1>15. ASSUME since # NoSince, joined = 1, NEW g \in graph, g.start > since
       PROVE  g.start \in Timestamps(A)
  <2>1. g.start \in Int  BY GraphItems
  <2>2. g \in items  BY <1>15, <2>1 DEF From
  <2> QED BY <1>11, <1>15, <2>2
<1>16. ASSUME since # NoSince, NEW h \in graph, h.start = since, NEW p \in A
       PROVE  Cardinality({g \in graph : since <= g.start /\ g.start < p.timestamp}) >= joined
  <2> DEFINE G == {g \in graph : since <= g.start /\ g.start < p.timestamp}
             f == [j \in 1..n |-> s[j]]
  <2>1. PICK k \in 1..M : Group(p, k)  BY <1>6
  <2>2. p.timestamp = s[First(k, n)].start /\ p.timestamp > since
    BY <1>14, <1>16, <2>1 DEF Joins
  <2>3. h \in items
    <3>1. h.start \in Int  BY GraphItems
    <3> QED BY <1>16, <3>1 DEF From
  <2>4. PICK j0 \in 1..N : s[j0] = h  BY <1>4, <2>3
  <2>5. \A j \in 1..N : s[j].start \in Int /\ s[j].start >= since /\ s[j] \in graph
    BY <1>4, <1>16, GraphItems DEF From
  <2>6. j0 = 1
    <3> SUFFICES ASSUME 1 < j0 PROVE FALSE  OBVIOUS
    <3>1. s[1].start < s[j0].start /\ 1 \in 1..N  BY <1>4
    <3> QED BY <1>16, <2>4, <2>5, <3>1
  <2>7. k # 1
    <3> SUFFICES ASSUME k = 1 PROVE FALSE  OBVIOUS
    <3>1. First(k, n) = 1  BY DEF First
    <3>2. p.timestamp = since  BY <1>16, <2>2, <2>4, <2>6, <3>1
    <3> QED BY <2>2, <3>2
  <2>8. n < First(k, n) /\ First(k, n) \in 1..N
    <3>1. k \in Int /\ k >= 2  BY <2>7
    <3>2. n < First(k, n)  BY <3>1 DEF First
    <3> QED BY <1>7, <3>2
  <2>9. \A j \in 1..n : j \in 1..N /\ j < First(k, n)
    <3> DEFINE a == First(k, n)
    <3>1. n < a /\ a \in 1..N /\ n \in Int /\ N \in Int  BY <1>4, <2>8
    <3> HIDE DEF a, N
    <3>2. \A j \in 1..n : j \in 1..N /\ j < a  BY <3>1
    <3> QED BY <3>2 DEF a
  <2>10. f \in Injection(1..n, G)
    <3>1. \A j \in 1..n : f[j] \in G
      <4> SUFFICES ASSUME NEW j \in 1..n PROVE s[j] \in G  OBVIOUS
      <4>1. s[j].start < s[First(k, n)].start  BY <1>4, <2>8, <2>9
      <4> QED BY <2>2, <2>5, <2>9, <4>1
    <3>2. ASSUME NEW i \in 1..n, NEW j \in 1..n, f[i] = f[j] PROVE i = j
      <4>1. s[i].start = s[j].start  BY <3>2
      <4>2. ~ (i < j) /\ ~ (j < i)
        <5>1. i < j => s[i].start < s[j].start  BY <1>4, <2>9
        <5>2. j < i => s[j].start < s[i].start  BY <1>4, <2>9
        <5> QED BY <2>5, <2>9, <4>1, <5>1, <5>2
      <4> QED BY <4>2
    <3> HIDE DEF G
    <3>3. f \in [1..n -> G]  BY <3>1
    <3> HIDE DEF f
    <3> QED BY <3>2, <3>3 DEF Injection, IsInjective
  <2>11. IsFiniteSet(G)
    <3>1. G \in SUBSET graph  OBVIOUS
    <3> QED BY <3>1, FS_Subset DEF GraphOK
  <2>12. Cardinality(1..n) = n
    <3>1. n \in {1, 2, 4}  OBVIOUS
    <3>2. n \in Int /\ 1 \in Int /\ n - 1 + 1 = n /\ ~ (1 > n)  BY <3>1
    <3> HIDE DEF n
    <3> QED BY <3>2, FS_Interval
  <2> HIDE DEF G, f
  <2>13. Cardinality(1..n) <= Cardinality(G)  BY <2>10, <2>11, FS_Injection
  <2>14. n <= Cardinality(G) /\ Cardinality(G) \in Nat  BY <2>11, <2>12, <2>13, FS_CardinalityType
  <2> QED BY <2>14 DEF G
<1> HIDE DEF A
<1>17. /\ PointsOK(A)
       /\ since # NoSince =>
            /\ \A p \in A : p.timestamp > since
            /\ joined = 1 => \A g \in graph : g.start > since => g.start \in Timestamps(A)
            /\ (\E g \in graph : g.start = since) =>
                 \A p \in A : Cardinality({g \in graph : since <= g.start /\ g.start < p.timestamp})
                                >= joined
  BY <1>13, <1>14, <1>15, <1>16
<1> QED BY <1>17 DEF A

-----------------------------------------------------------------------------
(***************************************************************************)
(* Merging an answer into the points it was asked for.                     *)
(***************************************************************************)
LEMMA LatestFacts ==
  ASSUME HistoryOK, GraphOK, NEW points, \A p \in points : PointOK(p)
  PROVE  /\ LatestTimestamp(points) \in Int
         /\ LatestTimestamp(points) # NoSince =>
              /\ \E p \in points : p.timestamp = LatestTimestamp(points)
              /\ \A p \in points : p.timestamp <= LatestTimestamp(points)
<1> DEFINE T == Timestamps(points)
           U == {g.start : g \in graph}
           f == [g \in graph |-> g.start]
<1>1. CASE points = {}
  BY <1>1 DEF LatestTimestamp, NoSince
<1>2. CASE points # {}
  <2>1. IsFiniteSet(U)
    <3>1. IsFiniteSet(graph) /\ DOMAIN f = graph  BY DEF GraphOK
    <3>2. IsFiniteSet({f[g] : g \in graph})
      <4> HIDE DEF f
      <4> QED BY <3>1, ImageFinite
    <3> QED BY <3>2
  <2>2. T \in SUBSET U
    BY DEF Timestamps, PointOK
  <2>3. T \subseteq Int
    <3>1. \A p \in points : p.timestamp \in Int  BY PointTypes
    <3> QED BY <3>1 DEF Timestamps
  <2>4. T # {}
    BY <1>2 DEF Timestamps
  <2>5. Max(T) \in T /\ \A y \in T : y <= Max(T)
    <3> HIDE DEF T, U
    <3>1. IsFiniteSet(T)  BY <2>1, <2>2, FS_Subset
    <3> QED BY <2>3, <2>4, <3>1, LeastAndGreatest
  <2>6. LatestTimestamp(points) = Max(T)
    BY <1>2 DEF LatestTimestamp
  <2>7. \A p \in points : p.timestamp \in T
    BY DEF Timestamps
  <2>8. \E p \in points : p.timestamp = Max(T)
    <3> HIDE DEF T
    <3> QED BY <2>5 DEF T, Timestamps
  <2> HIDE DEF T
  <2> QED BY <2>3, <2>5, <2>6, <2>7, <2>8
<1> QED BY <1>1, <1>2

LEMMA MergeFacts ==
  ASSUME HistoryOK, GraphOK, joined \in {1, 2, 4}, NEW base, PointsOK(base),
         NEW oldest \in Int, LatestTimestamp(base) # NoSince
  PROVE  PointsOK(base \cup GraphHistory(graph, joined, LatestTimestamp(base), oldest))
<1> DEFINE since == LatestTimestamp(base)
           A == GraphHistory(graph, joined, since, oldest)
<1>1. since \in Int /\ since # NoSince /\ \A p \in base : p.timestamp <= since
  BY LatestFacts DEF PointsOK
<1>2. PICK l \in base : l.timestamp = since
  BY LatestFacts DEF PointsOK
<1> HIDE DEF since
<1>3. /\ PointsOK(A)
      /\ \A p \in A : p.timestamp > since
      /\ joined = 1 => \A g \in graph : g.start > since => g.start \in Timestamps(A)
      /\ (\E g \in graph : g.start = since) =>
           \A p \in A : Cardinality({g \in graph : since <= g.start /\ g.start < p.timestamp}) >= joined
  BY <1>1, AnswerFacts
<1> HIDE DEF A
<1>4. \A p \in base \cup A : PointOK(p)
  BY <1>3 DEF PointsOK
<1>5. \A p \in base \cup A : p.timestamp \in Int /\ p.end \in Int /\ p.timestamp <= p.end
  BY <1>4, PointTypes
<1>6. ASSUME NEW q \in A PROVE l.end < q.timestamp
  <2> SUFFICES ASSUME q.timestamp <= l.end PROVE FALSE
    BY <1>2, <1>5
  <2> DEFINE G == {g \in graph : since <= g.start /\ g.start < q.timestamp}
  <2>1. PICK h \in graph : h.start = q.timestamp
    BY <1>4 DEF PointOK
  <2>2. Cardinality(G) >= joined
    <3>1. \E g \in graph : g.start = since  BY <1>2, <1>4 DEF PointOK
    <3> QED BY <1>3, <3>1
  <2>3. \A g \in graph : g.start \in Int
    BY GraphItems
  <2>4. h \notin G /\ G \cup {h} \subseteq Covered(l) /\ Covered(l) \in SUBSET graph /\ G \in SUBSET graph
    <3>1. h \notin G  BY <1>5, <2>1
    <3>2. \A g \in G \cup {h} : g \in graph /\ l.timestamp <= g.start /\ g.start <= l.end
      BY <1>1, <1>2, <1>3, <1>5, <2>1, <2>3
    <3> QED BY <3>1, <3>2 DEF Covered
  <2> HIDE DEF G
  <2>5. IsFiniteSet(graph)  BY DEF GraphOK
  <2>6. IsFiniteSet(G) /\ IsFiniteSet(Covered(l))
    BY <2>4, <2>5, FS_Subset
  <2>7. Cardinality(G \cup {h}) = Cardinality(G) + 1 /\ IsFiniteSet(G \cup {h})
    BY <2>4, <2>6, FS_AddElement
  <2>8. Cardinality(G \cup {h}) <= Cardinality(Covered(l))
    <3>1. G \cup {h} \in SUBSET Covered(l)  BY <2>4
    <3> QED BY <2>6, <3>1, FS_Subset
  <2>9. Cardinality(Covered(l)) <= joined
    BY <1>2, <1>4 DEF PointOK
  <2>10. Cardinality(G) \in Nat /\ Cardinality(Covered(l)) \in Nat /\ joined \in Int
    BY <2>6, FS_CardinalityType
  <2> QED BY <2>2, <2>7, <2>8, <2>9, <2>10
<1>7. ASSUME NEW p \in base, NEW q \in A PROVE p.end < q.timestamp
  <2>1. CASE p = l  BY <1>6, <2>1
  <2>2. CASE p # l
    <3>1. p.end < l.timestamp \/ l.end < p.timestamp  BY <1>2, <2>2 DEF PointsOK, Disjoint
    <3>2. p.timestamp <= l.timestamp /\ q.timestamp > l.timestamp  BY <1>1, <1>2, <1>3
    <3> QED BY <1>1, <1>2, <1>5, <3>1, <3>2
  <2> QED BY <2>1, <2>2
<1>8. Disjoint(base \cup A)
  <2>1. Disjoint(base) /\ Disjoint(A)  BY <1>3 DEF PointsOK
  <2> QED BY <1>7, <2>1 DEF Disjoint
<1>9. joined = 1 => Gapless(base \cup A)
  <2> SUFFICES ASSUME joined = 1, NEW g \in graph, NEW p \in base \cup A, NEW q \in base \cup A,
                      p.timestamp < g.start, g.start < q.timestamp
               PROVE  g.start \in Timestamps(base \cup A)
    BY DEF Gapless
  <2>1. g.start \in Int  BY GraphItems
  <2>2. Timestamps(base) \subseteq Timestamps(base \cup A) /\ Timestamps(A) \subseteq Timestamps(base \cup A)
    BY DEF Timestamps
  <2>3. CASE g.start > since
    BY <1>3, <2>2, <2>3
  <2>4. CASE g.start = since
    BY <1>2, <2>2, <2>4 DEF Timestamps
  <2>5. CASE g.start < since
    <3>1. p \in base  BY <1>1, <1>3, <1>5, <2>1, <2>5
    <3>2. Gapless(base)  BY DEF PointsOK
    <3> QED BY <1>2, <2>2, <2>5, <3>1, <3>2 DEF Gapless
  <2> QED BY <1>1, <2>1, <2>3, <2>4, <2>5
<1>10. PointsOK(base \cup A)
  BY <1>4, <1>8, <1>9 DEF PointsOK
<1> QED BY <1>10 DEF A, since

\* What stays of a chart when its oldest points go.
LEMMA Recent ==
  ASSUME HistoryOK, GraphOK, NEW points, PointsOK(points), NEW oldest \in Int
  PROVE  PointsOK({p \in points : p.timestamp >= oldest})
<1> DEFINE R == {p \in points : p.timestamp >= oldest}
<1>1. \A p \in R : PointOK(p)  BY DEF PointsOK
<1>2. Disjoint(R)  BY DEF PointsOK, Disjoint
<1>3. joined = 1 => Gapless(R)
  <2> SUFFICES ASSUME joined = 1, NEW g \in graph, NEW p \in R, NEW q \in R,
                      p.timestamp < g.start, g.start < q.timestamp
               PROVE  g.start \in Timestamps(R)
    BY DEF Gapless
  <2>1. g.start \in Timestamps(points)  BY DEF PointsOK, Gapless
  <2>2. PICK r \in points : r.timestamp = g.start  BY <2>1 DEF Timestamps
  <2>3. p.timestamp \in Int /\ r.timestamp \in Int  BY PointTypes DEF PointsOK
  <2>4. r \in R  BY <2>2, <2>3
  <2> QED BY <2>2, <2>4 DEF Timestamps
<1> HIDE DEF R
<1>4. PointsOK(R)  BY <1>1, <1>2, <1>3 DEF PointsOK
<1> QED BY <1>4 DEF R

LEMMA MergedHistory ==
  ASSUME HistoryOK, GraphOK, NEW base, NEW answer, PointsOK(base \cup answer)
  PROVE  PointsOK(MergeHistoryItems(base, answer))
<1> DEFINE all == base \cup answer
<1>1. MergeHistoryItems(base, answer) = {p \in all : p.timestamp >= Oldest}
  <2>1. ASSUME NEW p \in base, p.timestamp \in Timestamps(answer) PROVE p \in answer
    <3>1. PICK q \in answer : q.timestamp = p.timestamp  BY <2>1 DEF Timestamps
    <3>2. p = q \/ p.end < q.timestamp \/ q.end < p.timestamp  BY DEF PointsOK, Disjoint
    <3>3. /\ p.timestamp \in Int /\ p.end \in Int /\ p.timestamp <= p.end
          /\ q.timestamp \in Int /\ q.end \in Int /\ q.timestamp <= q.end
      BY PointTypes DEF PointsOK
    <3> QED BY <3>1, <3>2, <3>3
  <2> QED BY <2>1 DEF MergeHistoryItems
<1>2. Oldest \in Int
  BY BoundsAssumption DEF Oldest, HistoryOK
<1> HIDE DEF all
<1> QED BY <1>1, <1>2, Recent DEF all

-----------------------------------------------------------------------------
(***************************************************************************)
(* The invariant is preserved.  A point stays what it is as long as the    *)
(* graph and the part of the history it was read from do.                  *)
(***************************************************************************)
LEMMA PointsStay ==
  ASSUME HistoryOK, GraphOK, NEW points, PointsOK(points),
         joined' = joined, graph \subseteq graph',
         \A g \in graph : QueryHistory(history', g.start) = QueryHistory(history, g.start),
         \A g \in graph' : g.start \in Int,
         \A g \in graph' \ graph, h \in graph : BucketEnd(h.start) < g.start
  PROVE  PointsOK(points)'
<1> DEFINE new == graph' \ graph
<1>1. ASSUME NEW p \in points PROVE Covered(p)' = Covered(p) /\ \A g \in new : p.end < g.start
  <2>1. PICK h \in graph : p.end = BucketEnd(h.start)  BY DEF PointsOK, PointOK
  <2>2. \A g \in new : p.end < g.start  BY <2>1
  <2>3. p.end \in Int  BY PointTypes DEF PointsOK
  <2>4. \A g \in graph : g.start \in Int  BY GraphItems
  <2>5. \A g \in graph' : p.timestamp <= g.start /\ g.start <= p.end => g \in graph
    <3> SUFFICES ASSUME NEW g \in new, g.start <= p.end PROVE FALSE  OBVIOUS
    <3>1. p.end < g.start  BY <2>2
    <3> QED BY <2>3, <3>1
  <2> QED BY <2>2, <2>5 DEF Covered
<1>2. ASSUME NEW p \in points PROVE PointOK(p)'
  <2>1. PointOK(p)  BY DEF PointsOK
  <2>2. Covered(p) \subseteq graph  BY DEF Covered
  <2>3. Reaches(p)'  BY <1>1, <2>1, <2>2 DEF PointOK, Reaches
  <2>4. InRange(p)'  BY <2>1 DEF PointOK, InRange
  <2> QED BY <1>1, <2>1, <2>3, <2>4 DEF PointOK
<1>3. Disjoint(points)'
  BY DEF PointsOK, Disjoint
<1>4. (joined = 1 => Gapless(points))'
  <2> SUFFICES ASSUME joined' = 1, NEW g \in graph', NEW p \in points, NEW q \in points,
                      p.timestamp < g.start, g.start < q.timestamp
               PROVE  g.start \in Timestamps(points)
    BY DEF Gapless, Timestamps
  <2>1. Gapless(points)  BY DEF PointsOK
  <2>2. g \in graph
    <3> SUFFICES ASSUME g \in new PROVE FALSE  OBVIOUS
    <3>1. q.end < g.start  BY <1>1
    <3>2. q.timestamp \in Int /\ q.end \in Int /\ q.timestamp <= q.end  BY PointTypes DEF PointsOK
    <3> QED BY <3>1, <3>2
  <2> QED BY <2>1, <2>2 DEF Gapless
<1> QED BY <1>2, <1>3, <1>4 DEF PointsOK

LEMMA PageStays ==
  ASSUME HistoryOK, GraphOK, PageOK, UNCHANGED <<joined, page>>, graph \subseteq graph',
         \A g \in graph : QueryHistory(history', g.start) = QueryHistory(history, g.start),
         \A g \in graph' : g.start \in Int,
         \A g \in graph' \ graph, h \in graph : BucketEnd(h.start) < g.start
  PROVE  PageOK'
<1>1. \A points : PointsOK(points) => PointsOK(points)'
  BY PointsStay
<1>2. PointsOK(chart)' /\ PointsOK(cache)'
  BY <1>1 DEF PageOK, page
<1>3. ASSUME NEW k \in DOMAIN requests PROVE RequestOK(requests[k])'
  <2>1. RequestOK(requests[k])  BY DEF PageOK
  <2> QED BY <1>1, <2>1 DEF RequestOK, page
<1> QED BY <1>2, <1>3 DEF PageOK, page

LEMMA SameBucket ==
  ASSUME GraphOK,
         \A g \in graph : QueryHistory(history', g.start) = QueryHistory(history, g.start)
  PROVE  \A g \in graph : g = AggregateGraphItem(history', g.start)
BY DEF GraphOK, AggregateGraphItem

LEMMA GraphStays ==
  ASSUME GraphOK, graph' = graph, now' \in Int, now \in Int, now <= now',
         \A g \in graph : QueryHistory(history', g.start) = QueryHistory(history, g.start)
  PROVE  GraphOK'
<1>1. \A g \in graph : g = AggregateGraphItem(history', g.start)
  BY SameBucket
<1>2. ASSUME NEW g \in graph PROVE IsBucket(g.start) /\ g.start <= ClosedBucket(now')
  <2>1. IsBucket(g.start) /\ g.start <= ClosedBucket(now) /\ g.start \in Int
    BY BucketType DEF GraphOK
  <2>2. ClosedBucket(now) <= ClosedBucket(now')  BY ClosedBucketFacts
  <2>3. ClosedBucket(now) \in Int /\ ClosedBucket(now') \in Int
    BY ClosedBucketFacts, BucketType
  <2> QED BY <2>1, <2>2, <2>3
<1> QED BY <1>1, <1>2 DEF GraphOK

\* What a message makes of the latest state, and the item that is a copy of it.
LEMMA UpdatedType ==
  ASSUME HistoryOK, NEW m \in Messages
  PROVE  /\ Updated(m) \in [factory : ObservationType, infra : ObservationType, risk : RiskType]
         /\ Updated(m).risk \in {None, [at |-> now, score |-> m.score], latest.risk}
<1>1. m \in Message
  BY MessagesAssumption
<1>2. /\ m.kind \in {"factory_state", "infra_state", "refresh", "image_snapshot"}
      /\ m.source \in Int /\ m.value \in Int /\ m.score \in Int
  BY <1>1 DEF Message
<1>3. now \in Nat /\ latest \in [factory : ObservationType, infra : ObservationType, risk : RiskType]
  BY DEF HistoryOK
<1>4. Observation(m) \in ObservationType
  BY <1>2 DEF Observation, ObservationType
<1>5. \A f : Risk(m, f) \in {None, [at |-> now, score |-> m.score]} /\ Risk(m, f) \in RiskType
  BY <1>2, <1>3 DEF Risk, RiskType
<1>6. CASE m.kind = "factory_state"
  <2>1. Updated(m) = [latest EXCEPT !.factory = Observation(m), !.risk = Risk(m, Observation(m))]
    BY <1>6 DEF Updated
  <2> QED BY <1>3, <1>4, <1>5, <2>1
<1>7. CASE m.kind = "infra_state"
  <2>1. Updated(m) = [latest EXCEPT !.infra = Observation(m), !.risk = Risk(m, latest.factory)]
    BY <1>7 DEF Updated
  <2> QED BY <1>3, <1>4, <1>5, <2>1
<1>8. CASE m.kind = "refresh"
  <2>1. Updated(m) = [latest EXCEPT !.risk = Risk(m, latest.factory)]
    BY <1>8 DEF Updated
  <2> QED BY <1>3, <1>5, <2>1
<1>9. CASE m.kind = "image_snapshot"
  <2>1. Updated(m) = latest  BY <1>9 DEF Updated
  <2> QED BY <1>3, <2>1
<1> QED BY <1>2, <1>6, <1>7, <1>8, <1>9

LEMMA ProcessHistory ==
  ASSUME HistoryOK, NEW m \in Messages, Process(m)
  PROVE  HistoryOK'
<1> DEFINE new == [at |-> now, factory |-> latest'.factory, infra |-> latest'.infra,
                   risk |-> latest'.risk]
<1>1. /\ now' = now /\ now \in Nat /\ history' = history \cup {new} /\ latest' = Updated(m)
      /\ \A i \in history : i.at < now
  BY DEF Process, HistoryOK
<1>2. /\ latest' \in [factory : ObservationType, infra : ObservationType, risk : RiskType]
      /\ latest'.risk \in {None, [at |-> now, score |-> m.score], latest.risk}
  BY <1>1, UpdatedType
<1>3. new \in ItemType /\ new.at = now /\ new.risk = latest'.risk
  BY <1>1, <1>2 DEF ItemType
<1> HIDE DEF new
<1>4. \A i \in history : i \in ItemType /\ i.at \in Nat /\ i.at < now
                         /\ (i.risk # None => i.risk.at \in Nat /\ i.risk.at <= i.at)
  BY <1>1, HistoryItems DEF HistoryOK
<1>5. IsFiniteSet(history')
  BY <1>1, FS_AddElement DEF HistoryOK
<1>6. latest.risk # None => \E i \in history : i.risk = latest.risk
  BY DEF HistoryOK
<1>7. new.risk # None => new.risk.at <= now /\ new.risk.at \in Nat
  <2>1. CASE new.risk = [at |-> now, score |-> m.score]  BY <1>1, <2>1
  <2>2. CASE new.risk = latest.risk  BY <1>1, <1>4, <1>6, <2>2
  <2> QED BY <1>2, <1>3, <2>1, <2>2
<1>8. \A i \in history : i.risk # None /\ new.risk # None /\ i.risk.at = new.risk.at => i.risk = new.risk
  <2> SUFFICES ASSUME NEW i \in history, i.risk # None, new.risk # None, i.risk.at = new.risk.at
               PROVE  i.risk = new.risk
    OBVIOUS
  <2>1. CASE new.risk = [at |-> now, score |-> m.score]  BY <1>1, <1>4, <2>1
  <2>2. CASE new.risk = latest.risk
    <3>1. PICK j \in history : j.risk = new.risk  BY <1>6, <2>2
    <3> QED BY <3>1 DEF HistoryOK
  <2> QED BY <1>2, <1>3, <2>1, <2>2
<1>9. \A i \in history' : i.at <= now /\ (i.risk # None => i.risk.at <= i.at)
  BY <1>1, <1>3, <1>4, <1>7
<1>10. \A i, j \in history' : i.at = j.at => i = j
  <2> SUFFICES ASSUME NEW i \in history', NEW j \in history', i.at = j.at PROVE i = j  OBVIOUS
  <2>1. CASE i \in history /\ j \in history  BY <2>1 DEF HistoryOK
  <2>2. CASE i = new /\ j \in history  BY <1>3, <1>1, <1>4, <2>2
  <2>3. CASE j = new /\ i \in history  BY <1>3, <1>1, <1>4, <2>3
  <2> QED BY <1>1, <2>1, <2>2, <2>3
<1>11. \A i, j \in history' :
         i.risk # None /\ j.risk # None /\ i.risk.at = j.risk.at => i.risk = j.risk
  <2> SUFFICES ASSUME NEW i \in history', NEW j \in history',
                      i.risk # None, j.risk # None, i.risk.at = j.risk.at
               PROVE  i.risk = j.risk
    OBVIOUS
  <2>1. CASE i \in history /\ j \in history  BY <2>1 DEF HistoryOK
  <2>2. CASE i = new /\ j \in history  BY <1>8, <2>2
  <2>3. CASE j = new /\ i \in history  BY <1>8, <2>3
  <2> QED BY <1>1, <2>1, <2>2, <2>3
<1>12. \E i \in history' : i.risk = latest'.risk  BY <1>1, <1>3
<1> QED BY <1>1, <1>2, <1>3, <1>4, <1>5, <1>9, <1>10, <1>11, <1>12 DEF HistoryOK

LEMMA StepProcess ==
  ASSUME HistoryOK, GraphOK, PageOK, NEW m \in Messages, Process(m)
  PROVE  IInv'
<1>1. HistoryOK'  BY ProcessHistory
<1>2. /\ graph' = graph /\ now' = now /\ now \in Nat /\ UNCHANGED <<joined, page>>
      /\ \A i \in history' \ history : i.at = now
      /\ history \subseteq history'
  BY DEF Process, HistoryOK, aggregator
<1>3. ASSUME NEW g \in graph
      PROVE  QueryHistory(history', g.start) = QueryHistory(history, g.start)
  <2>1. IsBucket(g.start) /\ g.start <= ClosedBucket(now) /\ g.start \in Int
    BY BucketType DEF GraphOK
  <2>2. BucketEnd(g.start) < now
    <3>1. IsBucket(ClosedBucket(now)) /\ BucketEnd(ClosedBucket(now)) < now
      BY <1>2, ClosedBucketFacts
    <3>2. ClosedBucket(now) \in Int  BY <3>1, BucketType
    <3> QED BY <1>2, <2>1, <3>1, <3>2, BucketAssumption DEF BucketEnd
  <2>3. BucketEnd(g.start) \in Int  BY <2>1, BucketType
  <2> QED BY <1>2, <2>2, <2>3 DEF QueryHistory
<1>4. GraphOK'  BY <1>2, <1>3, GraphStays
<1>5. PageOK'
  <2>1. \A g \in graph' : g.start \in Int  BY <1>2, GraphItems
  <2> QED BY <1>2, <1>3, <2>1, PageStays
<1> QED BY <1>1, <1>4, <1>5 DEF IInv

LEMMA StepTick ==
  ASSUME HistoryOK, GraphOK, PageOK, Tick
  PROVE  IInv'
<1>1. /\ now' = now + 1 /\ now \in Nat
      /\ UNCHANGED <<latest, history, graph, joined, page>>
  BY DEF Tick, HistoryOK, aggregator
<1>2. \A i \in history : i.at \in Nat  BY HistoryItems
<1>3. HistoryOK'  BY <1>1, <1>2 DEF HistoryOK
<1>4. GraphOK'  BY <1>1, GraphStays
<1>5. PageOK'
  <2>1. \A g \in graph' : g.start \in Int  BY <1>1, GraphItems
  <2> QED BY <1>1, <2>1, PageStays
<1> QED BY <1>3, <1>4, <1>5 DEF IInv

\* The bucket that is put is stored already, the same, or later than what is stored.
LEMMA StepPut ==
  ASSUME HistoryOK, GraphOK, PageOK, UNCHANGED <<stored, joined, page>>,
         graph' = Put(graph, AggregateGraphItem(history, ClosedBucket(now)))
  PROVE  IInv'
<1> DEFINE item == AggregateGraphItem(history, ClosedBucket(now))
<1>1. now' = now /\ history' = history /\ latest' = latest /\ now \in Nat
  BY DEF stored, HistoryOK
<1>2. item.start = ClosedBucket(now) /\ IsBucket(item.start) /\ item.start \in Int
  <2>1. item.start = ClosedBucket(now)  BY DEF AggregateGraphItem
  <2>2. IsBucket(ClosedBucket(now))  BY <1>1, ClosedBucketFacts
  <2> QED BY <2>1, <2>2, BucketType
<1>3. graph' = graph \cup {item}
  <2>1. \A g \in graph : g.start = item.start => g = item  BY <1>2 DEF GraphOK
  <2> QED BY <2>1 DEF Put
<1>4. HistoryOK'  BY <1>1 DEF HistoryOK
<1>5. item = AggregateGraphItem(history, item.start)  BY <1>2
<1> HIDE DEF item
<1>6. GraphOK'
  <2>1. IsFiniteSet(graph')  BY <1>3, FS_AddElement DEF GraphOK
  <2>2. \A g \in graph' : /\ IsBucket(g.start) /\ g.start <= ClosedBucket(now)
                          /\ g = AggregateGraphItem(history, g.start)
    BY <1>2, <1>3, <1>5 DEF GraphOK
  <2> QED BY <1>1, <2>1, <2>2 DEF GraphOK
<1>7. PageOK'
  <2>1. \A g \in graph : g.start \in Int  BY GraphItems
  <2>2. \A g \in graph' : g.start \in Int  BY <1>2, <1>3, <2>1
  <2>3. ASSUME NEW g \in graph' \ graph, NEW h \in graph PROVE BucketEnd(h.start) < g.start
    <3>1. g = item  BY <1>3, <2>3
    <3>2. h.start <= item.start /\ IsBucket(h.start)  BY <1>2 DEF GraphOK
    <3>3. h.start # item.start
      <4>1. h = AggregateGraphItem(history, h.start)  BY DEF GraphOK
      <4> QED BY <1>5, <2>3, <3>1, <4>1
    <3>4. h.start < item.start  BY <1>2, <2>1, <3>2, <3>3
    <3> QED BY <1>2, <3>1, <3>2, <3>4, BucketsApart
  <2> QED BY <1>1, <1>3, <2>2, <2>3, PageStays
<1> QED BY <1>4, <1>6, <1>7 DEF IInv

-----------------------------------------------------------------------------
(***************************************************************************)
(* The steps of the page.                                                  *)
(***************************************************************************)
LEMMA Listed ==
  ASSUME NEW n \in Nat, NEW s, s = [k \in 1..n |-> s[k]]
  PROVE  s \in Seq(ToSet(s)) /\ DOMAIN s = 1..n /\ Len(s) = n
<1>1. DOMAIN s = 1..n  OBVIOUS
<1>2. ToSet(s) = {s[k] : k \in 1..n}  BY <1>1 DEF ToSet
<1>3. \A k \in 1..n : s[k] \in ToSet(s)  BY <1>2
<1>4. s \in [1..n -> ToSet(s)]  BY <1>3
<1> QED BY <1>1, <1>4

LEMMA Removed ==
  ASSUME NEW s, s \in Seq(ToSet(s)), NEW k \in DOMAIN s
  PROVE  LET r == RemoveAt(s, k)
         IN  /\ r \in Seq(ToSet(r))
             /\ \A j \in DOMAIN r : \E i \in DOMAIN s : r[j] = s[i]
<1> DEFINE S == ToSet(s)
           n == Len(s)
           r == RemoveAt(s, k)
           a == SubSeq(s, 1, k - 1)
           b == SubSeq(s, k + 1, n)
<1>1. s \in Seq(S) /\ n \in Nat /\ DOMAIN s = 1..n /\ k \in 1..n /\ \A i \in 1..n : s[i] \in S
  BY LenProperties
<1> HIDE DEF S
<1>2. /\ a \in Seq(S) /\ Len(a) = k - 1 /\ \A i \in 1..(k - 1) : a[i] = s[i]
      /\ b \in Seq(S) /\ Len(b) = n - k /\ \A i \in 1..(n - k) : b[i] = s[k + i]
  <2>1. a \in Seq(S) /\ Len(a) = k - 1 /\ \A i \in 1..(k - 1) : a[i] = s[i]  BY <1>1
  <2>2. b \in Seq(S) /\ Len(b) = n - k  BY <1>1
  <2>3. \A i \in 1..(n - k) : b[i] = s[k + i]  BY <1>1
  <2> QED BY <2>1, <2>2, <2>3
<1>3. r = a \o b  BY DEF RemoveAt
<1> HIDE DEF a, b, r
<1>4. /\ r \in Seq(S) /\ Len(r) = n - 1
      /\ \A j \in 1..(n - 1) : r[j] = IF j <= k - 1 THEN a[j] ELSE b[j - (k - 1)]
  <2>1. k - 1 + (n - k) = n - 1  BY <1>1
  <2>2. /\ r \in Seq(S) /\ Len(r) = Len(a) + Len(b)
        /\ \A j \in 1..Len(r) : r[j] = IF j <= Len(a) THEN a[j] ELSE b[j - Len(a)]
    <3>1. a \in Seq(S) /\ b \in Seq(S)  BY <1>2
    <3>2. /\ a \o b \in Seq(S) /\ Len(a \o b) = Len(a) + Len(b)
          /\ \A j \in 1..Len(a) + Len(b) : (a \o b)[j] = IF j <= Len(a) THEN a[j] ELSE b[j - Len(a)]
      BY <3>1, ConcatProperties
    <3> QED BY <1>3, <3>2
  <2> QED BY <1>2, <2>1, <2>2
<1>5. r = [j \in 1..(n - 1) |-> r[j]] /\ DOMAIN r = 1..(n - 1)
  BY <1>1, <1>4, LenProperties
<1>6. \A j \in DOMAIN r : \E i \in DOMAIN s : r[j] = s[i]
  <2> SUFFICES ASSUME NEW j \in 1..(n - 1) PROVE \E i \in 1..n : r[j] = s[i]
    BY <1>1, <1>5
  <2>1. CASE j <= k - 1
    <3>1. r[j] = s[j]  BY <1>1, <1>2, <1>4, <2>1
    <3> QED BY <1>1, <3>1
  <2>2. CASE j > k - 1
    <3>1. j - (k - 1) \in 1..(n - k) /\ k + (j - (k - 1)) = j + 1 /\ j + 1 \in 1..n
      BY <1>1, <2>2
    <3>2. r[j] = b[j - (k - 1)]  BY <1>1, <1>4, <2>2
    <3>3. r[j] = s[j + 1]  BY <1>2, <3>1, <3>2
    <3> QED BY <3>1, <3>3
  <2> QED BY <1>1, <2>1, <2>2
<1>7. r \in Seq(ToSet(r))
  <2>1. n - 1 \in Nat  BY <1>1
  <2> QED BY <1>5, <2>1, Listed
<1> QED BY <1>6, <1>7 DEF r

LEMMA StepRemove ==
  ASSUME HistoryOK, GraphOK, PageOK, UNCHANGED <<stored, graph, joined>>,
         NEW k \in DOMAIN requests, requests' = RemoveAt(requests, k),
         PointsOK(chart'), PointsOK(cache')
  PROVE  IInv'
<1>1. now' = now /\ history' = history /\ latest' = latest /\ graph' = graph /\ joined' = joined
  BY DEF stored
<1>2. HistoryOK'  BY <1>1 DEF HistoryOK
<1>3. GraphOK'  BY <1>1 DEF GraphOK
<1>4. \A points : PointsOK(points) => PointsOK(points)'
  <2>1. \A g \in graph' : g.start \in Int  BY <1>1, GraphItems
  <2> QED BY <1>1, <2>1, PointsStay
<1>5. requests' \in Seq(ToSet(requests')) /\ \A j \in DOMAIN requests' : \E i \in DOMAIN requests : requests'[j] = requests[i]
  BY Removed DEF PageOK
<1>6. \A j \in DOMAIN requests' : RequestOK(requests'[j])
  BY <1>5 DEF PageOK
<1>7. (\A j \in DOMAIN requests : RequestOK(requests[j]))'
  <2>1. \A r : RequestOK(r) => RequestOK(r)'  BY <1>4 DEF RequestOK
  <2> QED BY <1>6, <2>1
<1>8. PointsOK(chart)' /\ PointsOK(cache)'
  BY <1>4
<1> QED BY <1>1, <1>2, <1>3, <1>5, <1>7, <1>8 DEF IInv, PageOK

LEMMA StepReceive ==
  ASSUME HistoryOK, GraphOK, PageOK, NEW k \in DOMAIN requests, Receive(k)
  PROVE  IInv'
<1> DEFINE r == requests[k]
           merged == IF r.since = NoSince THEN r.answer ELSE MergeHistoryItems(r.base, r.answer)
<1>1. RequestOK(r)  BY DEF PageOK
<1> HIDE DEF r
<1>2. PointsOK(merged)
  <2>1. CASE r.since = NoSince  BY <1>1, <2>1 DEF RequestOK
  <2>2. CASE r.since # NoSince
    <3>1. PointsOK(r.base \cup r.answer)  BY <1>1, <2>2 DEF RequestOK
    <3> QED BY <2>2, <3>1, MergedHistory
  <2> QED BY <2>1, <2>2
<1>3. /\ cache' = merged /\ chart' = (IF r.current THEN merged ELSE chart)
      /\ requests' = RemoveAt(requests, k)
      /\ UNCHANGED <<stored, graph, joined>>
  BY DEF Receive, r, aggregator
<1> HIDE DEF merged
<1>4. PointsOK(cache') /\ PointsOK(chart')  BY <1>2, <1>3 DEF PageOK
<1> QED BY <1>3, <1>4, StepRemove

LEMMA StepRequestFails ==
  ASSUME HistoryOK, GraphOK, PageOK, NEW k \in DOMAIN requests, RequestFails(k)
  PROVE  IInv'
<1>1. /\ cache' = cache /\ chart' = chart /\ requests' = RemoveAt(requests, k)
      /\ UNCHANGED <<stored, graph, joined>>
  BY DEF RequestFails, aggregator
<1>2. PointsOK(cache') /\ PointsOK(chart')  BY <1>1 DEF PageOK
<1> QED BY <1>1, <1>2, StepRemove

LEMMA StepLoad ==
  ASSUME HistoryOK, GraphOK, PageOK, Load
  PROVE  IInv'
<1> DEFINE since == LatestTimestamp(cache)
           answer == GraphHistory(graph, joined, since, Oldest)
           new == [base |-> cache, since |-> since, current |-> TRUE, answer |-> answer]
           old == [k \in DOMAIN requests |-> [requests[k] EXCEPT !.current = FALSE]]
           n == Len(requests)
<1>1. /\ requests' = Append(old, new)
      /\ UNCHANGED <<now, latest, history, graph, joined, chart, cache>>
  BY DEF Load, stored, aggregator
<1>2. joined \in {1, 2, 4} /\ PointsOK(cache) /\ PointsOK(chart) /\ requests \in Seq(ToSet(requests))
      /\ \A k \in DOMAIN requests : RequestOK(requests[k])
  BY DEF PageOK
<1>3. Oldest \in Int
  BY BoundsAssumption DEF Oldest, HistoryOK
<1>4. since \in Int
  BY <1>2, LatestFacts DEF PointsOK
<1>5. RequestOK(new)
  <2>1. PointsOK(answer)
    <3> HIDE DEF since
    <3> QED BY <1>2, <1>3, <1>4, AnswerFacts
  <2>2. since # NoSince => PointsOK(cache \cup answer)
    BY <1>2, <1>3, MergeFacts
  <2> HIDE DEF since, answer
  <2> QED BY <2>1, <2>2 DEF RequestOK
<1> HIDE DEF new
<1>6. n \in Nat /\ DOMAIN requests = 1..n
  BY <1>2, LenProperties
<1>7. \A k \in 1..n : RequestOK(old[k])
  BY <1>2, <1>6 DEF RequestOK
<1>8. old \in Seq(ToSet(old)) /\ Len(old) = n
  <2>1. old = [k \in 1..n |-> old[k]]  BY <1>6
  <2> HIDE DEF old, n
  <2> QED BY <1>6, <2>1, Listed
<1> HIDE DEF old, n
<1>9. /\ DOMAIN requests' = 1..(n + 1)
      /\ \A k \in 1..(n + 1) : requests'[k] = IF k <= n THEN old[k] ELSE new
      /\ requests' = [k \in 1..(n + 1) |-> requests'[k]]
  <2> DEFINE V == ToSet(old) \cup {new}
  <2>1. old \in Seq(V) /\ new \in V  BY <1>6, <1>8
  <2> HIDE DEF V
  <2>2. /\ Append(old, new) \in Seq(V) /\ Len(Append(old, new)) = n + 1
        /\ \A k \in 1..n : Append(old, new)[k] = old[k]
        /\ Append(old, new)[n + 1] = new
    BY <1>6, <1>8, <2>1, AppendProperties
  <2>3. DOMAIN Append(old, new) = 1..(n + 1)  BY <2>2, LenProperties
  <2>4. \A k \in 1..(n + 1) : Append(old, new)[k] = IF k <= n THEN old[k] ELSE new
    BY <1>6, <2>2
  <2>5. Append(old, new) = [k \in 1..(n + 1) |-> Append(old, new)[k]]
    BY <2>2, <2>3, LenProperties
  <2> QED BY <1>1, <2>3, <2>4, <2>5
<1>10. \A k \in DOMAIN requests' : RequestOK(requests'[k])
  BY <1>5, <1>6, <1>7, <1>9
<1>11. requests' \in Seq(ToSet(requests'))
  <2>1. n + 1 \in Nat  BY <1>6
  <2> QED BY <1>9, <2>1, Listed
<1>12. \A points : PointsOK(points) => PointsOK(points)'
  <2>1. \A g \in graph' : g.start \in Int  BY <1>1, GraphItems
  <2> QED BY <1>1, <2>1, PointsStay
<1>13. (\A k \in DOMAIN requests : RequestOK(requests[k]))'
  <2>1. \A r : RequestOK(r) => RequestOK(r)'  BY <1>12 DEF RequestOK
  <2> QED BY <1>10, <2>1
<1>14. HistoryOK' /\ GraphOK'
  BY <1>1 DEF HistoryOK, GraphOK
<1> QED BY <1>1, <1>2, <1>11, <1>12, <1>13, <1>14 DEF IInv, PageOK

-----------------------------------------------------------------------------
\* What is stored, and what the page shows or waits for, is always as it should be.
LEMMA InitOK ==
  ASSUME Init
  PROVE  IInv
<1>1. HistoryOK
  BY FS_EmptySet DEF Init, HistoryOK, ObservationType, RiskType, None
<1>2. GraphOK
  BY FS_EmptySet DEF Init, GraphOK
<1>3. PointsOK({})
  BY DEF PointsOK, Disjoint, Gapless
<1>4. requests \in Seq(ToSet(requests)) /\ DOMAIN requests = {}
  BY DEF Init
<1> QED BY <1>1, <1>2, <1>3, <1>4, WindowsAssumption DEF Init, IInv, PageOK

LEMMA StepOK ==
  ASSUME IInv, [Next]_vars
  PROVE  IInv'
<1>1. HistoryOK /\ GraphOK /\ PageOK
  BY DEF IInv
<1>2. ASSUME NEW m \in Messages, Process(m) PROVE IInv'
  BY <1>1, <1>2, StepProcess
<1>3. CASE Tick
  BY <1>1, <1>3, StepTick
<1>4. ASSUME UNCHANGED <<stored, graph, joined, page>> PROVE IInv'
  <2>1. UNCHANGED <<now, latest, history, graph, joined, page>>  BY <1>4 DEF stored
  <2>2. HistoryOK' /\ GraphOK'  BY <1>1, <2>1 DEF HistoryOK, GraphOK
  <2>3. \A g \in graph' : g.start \in Int  BY <1>1, <2>1, GraphItems
  <2>4. PageOK'  BY <1>1, <2>1, <2>3, PageStays
  <2> QED BY <2>2, <2>4 DEF IInv
<1>5. CASE Invoke
  BY <1>4, <1>5 DEF Invoke
<1>6. ASSUME NEW i, Aggregate(i) PROVE IInv'
  BY <1>1, <1>6, StepPut DEF Aggregate
<1>7. ASSUME NEW i, AggregateFails(i) PROVE IInv'
  <2>1. CASE graph' = graph
    BY <1>4, <1>7, <2>1 DEF AggregateFails
  <2>2. CASE graph' = Put(graph, AggregateGraphItem(history, ClosedBucket(now)))
    BY <1>1, <1>7, <2>2, StepPut DEF AggregateFails
  <2> QED BY <1>7, <2>1, <2>2 DEF AggregateFails
<1>8. CASE Load
  BY <1>1, <1>8, StepLoad
<1>9. ASSUME NEW k, Receive(k) PROVE IInv'
  <2>1. k \in DOMAIN requests  BY <1>9 DEF Receive
  <2> QED BY <1>1, <1>9, <2>1, StepReceive
<1>10. ASSUME NEW k, RequestFails(k) PROVE IInv'
  <2>1. k \in DOMAIN requests  BY <1>10 DEF RequestFails
  <2> QED BY <1>1, <1>10, <2>1, StepRequestFails
<1>11. CASE UNCHANGED vars
  BY <1>4, <1>11 DEF vars, aggregator
<1> QED BY <1>2, <1>3, <1>5, <1>6, <1>7, <1>8, <1>9, <1>10, <1>11 DEF Next, Lambda, Page

THEOREM Invariance == Spec => []IInv
<1>1. Init => IInv  BY InitOK
<1>2. IInv /\ [Next]_vars => IInv'  BY StepOK
<1> QED BY <1>1, <1>2, PTL DEF Spec

\* However often the window is refreshed, whatever fails and in whatever order
\* answers come, no bucket is drawn twice.
THEOREM BucketsDrawnOnce == Spec => []PointsDisjoint
<1>1. IInv => PointsDisjoint
  BY DEF IInv, PageOK, PointsOK, Disjoint, PointsDisjoint
<1> QED BY <1>1, Invariance, PTL

\* The mean of every point, of averages weighed by what they count, is between
\* its least and its greatest value.
THEOREM MeansInRange == Spec => []AverageInRange
<1>1. IInv => AverageInRange
  BY DEF IInv, PageOK, PointsOK, PointOK, InRange, AverageInRange
<1> QED BY <1>1, Invariance, PTL

\* The range of a point reaches to every risk that was stored in its buckets
\* after their first second.
THEOREM RangesReachSpikes == Spec => []SpikesShown
<1>1. IInv => SpikesShown
  BY DEF IInv, PageOK, PointsOK, PointOK, Reaches, Covered, SpikesShown
<1> QED BY <1>1, Invariance, PTL

\* A page of the shortest window never misses a stored bucket between two of
\* its points, although it only asks for what is newer than the last.
THEOREM RefreshesLeaveNoGap == Spec => []NothingSkipped
<1>1. IInv => NothingSkipped
  BY DEF IInv, PageOK, PointsOK, Gapless, NothingSkipped
<1> QED BY <1>1, Invariance, PTL

-----------------------------------------------------------------------------
(***************************************************************************)
(* What a bucket counts of a metric are the times of observations in it.   *)
(***************************************************************************)
LEMMA ReadingsCounted ==
  ASSUME NEW R, IsFiniteSet(R), R \subseteq ReadingType,
         \A q, r \in R : q.item = r.item => q = r,
         NEW A, IsFiniteSet(A), \A r \in R : r.at \in A
  PROVE  /\ Counted(Summary(Once(R))) \in Nat
         /\ Counted(Summary(Once(R))) <= Cardinality(A)
<1> DEFINE O == Once(R)
           f == [r \in O |-> r.at]
<1>1. O \subseteq R /\ IsFiniteSet(O) /\ \A q, r \in O : q.at = r.at => q.item = r.item
  BY OnceFacts
<1>2. Cardinality(O) <= Cardinality(A)
  <2>1. f \in [O -> A]  BY <1>1
  <2>2. \A q, r \in O : f[q] = f[r] => q = r
    <3> SUFFICES ASSUME NEW q \in O, NEW r \in O, f[q] = f[r] PROVE q = r  OBVIOUS
    <3>1. q.at = r.at  OBVIOUS
    <3> HIDE DEF O, f
    <3> QED BY <1>1, <3>1
  <2>3. f \in Injection(O, A)
    <3> HIDE DEF O, f
    <3> QED BY <2>1, <2>2 DEF Injection, IsInjective
  <2> HIDE DEF O, f
  <2> QED BY <2>3, FS_Injection
<1>3. Cardinality(O) \in Nat /\ Cardinality(A) \in Nat
  <2> HIDE DEF O
  <2> QED BY <1>1, FS_CardinalityType
<1>4. Summary(O) # None => Summary(O).count = Cardinality(O)
  BY OnceSummary
<1> HIDE DEF O
<1>5. Counted(Summary(O)) \in {0, Cardinality(O)}
  BY <1>4 DEF Counted
<1>6. Counted(Summary(O)) \in Nat /\ Counted(Summary(O)) <= Cardinality(A)
  BY <1>2, <1>3, <1>5
<1> QED BY <1>6 DEF O

\* Buckets are disjoint, so what they count of a set of times is at most that set.
LEMMA BucketsCount ==
  ASSUME HistoryOK, GraphOK, NEW U, IsFiniteSet(U), U \subseteq Int, NEW c, DOMAIN c = graph,
         \A g \in graph : /\ c[g] \in Nat
                          /\ c[g] <= Cardinality({t \in U : TimestampInBucket(t, g.start)})
  PROVE  Sum(c) <= Cardinality(U)
<1> DEFINE A == [g \in graph |-> {t \in U : TimestampInBucket(t, g.start)}]
<1>1. \A g \in graph : A[g] = {t \in U : TimestampInBucket(t, g.start)} /\ A[g] \in SUBSET U
  OBVIOUS
<1>2. \A g \in graph : IsFiniteSet(A[g])
  <2> HIDE DEF A
  <2> QED BY <1>1, FS_Subset
<1>3. \A g, h \in graph : g # h => A[g] \cap A[h] = {}
  <2> SUFFICES ASSUME NEW g \in graph, NEW h \in graph, g # h, NEW t \in A[g], t \in A[h]
               PROVE  FALSE
    BY <1>1
  <2>1. /\ t \in Int /\ g.start <= t /\ t <= BucketEnd(g.start)
        /\ h.start <= t /\ t <= BucketEnd(h.start)
    BY <1>1 DEF TimestampInBucket
  <2>2. g.start \in Int /\ h.start \in Int /\ BucketEnd(g.start) \in Int /\ BucketEnd(h.start) \in Int
    BY GraphItems, BucketType
  <2>3. g.start # h.start  BY DEF GraphOK
  <2>4. g.start < h.start \/ h.start < g.start  BY <2>2, <2>3
  <2>5. BucketEnd(g.start) < h.start \/ BucketEnd(h.start) < g.start  BY <2>4, GraphItems
  <2> QED BY <2>1, <2>2, <2>5
<1>4. IsFiniteSet(graph)  BY DEF GraphOK
<1> HIDE DEF A
<1> QED BY <1>1, <1>2, <1>3, <1>4, SumOfParts

\* The sums over the buckets of a chart, of each metric that is observed.
LEMMA SensorsCountedOnce ==
  ASSUME HistoryOK, GraphOK
  PROVE  Sum([g \in graph |-> Counted(g.sensor)])
           <= Cardinality({i.factory.at : i \in {j \in history : j.factory # None}})
<1> DEFINE H == {j \in history : j.factory # None}
           f == [i \in H |-> i.factory.at]
           U == {f[i] : i \in H}
           c == [g \in graph |-> Counted(g.sensor)]
<1>1. H \in SUBSET history /\ IsFiniteSet(history)  BY DEF HistoryOK
<1>2. IsFiniteSet(U)
  <2>1. IsFiniteSet(H) /\ DOMAIN f = H  BY <1>1, FS_Subset
  <2> HIDE DEF H, f
  <2> QED BY <2>1, ImageFinite
<1>3. U \subseteq Int  BY HistoryItems
<1>4. \A i \in H : i.factory.at \in U
  <2>1. \A i \in H : f[i] = i.factory.at  OBVIOUS
  <2> HIDE DEF f
  <2> QED BY <2>1
<1>5. ASSUME NEW g \in graph
      PROVE  /\ Counted(g.sensor) \in Nat
             /\ Counted(g.sensor) <= Cardinality({t \in U : TimestampInBucket(t, g.start)})
  <2> DEFINE items == QueryHistory(history, g.start)
             R == FactoryReadings(items, g.start)
             A == {t \in U : TimestampInBucket(t, g.start)}
  <2>1. g.sensor = Summary(Once(R))
    <3>1. g = AggregateGraphItem(history, g.start)  BY DEF GraphOK
    <3> QED BY <3>1 DEF AggregateGraphItem
  <2>2. IsFiniteSet(R) /\ R \subseteq ReadingType  BY FactoryReadingFacts
  <2>3. items \subseteq history  BY QueryFinite
  <2>4. \A r \in R : \E i \in items : /\ i.factory # None /\ TimestampInBucket(FactoryAt(i), g.start)
                                     /\ r = Reading(FactoryAt(i), i.factory.value, i)
    BY DEF FactoryReadings
  <2>5. \A q, r \in R : q.item = r.item => q = r
    <3> SUFFICES ASSUME NEW q \in R, NEW r \in R, q.item = r.item PROVE q = r  OBVIOUS
    <3>1. PICK i \in items : q = Reading(FactoryAt(i), i.factory.value, i)  BY <2>4
    <3>2. PICK j \in items : r = Reading(FactoryAt(j), j.factory.value, j)  BY <2>4
    <3>3. i.at = j.at  BY <3>1, <3>2 DEF Reading
    <3>4. i = j  BY <2>3, <3>3 DEF HistoryOK
    <3> QED BY <3>1, <3>2, <3>4
  <2>6. \A r \in R : r.at \in A
    <3> SUFFICES ASSUME NEW r \in R PROVE r.at \in A  OBVIOUS
    <3>1. PICK i \in items : /\ i.factory # None /\ TimestampInBucket(FactoryAt(i), g.start)
                             /\ r = Reading(FactoryAt(i), i.factory.value, i)
      BY <2>4
    <3>2. r.at = i.factory.at /\ TimestampInBucket(r.at, g.start)
      BY <3>1 DEF Reading, FactoryAt
    <3>3. i \in H  BY <2>3, <3>1
    <3> HIDE DEF H, U
    <3> QED BY <1>4, <3>2, <3>3
  <2>7. IsFiniteSet(A)
    <3>1. A \in SUBSET U  OBVIOUS
    <3> HIDE DEF U, A
    <3> QED BY <1>2, <3>1, FS_Subset
  <2> HIDE DEF R, U
  <2> QED BY <2>1, <2>2, <2>5, <2>6, <2>7, ReadingsCounted
<1>6. DOMAIN c = graph /\ \A g \in graph : c[g] = Counted(g.sensor)  OBVIOUS
<1>7. U = {i.factory.at : i \in H}  OBVIOUS
<1> HIDE DEF c, U, H
<1>8. Sum(c) <= Cardinality(U)
  BY <1>2, <1>3, <1>5, <1>6, BucketsCount
<1> QED BY <1>7, <1>8 DEF c, H

LEMMA InfraCountedOnce ==
  ASSUME HistoryOK, GraphOK
  PROVE  Sum([g \in graph |-> Counted(g.infra)])
           <= Cardinality({i.infra.at : i \in {j \in history : j.infra # None}})
<1> DEFINE H == {j \in history : j.infra # None}
           f == [i \in H |-> i.infra.at]
           U == {f[i] : i \in H}
           c == [g \in graph |-> Counted(g.infra)]
<1>1. H \in SUBSET history /\ IsFiniteSet(history)  BY DEF HistoryOK
<1>2. IsFiniteSet(U)
  <2>1. IsFiniteSet(H) /\ DOMAIN f = H  BY <1>1, FS_Subset
  <2> HIDE DEF H, f
  <2> QED BY <2>1, ImageFinite
<1>3. U \subseteq Int  BY HistoryItems
<1>4. \A i \in H : i.infra.at \in U
  <2>1. \A i \in H : f[i] = i.infra.at  OBVIOUS
  <2> HIDE DEF f
  <2> QED BY <2>1
<1>5. ASSUME NEW g \in graph
      PROVE  /\ Counted(g.infra) \in Nat
             /\ Counted(g.infra) <= Cardinality({t \in U : TimestampInBucket(t, g.start)})
  <2> DEFINE items == QueryHistory(history, g.start)
             R == InfraReadings(items, g.start)
             A == {t \in U : TimestampInBucket(t, g.start)}
  <2>1. g.infra = Summary(Once(R))
    <3>1. g = AggregateGraphItem(history, g.start)  BY DEF GraphOK
    <3> QED BY <3>1 DEF AggregateGraphItem
  <2>2. IsFiniteSet(R) /\ R \subseteq ReadingType  BY InfraReadingFacts
  <2>3. items \subseteq history  BY QueryFinite
  <2>4. \A r \in R : \E i \in items : /\ i.infra # None /\ TimestampInBucket(InfraAt(i), g.start)
                                     /\ r = Reading(InfraAt(i), i.infra.value, i)
    BY DEF InfraReadings
  <2>5. \A q, r \in R : q.item = r.item => q = r
    <3> SUFFICES ASSUME NEW q \in R, NEW r \in R, q.item = r.item PROVE q = r  OBVIOUS
    <3>1. PICK i \in items : q = Reading(InfraAt(i), i.infra.value, i)  BY <2>4
    <3>2. PICK j \in items : r = Reading(InfraAt(j), j.infra.value, j)  BY <2>4
    <3>3. i.at = j.at  BY <3>1, <3>2 DEF Reading
    <3>4. i = j  BY <2>3, <3>3 DEF HistoryOK
    <3> QED BY <3>1, <3>2, <3>4
  <2>6. \A r \in R : r.at \in A
    <3> SUFFICES ASSUME NEW r \in R PROVE r.at \in A  OBVIOUS
    <3>1. PICK i \in items : /\ i.infra # None /\ TimestampInBucket(InfraAt(i), g.start)
                             /\ r = Reading(InfraAt(i), i.infra.value, i)
      BY <2>4
    <3>2. r.at = i.infra.at /\ TimestampInBucket(r.at, g.start)
      BY <3>1 DEF Reading, InfraAt
    <3>3. i \in H  BY <2>3, <3>1
    <3> HIDE DEF H, U
    <3> QED BY <1>4, <3>2, <3>3
  <2>7. IsFiniteSet(A)
    <3>1. A \in SUBSET U  OBVIOUS
    <3> HIDE DEF U, A
    <3> QED BY <1>2, <3>1, FS_Subset
  <2> HIDE DEF R, U
  <2> QED BY <2>1, <2>2, <2>5, <2>6, <2>7, ReadingsCounted
<1>6. DOMAIN c = graph /\ \A g \in graph : c[g] = Counted(g.infra)  OBVIOUS
<1>7. U = {i.infra.at : i \in H}  OBVIOUS
<1> HIDE DEF c, U, H
<1>8. Sum(c) <= Cardinality(U)
  BY <1>2, <1>3, <1>5, <1>6, BucketsCount
<1> QED BY <1>7, <1>8 DEF c, H

\* Although an item repeats the observations before it, and an aggregation may
\* be repeated, charts count no observation twice, in one bucket or in two.
THEOREM ObservationsCountedOnce == Spec => []CountedOnce
<1>1. IInv => CountedOnce
  BY SensorsCountedOnce, InfraCountedOnce DEF IInv, CountedOnce
<1> QED BY <1>1, Invariance, PTL
=============================================================================
