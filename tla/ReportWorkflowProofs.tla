------------------------- MODULE ReportWorkflowProofs -------------------------
(***************************************************************************)
(* Proofs about ReportWorkflow, for every day of well-formed records,      *)
(* however long, with any number of late records, executions and failing   *)
(* tasks.  The inductive invariant traces every file to the records it was *)
(* made of: an hour's summary is of a set of records between those of the  *)
(* execution's start and those of now, and each hour may have read another.*)
(* What the properties say follows from that and from facts about the      *)
(* pure functions of ReportEvents, FactoryReport and CloudReport.          *)
(***************************************************************************)
EXTENDS ReportWorkflow, TLAPS, FiniteSetTheorems, SequenceTheorems, WellFoundedInduction

(* Lists, sums and maxima: folds and recursive functions, unfolded. *)

\* Induction over the natural numbers, for a set instead of a predicate.
LEMMA Induction ==
  ASSUME NEW S, 0 \in S, \A n \in Nat : n \in S => n + 1 \in S
  PROVE  Nat \subseteq S
<1> DEFINE R == OpToRel(<, Nat)
           T == Nat \ S
<1> SUFFICES ASSUME T # {} PROVE FALSE  OBVIOUS
<1>1. PICK n \in T : \A m \in T : ~ (<<m, n>> \in R)
  <2>1. IsWellFoundedOn(R, Nat)  BY NatLessThanWellFounded
  <2>2. T \subseteq Nat /\ T # {}  OBVIOUS
  <2> HIDE DEF R, T
  <2> QED BY <2>1, <2>2, WFMin
<1>2. \A m \in T : ~ (m < n)  BY <1>1 DEF OpToRel
<1>3. n # 0 /\ n - 1 \in Nat  OBVIOUS
<1>4. n - 1 \in S  BY <1>2, <1>3
<1> QED BY <1>3, <1>4

-----------------------------------------------------------------------------
\* A function on 1..n is a list.
LEMMA ListOf ==
  ASSUME NEW n \in Nat, NEW S, NEW f \in [1..n -> S]
  PROVE  f \in Seq(S) /\ Len(f) = n /\ DOMAIN f = 1..n /\ << >> \o f = f
OBVIOUS

\* What a list is made of.
LEMMA PartsOf ==
  ASSUME NEW S, NEW s \in Seq(S)
  PROVE  /\ Len(s) \in Nat /\ DOMAIN s = 1..Len(s)
         /\ s \in [1..Len(s) -> S]
         /\ \A k \in 1..Len(s) : s[k] \in S
         /\ s = << >> <=> Len(s) = 0
OBVIOUS

\* Two lists, one after the other.
LEMMA Both ==
  ASSUME NEW S, NEW s \in Seq(S), NEW t \in Seq(S)
  PROVE  /\ s \o t \in Seq(S) /\ Len(s \o t) = Len(s) + Len(t)
         /\ \A k \in 1..Len(s) : (s \o t)[k] = s[k]
         /\ \A k \in 1..Len(t) : (s \o t)[Len(s) + k] = t[k]
<1>1. Len(s) \in Nat /\ Len(t) \in Nat  OBVIOUS
<1>2. Len(s \o t) = Len(s) + Len(t) /\ s \o t \in Seq(S)  OBVIOUS
<1>3. \A k \in 1..(Len(s) + Len(t)) :
        (s \o t)[k] = IF k <= Len(s) THEN s[k] ELSE t[k - Len(s)]
  BY ConcatProperties
<1> QED BY <1>1, <1>2, <1>3

\* c holds the beginnings of the lists of s, joined.
Beginnings(c, s, S, n) ==
  /\ c \in [0..n -> Seq(S)]
  /\ c[0] = << >>
  /\ \A k \in 1..n : c[k] = c[k - 1] \o s[k]

\* What FlattenSeq() has joined after each of its lists.
LEMMA BeginningsExist ==
  ASSUME NEW S, NEW s \in Seq(Seq(S))
  PROVE  \A n \in Nat : n <= Len(s) => \E c : Beginnings(c, s, S, n)
<1> DEFINE P == {n \in Nat : n <= Len(s) => \E c : Beginnings(c, s, S, n)}
<1>1. 0 \in P
  <2> DEFINE c == [k \in 0..0 |-> << >>]
  <2>1. c[0] = << >> /\ c \in [0..0 -> Seq(S)]  OBVIOUS
  <2> HIDE DEF c
  <2>2. Beginnings(c, s, S, 0)  BY <2>1 DEF Beginnings
  <2> QED BY <2>2
<1>2. \A n \in Nat : n \in P => n + 1 \in P
  <2> SUFFICES ASSUME NEW n \in Nat, n \in P PROVE n + 1 \in P  OBVIOUS
  <2> SUFFICES ASSUME n + 1 <= Len(s) PROVE \E c : Beginnings(c, s, S, n + 1)
    OBVIOUS
  <2>0. Len(s) \in Nat  BY PartsOf
  <2>1. PICK c : Beginnings(c, s, S, n)  BY <2>0
  <2>2. s[n + 1] \in Seq(S)  BY <2>0, PartsOf
  <2>3. c[n] \in Seq(S)  BY <2>1 DEF Beginnings
  <2> DEFINE w == c[n] \o s[n + 1]
             d == [k \in 0..(n + 1) |-> IF k <= n THEN c[k] ELSE w]
  <2>4. w \in Seq(S)  BY <2>2, <2>3, Both
  <2> HIDE DEF w
  <2>5. d \in [0..(n + 1) -> Seq(S)]  BY <2>1, <2>4 DEF Beginnings
  <2>6. d[n + 1] = w /\ \A k \in 0..n : d[k] = c[k]  OBVIOUS
  <2> HIDE DEF d
  <2>7. ASSUME NEW k \in 1..n PROVE d[k] = d[k - 1] \o s[k]
    <3>1. k \in 0..n /\ k - 1 \in 0..n  OBVIOUS
    <3>2. c[k] = c[k - 1] \o s[k]  BY <2>1 DEF Beginnings
    <3>3. d[k] = c[k] /\ d[k - 1] = c[k - 1]  BY <2>6, <3>1
    <3> QED BY <3>2, <3>3
  <2>8. d[n + 1] = d[(n + 1) - 1] \o s[n + 1]
    <3>1. (n + 1) - 1 = n /\ n \in 0..n  OBVIOUS
    <3>2. d[n] = c[n]  BY <2>6, <3>1
    <3> QED BY <2>6, <3>1, <3>2 DEF w
  <2>9. d[0] = << >>  BY <2>1, <2>6 DEF Beginnings
  <2>10. \A k \in 1..(n + 1) : k \in 1..n \/ k = n + 1  OBVIOUS
  <2>11. Beginnings(d, s, S, n + 1)  BY <2>5, <2>7, <2>8, <2>9, <2>10 DEF Beginnings
  <2> QED BY <2>11
<1> HIDE DEF P
<1>3. Nat \subseteq P  BY <1>1, <1>2, Induction
<1> QED BY <1>3 DEF P

\* FlattenSeq joins them all.
LEMMA FlattenIs ==
  ASSUME NEW S, NEW s \in Seq(Seq(S))
  PROVE  \E c : Beginnings(c, s, S, Len(s)) /\ FlattenSeq(s) = c[Len(s)]
<1> DEFINE n == Len(s)
<1>0. n \in Nat  BY PartsOf
<1>1. PICK c : Beginnings(c, s, S, n)  BY <1>0, BeginningsExist
<1>2. CASE n = 0
  <2>1. s = << >>  BY <1>2, PartsOf
  <2>2. FlattenSeq(s) = s  BY <1>2 DEF FlattenSeq
  <2>3. c[n] = << >>  BY <1>1, <1>2 DEF Beginnings
  <2> QED BY <1>1, <2>1, <2>2, <2>3
<1>3. CASE n # 0
  <2> DEFINE Body(f) == [i \in 1..n |-> IF i = 1 THEN s[i] ELSE f[i - 1] \o s[i]]
             g == [i \in 1..n |-> c[i]]
             flat == CHOOSE f : f = Body(f)
  <2>1. FlattenSeq(s) = flat[n]  BY <1>3 DEF FlattenSeq
  <2>2. \A i \in 1..n : g[i] = IF i = 1 THEN s[i] ELSE g[i - 1] \o s[i]
    <3> SUFFICES ASSUME NEW i \in 1..n
                 PROVE  g[i] = IF i = 1 THEN s[i] ELSE g[i - 1] \o s[i]
      OBVIOUS
    <3>1. c[i] = c[i - 1] \o s[i] /\ c[0] = << >>  BY <1>1 DEF Beginnings
    <3>2. g[i] = c[i]  OBVIOUS
    <3>3. CASE i = 1
      <4>1. s[1] \in Seq(S)  BY <3>3, PartsOf
      <4>2. << >> \o s[1] = s[1]  BY <4>1
      <4>3. i - 1 = 0  BY <3>3
      <4> QED BY <3>1, <3>2, <3>3, <4>2, <4>3
    <3>4. CASE i # 1
      <4>1. i - 1 \in 1..n  BY <1>0, <3>4
      <4>2. g[i - 1] = c[i - 1]  BY <4>1
      <4> QED BY <3>1, <3>2, <3>4, <4>2
    <3> QED BY <3>3, <3>4
  <2>3. g = Body(g)
    <3>1. g = [i \in 1..n |-> g[i]]  OBVIOUS
    <3> HIDE DEF g
    <3> QED BY <2>2, <3>1
  <2>4. flat = Body(flat)
    <3> HIDE DEF g
    <3> QED BY <2>3
  <2>5. \A i \in 1..n : flat[i] = IF i = 1 THEN s[i] ELSE flat[i - 1] \o s[i]
    <3> HIDE DEF flat
    <3> QED BY <2>4
  <2> HIDE DEF flat, Body, g
  <2> DEFINE P == {k \in Nat : k + 1 \in 1..n => flat[k + 1] = c[k + 1]}
  <2>6. c[1] = s[1]
    <3>0. 1 \in 1..n /\ 1 - 1 = 0  BY <1>0, <1>3
    <3>1. c[1] = c[1 - 1] \o s[1] /\ c[0] = << >>  BY <1>1, <3>0 DEF Beginnings
    <3>2. s[1] \in Seq(S)  BY <1>0, <1>3, PartsOf
    <3>3. << >> \o s[1] = s[1]  BY <3>2
    <3>4. c[1] = c[0] \o s[1]  BY <3>0, <3>1
    <3> QED BY <3>1, <3>3, <3>4
  <2>7. 0 \in P  BY <1>0, <1>3, <2>5, <2>6
  <2>8. \A k \in Nat : k \in P => k + 1 \in P
    <3> SUFFICES ASSUME NEW k \in Nat, k \in P PROVE k + 1 \in P  OBVIOUS
    <3> SUFFICES ASSUME (k + 1) + 1 \in 1..n
                 PROVE  flat[(k + 1) + 1] = c[(k + 1) + 1]
      OBVIOUS
    <3> DEFINE i == k + 2
    <3>1. i \in 1..n /\ i - 1 = k + 1 /\ i # 1 /\ k + 1 \in 1..n /\ (k + 1) + 1 = i  BY <1>0
    <3>2. flat[k + 1] = c[k + 1]  BY <3>1
    <3> HIDE DEF i
    <3>3. flat[i] = flat[k + 1] \o s[i]  BY <2>5, <3>1
    <3>4. c[i] = c[k + 1] \o s[i]  BY <1>1, <3>1 DEF Beginnings
    <3> QED BY <3>1, <3>2, <3>3, <3>4
  <2>9. n - 1 \in P
    <3> HIDE DEF P
    <3>1. Nat \subseteq P  BY <2>7, <2>8, Induction
    <3>2. n - 1 \in Nat  BY <1>0, <1>3
    <3> QED BY <3>1, <3>2
  <2>10. n - 1 + 1 = n /\ n \in 1..n  BY <1>0, <1>3
  <2>11. flat[n] = c[n]  BY <2>9, <2>10
  <2> QED BY <1>1, <2>1, <2>11
<1> QED BY <1>2, <1>3

\* Induction over the subsets of a finite set.
LEMMA FiniteInduction ==
  ASSUME NEW S, IsFiniteSet(S), NEW P, {} \in P,
         \A T \in SUBSET S : T # {} /\ (\A x \in T : T \ {x} \in P) => T \in P
  PROVE  \A T \in SUBSET S : T \in P
<1> DEFINE R == StrictSubsetOrdering(S)
           F == FiniteSubsetsOf(S)
           D == (SUBSET S) \ P
<1> SUFFICES ASSUME D # {} PROVE FALSE  OBVIOUS
<1>1. IsWellFoundedOn(R, F)  BY FS_StrictSubsetOrderingWellFounded
<1>2. D \subseteq F  BY FS_Subset DEF FiniteSubsetsOf
<1>3. PICK B \in D : \A C \in D : ~ (<<C, B>> \in R)
  <2> HIDE DEF R, F, D
  <2> QED BY <1>1, <1>2, WFMin
<1>4. \A x \in B : ~ (B \ {x} \in D)
  <2> SUFFICES ASSUME NEW x \in B, B \ {x} \in D PROVE FALSE  OBVIOUS
  <2>1. <<B \ {x}, B>> \in StrictSubsetOrdering(S)  BY DEF StrictSubsetOrdering
  <2> QED BY <1>3, <2>1
<1> QED BY <1>4

\* A finite set of numbers has a least and a greatest one.
LEMMA LeastAndGreatest ==
  ASSUME NEW S, IsFiniteSet(S), S \subseteq Int, S # {}
  PROVE  /\ Min(S) \in S /\ \A y \in S : Min(S) <= y
         /\ Max(S) \in S /\ \A y \in S : y <= Max(S)
<1> DEFINE Bounded(T) == /\ \E x \in T : \A y \in T : x <= y
                         /\ \E x \in T : \A y \in T : y <= x
           P == {T \in SUBSET S : T = {} \/ Bounded(T)}
<1>1. {} \in P  OBVIOUS
<1>2. \A T \in SUBSET S : T # {} /\ (\A x \in T : T \ {x} \in P) => T \in P
  <2> SUFFICES ASSUME NEW T \in SUBSET S, T # {}, \A x \in T : T \ {x} \in P
               PROVE  Bounded(T)
    OBVIOUS
  <2>1. PICK x \in T : TRUE  OBVIOUS
  <2>2. CASE T \ {x} = {}
    <3>1. \A y \in T : y = x  BY <2>2
    <3>2. x \in Int  OBVIOUS
    <3> QED BY <2>1, <3>1, <3>2
  <2>3. CASE T \ {x} # {}
    <3>1. Bounded(T \ {x})  BY <2>1, <2>3
    <3>2. PICK a \in T \ {x} : \A y \in T \ {x} : a <= y  BY <3>1
    <3>3. PICK b \in T \ {x} : \A y \in T \ {x} : y <= b  BY <3>1
    <3>4. x \in Int /\ a \in Int /\ b \in Int /\ T \subseteq Int  OBVIOUS
    <3>5. \E c \in T : \A y \in T : c <= y
      <4>1. CASE a <= x  BY <4>1, <3>2
      <4>2. CASE x <= a  BY <4>2, <3>2, <3>4
      <4> QED BY <3>4, <4>1, <4>2
    <3>6. \E c \in T : \A y \in T : y <= c
      <4>1. CASE x <= b  BY <4>1, <3>3
      <4>2. CASE b <= x  BY <4>2, <3>3, <3>4
      <4> QED BY <3>4, <4>1, <4>2
    <3> QED BY <3>5, <3>6
  <2> QED BY <2>2, <2>3
<1>3. S \in P
  <2> HIDE DEF P
  <2> QED BY <1>1, <1>2, FiniteInduction
<1> QED BY <1>3 DEF Min, Max

-----------------------------------------------------------------------------
\* rest takes one element from every set.
Removes(rest, S) == \A s \in SUBSET S : s # {} => \E x \in s : rest[s] = s \ {x}

\* f is the fold of step over the subsets of S.
Folds(f, S, V, base, rest, step) ==
  /\ f \in [SUBSET S -> V]
  /\ \A s \in SUBSET S : f[s] = IF s = {} THEN base ELSE step[<<s, f[rest[s]]>>]

\* A step that is total on the subsets has a fold: by induction over their size.
LEMMA FoldExists ==
  ASSUME NEW S, IsFiniteSet(S), NEW V, NEW base, base \in V, NEW rest, Removes(rest, S),
         NEW step, step \in [(SUBSET S) \X V -> V]
  PROVE  \E f : Folds(f, S, V, base, rest, step)
<1> DEFINE Small(n) == {s \in SUBSET S : Cardinality(s) <= n}
           Eq(f, s) == f[s] = IF s = {} THEN base ELSE step[<<s, f[rest[s]]>>]
           P == {n \in Nat : \E f \in [Small(n) -> V] : \A s \in Small(n) : Eq(f, s)}
<1>0. \A s \in SUBSET S : IsFiniteSet(s) /\ Cardinality(s) \in Nat
  BY FS_Subset, FS_CardinalityType
<1>1. 0 \in P
  <2>1. Small(0) = {{}}
    BY <1>0, FS_EmptySet
  <2>2. \A s \in Small(0) : Eq([s1 \in Small(0) |-> base], s)
    BY <2>1
  <2> QED BY <2>2
<1>2. \A n \in Nat : n \in P => n + 1 \in P
  <2> SUFFICES ASSUME NEW n \in Nat, n \in P PROVE n + 1 \in P  OBVIOUS
  <2>1. PICK f \in [Small(n) -> V] : \A s \in Small(n) : Eq(f, s)  OBVIOUS
  <2> DEFINE g == [s \in Small(n + 1) |-> IF s = {} THEN base ELSE step[<<s, f[rest[s]]>>]]
  <2>2. \A s \in Small(n + 1) : s # {} => rest[s] \in Small(n)
    <3> SUFFICES ASSUME NEW s \in Small(n + 1), s # {} PROVE rest[s] \in Small(n)  OBVIOUS
    <3>1. PICK x \in s : rest[s] = s \ {x}  BY DEF Removes
    <3>2. Cardinality(rest[s]) = Cardinality(s) - 1  BY <1>0, <3>1, FS_RemoveElement
    <3> QED BY <1>0, <3>1, <3>2
  <2>3. g \in [Small(n + 1) -> V]
    BY <2>2
  <2>4. \A s \in Small(n) : s \in Small(n + 1)
    BY <1>0
  <2>5. \A s \in Small(n) : g[s] = f[s]
    BY <2>1, <2>4
  <2>6. \A s \in Small(n + 1) : Eq(g, s)
    <3> SUFFICES ASSUME NEW s \in Small(n + 1) PROVE Eq(g, s)  OBVIOUS
    <3>1. g[s] = IF s = {} THEN base ELSE step[<<s, f[rest[s]]>>]  OBVIOUS
    <3>2. s # {} => g[rest[s]] = f[rest[s]]  BY <2>2, <2>5
    <3> HIDE DEF g
    <3> QED BY <3>1, <3>2
  <2>7. \E h \in [Small(n + 1) -> V] : \A s \in Small(n + 1) : Eq(h, s)
    <3> HIDE DEF g, Eq, Small
    <3> QED BY <2>3, <2>6
  <2> HIDE DEF Eq, Small
  <2> QED BY <2>7
<1>3. Cardinality(S) \in P
  <2> HIDE DEF P
  <2> QED BY <1>0, <1>1, <1>2, Induction
<1>4. Small(Cardinality(S)) = SUBSET S
  BY <1>0, FS_Subset
<1> QED BY <1>3, <1>4 DEF Folds

\* t holds what a fold over a list has made after each of its elements.
Steps(t, n, V, base, step) ==
  /\ t \in [0..n -> V]
  /\ t[0] = base
  /\ \A k \in 1..n : t[k] = step[<<k, t[k - 1]>>]

\* What a fold makes of a whole list.
Made(x, n, V, base, step) == \E t : Steps(t, n, V, base, step) /\ x = t[n]

\* f makes a set of places from the one without its greatest: for all that it
\* holds, or where what it makes of that one is as it should be.
StepFunction(f, n, V, base, step) ==
  /\ f \in [SUBSET (1..n) -> V]
  /\ \A s \in SUBSET (1..n) :
       f[s] = IF s = {} THEN base ELSE step[<<Max(s), f[s \ {Max(s)}]>>]
Stepwise(f, n, V, base, step) ==
  /\ f[{}] = base
  /\ \A s \in SUBSET (1..n) : s # {} /\ f[s \ {Max(s)}] \in V =>
       f[s] = step[<<Max(s), f[s \ {Max(s)}]>>]

\* The greatest of the places of a list.
LEMMA GreatestPlace ==
  ASSUME NEW n \in Nat, NEW s \in SUBSET (1..n), s # {}
  PROVE  Max(s) \in s /\ Max(s) \in 1..n /\ \A y \in s : y <= Max(s)
<1>1. IsFiniteSet(1..n)  BY FS_Interval
<1>2. s \subseteq Int  OBVIOUS
<1>3. IsFiniteSet(s)
  <2> DEFINE D == 1..n
  <2>1. s \in SUBSET D /\ IsFiniteSet(D)  BY <1>1
  <2> HIDE DEF D
  <2> QED BY <2>1, FS_Subset
<1> QED BY <1>2, <1>3, LeastAndGreatest

\* A fold's function exists when its step is total.
LEMMA StepsExist ==
  ASSUME NEW n \in Nat, NEW V, NEW base \in V, NEW step \in [(1..n) \X V -> V]
  PROVE  \E f : StepFunction(f, n, V, base, step)
<1> DEFINE D == 1..n
           rest == [s \in SUBSET D |-> s \ {Max(s)}]
           by == [q \in (SUBSET D) \X V |->
                    IF q[1] = {} THEN base ELSE step[<<Max(q[1]), q[2]>>]]
<1>1. IsFiniteSet(D)  BY FS_Interval
<1>2. \A s \in SUBSET D : s # {} => Max(s) \in s /\ Max(s) \in D  BY GreatestPlace
<1>3. by \in [(SUBSET D) \X V -> V]
  <2>1. ASSUME NEW q \in (SUBSET D) \X V, q[1] # {} PROVE step[<<Max(q[1]), q[2]>>] \in V
    <3>1. Max(q[1]) \in D /\ q[2] \in V  BY <1>2, <2>1
    <3> QED BY <3>1
  <2> QED BY <2>1
<1>4. Removes(rest, D)  BY <1>2 DEF Removes
<1>5. PICK f : Folds(f, D, V, base, rest, by)
  <2> HIDE DEF by, rest, D
  <2> QED BY <1>1, <1>3, <1>4, FoldExists
<1>6. ASSUME NEW s \in SUBSET D, s # {} PROVE f[s] = step[<<Max(s), f[s \ {Max(s)}]>>]
  <2>1. rest[s] = s \ {Max(s)} /\ rest[s] \in SUBSET D  OBVIOUS
  <2>2. <<s, f[rest[s]]>> \in (SUBSET D) \X V  BY <1>5, <2>1 DEF Folds
  <2>3. f[s] = by[<<s, f[rest[s]]>>]  BY <1>5, <1>6 DEF Folds
  <2>4. by[<<s, f[rest[s]]>>] = step[<<Max(s), f[rest[s]]>>]  BY <1>6, <2>2
  <2> QED BY <2>1, <2>3, <2>4
<1>7. f \in [SUBSET D -> V] /\ f[{}] = base  BY <1>5 DEF Folds
<1>8. StepFunction(f, n, V, base, step)  BY <1>6, <1>7 DEF StepFunction
<1> QED BY <1>8

\* From a fold over the sets of places to one step after the other.
LEMMA StepsUnfold ==
  ASSUME NEW n \in Nat, NEW V, NEW base \in V, NEW step \in [(1..n) \X V -> V],
         NEW i, Stepwise(i, n, V, base, step)
  PROVE  Made(i[1..n], n, V, base, step)
<1> DEFINE t == [k \in 0..n |-> i[1..k]]
<1>1. t[0] = base
  <2>1. 1..0 = {} /\ 0 \in 0..n  OBVIOUS
  <2> QED BY <2>1 DEF Stepwise
<1>2. ASSUME NEW k \in 1..n, t[k - 1] \in V PROVE t[k] = step[<<k, t[k - 1]>>]
  <2>1. 1..k \in SUBSET (1..n) /\ k \in 1..k /\ 1..k # {}  OBVIOUS
  <2>2. Max(1..k) = k
    <3> DEFINE s == 1..k
    <3>1. Max(s) \in s /\ \A y \in s : y <= Max(s)  BY <2>1, GreatestPlace
    <3> QED BY <2>1, <3>1
  <2>3. (1..k) \ {k} = 1..(k - 1)  OBVIOUS
  <2>4. k - 1 \in 0..n /\ k \in 0..n  OBVIOUS
  <2>5. t[k] = i[1..k] /\ t[k - 1] = i[1..(k - 1)]  BY <2>4
  <2> HIDE DEF t
  <2>6. (1..k) \ {Max(1..k)} = 1..(k - 1)  BY <2>2, <2>3
  <2> DEFINE s == 1..k
             r == 1..(k - 1)
  <2>7. s \in SUBSET (1..n) /\ s # {} /\ s \ {Max(s)} = r /\ Max(s) = k /\ i[r] \in V
    BY <1>2, <2>1, <2>2, <2>5, <2>6
  <2>8. t[k] = i[s] /\ t[k - 1] = i[r]  BY <2>5
  <2> HIDE DEF s, r
  <2>9. i[s] = step[<<Max(s), i[s \ {Max(s)}]>>]  BY <2>7 DEF Stepwise
  <2> QED BY <2>7, <2>8, <2>9
<1> DEFINE I == {k \in Nat : k \in 0..n => t[k] \in V}
<1>3. 0 \in I  BY <1>1
<1>4. \A k \in Nat : k \in I => k + 1 \in I
  <2> HIDE DEF t
  <2> SUFFICES ASSUME NEW k \in Nat, k \in I PROVE k + 1 \in I  OBVIOUS
  <2> SUFFICES ASSUME k + 1 \in 0..n PROVE t[k + 1] \in V  OBVIOUS
  <2>1. k \in 0..n /\ k + 1 \in 1..n /\ (k + 1) - 1 = k  OBVIOUS
  <2>2. t[k] \in V  BY <2>1
  <2>3. t[k + 1] = step[<<k + 1, t[k]>>]  BY <1>2, <2>1, <2>2
  <2> QED BY <2>1, <2>2, <2>3
<1>5. Nat \subseteq I
  <2> HIDE DEF I
  <2> QED BY <1>3, <1>4, Induction
<1>6. \A k \in 0..n : t[k] \in V
  <2> HIDE DEF t
  <2>1. \A k \in 0..n : k \in Nat /\ k \in I  BY <1>5
  <2> QED BY <2>1
<1>7. t \in [0..n -> V]  BY <1>6
<1>8. i[1..n] = t[n]  OBVIOUS
<1> HIDE DEF t, I
<1>9. \A k \in 1..n : k - 1 \in 0..n  OBVIOUS
<1>10. Steps(t, n, V, base, step)  BY <1>1, <1>2, <1>6, <1>7, <1>9 DEF Steps
<1> QED BY <1>8, <1>10 DEF Made

\* What holds at first and is kept by every step holds at the end.
LEMMA StepsKeep ==
  ASSUME NEW n \in Nat, NEW V, NEW base, NEW step, NEW x, Made(x, n, V, base, step),
         NEW G, base \in G, \A k \in 1..n : \A v \in V \cap G : step[<<k, v>>] \in G
  PROVE  x \in V /\ x \in G
<1>00. PICK t : Steps(t, n, V, base, step) /\ x = t[n]  BY DEF Made
<1> DEFINE P == {k \in Nat : k \in 0..n => t[k] \in G}
<1>0. \A k \in 0..n : t[k] \in V  BY <1>00 DEF Steps
<1>1. 0 \in P  BY <1>00 DEF Steps
<1>2. \A k \in Nat : k \in P => k + 1 \in P
  <2> SUFFICES ASSUME NEW k \in Nat, k \in P PROVE k + 1 \in P  OBVIOUS
  <2> SUFFICES ASSUME k + 1 \in 0..n PROVE t[k + 1] \in G  OBVIOUS
  <2>1. k \in 0..n /\ k + 1 \in 1..n /\ (k + 1) - 1 = k  OBVIOUS
  <2>2. t[k] \in V \cap G  BY <1>0, <2>1
  <2>3. t[k + 1] = step[<<k + 1, t[k]>>]  BY <1>00, <2>1 DEF Steps
  <2> QED BY <2>1, <2>2, <2>3
<1>3. n \in P
  <2> HIDE DEF P
  <2> QED BY <1>1, <1>2, Induction
<1> QED BY <1>0, <1>00, <1>3

\* t holds the sums of the beginnings of p.
Sums(t, p) ==
  /\ t \in [0..Len(p) -> Int]
  /\ t[0] = 0
  /\ \A k \in 1..Len(p) : t[k] = t[k - 1] + p[k]
  /\ Total(p) = t[Len(p)]

\* Total() adds one number after the other.
LEMMA TotalUnfolds ==
  ASSUME NEW S, NEW p \in Seq(S), \A k \in 1..Len(p) : p[k] \in Int
  PROVE  \E t : Sums(t, p)
<1> DEFINE D == DOMAIN p
           Body(i) == [s \in SUBSET D |->
                         IF s = {} THEN 0 ELSE i[s \ {Max(s)}] + p[Max(s)]]
           fold == CHOOSE i : i = Body(i)
           n == Len(p)
           step == [q \in (1..n) \X Int |-> q[2] + p[q[1]]]
<1>1. Total(p) = fold[D]
  BY DEF Total, FoldLeft, MapThenFoldSet
<1>2. n \in Nat /\ D = 1..n /\ \A k \in 1..n : p[k] \in Int  BY PartsOf
<1>3. 0 \in Int  OBVIOUS
<1>4. step \in [(1..n) \X Int -> Int]
  <2>1. ASSUME NEW q \in (1..n) \X Int PROVE q[2] + p[q[1]] \in Int
    <3>1. q[2] \in Int /\ p[q[1]] \in Int  BY <1>2
    <3> QED BY <3>1
  <2> QED BY <2>1
<1>5. PICK f : StepFunction(f, n, Int, 0, step)
  <2> HIDE DEF n, step
  <2> QED BY <1>2, <1>3, <1>4, StepsExist
<1>6. ASSUME NEW s \in SUBSET D, s # {}
      PROVE  f[s] = f[s \ {Max(s)}] + p[Max(s)]
  <2>1. s \in SUBSET (1..n) /\ n \in Nat  BY <1>2
  <2>2. Max(s) \in 1..n
    <3> HIDE DEF n
    <3> QED BY <1>6, <2>1, GreatestPlace
  <2>3. f[s \ {Max(s)}] \in Int  BY <1>5, <2>1 DEF StepFunction
  <2> DEFINE q == <<Max(s), f[s \ {Max(s)}]>>
  <2>4. q \in (1..n) \X Int  BY <2>2, <2>3
  <2>5. step[q] = q[2] + p[q[1]]  BY <2>4
  <2> HIDE DEF step
  <2>6. f[s] = step[q]  BY <1>5, <1>6, <2>1 DEF StepFunction
  <2> QED BY <2>5, <2>6
<1>7. f = Body(f)
  <2>1. f = [s \in SUBSET D |-> f[s]]  BY <1>2, <1>5 DEF StepFunction
  <2>2. f[{}] = 0  BY <1>5 DEF StepFunction
  <2> HIDE DEF D
  <2> QED BY <1>6, <2>1, <2>2
<1>8. fold = Body(fold)
  <2> HIDE DEF D
  <2> QED BY <1>7
<1>9. /\ fold[{}] = 0
      /\ \A s \in SUBSET D : s # {} => fold[s] = fold[s \ {Max(s)}] + p[Max(s)]
  <2> HIDE DEF fold, D
  <2> QED BY <1>8
<1> HIDE DEF fold
<1>10. ASSUME NEW s \in SUBSET (1..n), s # {}, fold[s \ {Max(s)}] \in Int
       PROVE  fold[s] = step[<<Max(s), fold[s \ {Max(s)}]>>]
  <2>1. Max(s) \in 1..n
    <3> HIDE DEF n
    <3> QED BY <1>2, <1>10, GreatestPlace
  <2> DEFINE q == <<Max(s), fold[s \ {Max(s)}]>>
  <2>2. q \in (1..n) \X Int  BY <1>10, <2>1
  <2>3. step[q] = q[2] + p[q[1]]  BY <2>2
  <2> HIDE DEF step
  <2>4. fold[s] = fold[s \ {Max(s)}] + p[Max(s)]  BY <1>2, <1>9, <1>10
  <2> QED BY <2>3, <2>4
<1>11. Made(fold[1..n], n, Int, 0, step)
  <2> HIDE DEF n, step
  <2>1. Stepwise(fold, n, Int, 0, step)  BY <1>9, <1>10 DEF Stepwise
  <2> QED BY <1>2, <1>3, <1>4, <2>1, StepsUnfold
<1>12. PICK t : Steps(t, n, Int, 0, step) /\ fold[1..n] = t[n]  BY <1>11 DEF Made
<1>13. t \in [0..n -> Int] /\ t[0] = 0  BY <1>12 DEF Steps
<1>14. ASSUME NEW k \in 1..n PROVE t[k] = t[k - 1] + p[k]
  <2> DEFINE q == <<k, t[k - 1]>>
  <2>1. k - 1 \in 0..n  BY <1>2
  <2>2. q \in (1..n) \X Int  BY <1>13, <2>1
  <2>3. step[q] = q[2] + p[q[1]]  BY <2>2
  <2> HIDE DEF step
  <2>4. t[k] = step[q]  BY <1>12 DEF Steps
  <2> QED BY <2>3, <2>4
<1>15. Total(p) = t[n]  BY <1>1, <1>2, <1>12
<1> HIDE DEF step
<1>16. Sums(t, p)  BY <1>13, <1>14, <1>15 DEF Sums
<1> QED BY <1>16

\* t holds the largest numbers of the beginnings of p.
Tops(t, p) ==
  /\ t \in [0..Len(p) -> Int]
  /\ t[0] = 0
  /\ \A k \in 1..Len(p) : t[k] = Most(t[k - 1], p[k])
  /\ MostOf(p) = t[Len(p)]

\* MostOf() compares one number after the other.
LEMMA MostUnfolds ==
  ASSUME NEW S, NEW p \in Seq(S), \A k \in 1..Len(p) : p[k] \in Int
  PROVE  \E t : Tops(t, p)
<1> DEFINE D == DOMAIN p
           Body(i) == [s \in SUBSET D |->
                         IF s = {} THEN 0 ELSE Most(i[s \ {Max(s)}], p[Max(s)])]
           fold == CHOOSE i : i = Body(i)
           n == Len(p)
           step == [q \in (1..n) \X Int |-> Most(q[2], p[q[1]])]
<1>1. MostOf(p) = fold[D]
  BY DEF MostOf, FoldLeft, MapThenFoldSet
<1>2. n \in Nat /\ D = 1..n /\ \A k \in 1..n : p[k] \in Int  BY PartsOf
<1>3. 0 \in Int  OBVIOUS
<1>4. step \in [(1..n) \X Int -> Int]
  <2>1. ASSUME NEW q \in (1..n) \X Int PROVE Most(q[2], p[q[1]]) \in Int
    <3>1. q[2] \in Int /\ p[q[1]] \in Int  BY <1>2
    <3> QED BY <3>1 DEF Most
  <2> QED BY <2>1
<1>5. PICK f : StepFunction(f, n, Int, 0, step)
  <2> HIDE DEF n, step
  <2> QED BY <1>2, <1>3, <1>4, StepsExist
<1>6. ASSUME NEW s \in SUBSET D, s # {}
      PROVE  f[s] = Most(f[s \ {Max(s)}], p[Max(s)])
  <2>1. s \in SUBSET (1..n) /\ n \in Nat  BY <1>2
  <2>2. Max(s) \in 1..n
    <3> HIDE DEF n
    <3> QED BY <1>6, <2>1, GreatestPlace
  <2>3. f[s \ {Max(s)}] \in Int  BY <1>5, <2>1 DEF StepFunction
  <2> DEFINE q == <<Max(s), f[s \ {Max(s)}]>>
  <2>4. q \in (1..n) \X Int  BY <2>2, <2>3
  <2>5. step[q] = Most(q[2], p[q[1]])  BY <2>4
  <2> HIDE DEF step
  <2>6. f[s] = step[q]  BY <1>5, <1>6, <2>1 DEF StepFunction
  <2> QED BY <2>5, <2>6
<1>7. f = Body(f)
  <2>1. f = [s \in SUBSET D |-> f[s]]  BY <1>2, <1>5 DEF StepFunction
  <2>2. f[{}] = 0  BY <1>5 DEF StepFunction
  <2> HIDE DEF D
  <2> QED BY <1>6, <2>1, <2>2
<1>8. fold = Body(fold)
  <2> HIDE DEF D
  <2> QED BY <1>7
<1>9. /\ fold[{}] = 0
      /\ \A s \in SUBSET D : s # {} => fold[s] = Most(fold[s \ {Max(s)}], p[Max(s)])
  <2> HIDE DEF fold, D
  <2> QED BY <1>8
<1> HIDE DEF fold
<1>10. ASSUME NEW s \in SUBSET (1..n), s # {}, fold[s \ {Max(s)}] \in Int
       PROVE  fold[s] = step[<<Max(s), fold[s \ {Max(s)}]>>]
  <2>1. Max(s) \in 1..n
    <3> HIDE DEF n
    <3> QED BY <1>2, <1>10, GreatestPlace
  <2> DEFINE q == <<Max(s), fold[s \ {Max(s)}]>>
  <2>2. q \in (1..n) \X Int  BY <1>10, <2>1
  <2>3. step[q] = Most(q[2], p[q[1]])  BY <2>2
  <2> HIDE DEF step
  <2>4. fold[s] = Most(fold[s \ {Max(s)}], p[Max(s)])  BY <1>2, <1>9, <1>10
  <2> QED BY <2>3, <2>4
<1>11. Made(fold[1..n], n, Int, 0, step)
  <2> HIDE DEF n, step
  <2>1. Stepwise(fold, n, Int, 0, step)  BY <1>9, <1>10 DEF Stepwise
  <2> QED BY <1>2, <1>3, <1>4, <2>1, StepsUnfold
<1>12. PICK t : Steps(t, n, Int, 0, step) /\ fold[1..n] = t[n]  BY <1>11 DEF Made
<1>13. t \in [0..n -> Int] /\ t[0] = 0  BY <1>12 DEF Steps
<1>14. ASSUME NEW k \in 1..n PROVE t[k] = Most(t[k - 1], p[k])
  <2> DEFINE q == <<k, t[k - 1]>>
  <2>1. k - 1 \in 0..n  BY <1>2
  <2>2. q \in (1..n) \X Int  BY <1>13, <2>1
  <2>3. step[q] = Most(q[2], p[q[1]])  BY <2>2
  <2> HIDE DEF step
  <2>4. t[k] = step[q]  BY <1>12 DEF Steps
  <2> QED BY <2>3, <2>4
<1>15. MostOf(p) = t[n]  BY <1>1, <1>2, <1>12
<1> HIDE DEF step
<1>16. Tops(t, p)  BY <1>13, <1>14, <1>15 DEF Tops
<1> QED BY <1>16

-----------------------------------------------------------------------------
\* A number that grows from step to step ends above where it was.
LEMMA Grows ==
  ASSUME NEW n \in Nat, NEW t \in [0..n -> Int],
         \A k \in 1..n : t[k - 1] <= t[k]
  PROVE  \A k \in 0..n : t[k] <= t[n]
<1> DEFINE P == {j \in Nat : j <= n => \A k \in 0..j : t[k] <= t[j]}
<1>1. 0 \in P
  <2>1. \A k \in 0..0 : k = 0 /\ k \in 0..n  OBVIOUS
  <2>2. t[0] \in Int  OBVIOUS
  <2> QED BY <2>1, <2>2
<1>2. \A j \in Nat : j \in P => j + 1 \in P
  <2> SUFFICES ASSUME NEW j \in Nat, j \in P PROVE j + 1 \in P  OBVIOUS
  <2> SUFFICES ASSUME j + 1 <= n, NEW k \in 0..(j + 1) PROVE t[k] <= t[j + 1]
    OBVIOUS
  <2>1. j <= n /\ j + 1 \in 1..n /\ (j + 1) - 1 = j /\ j \in 0..n /\ k \in 0..n  OBVIOUS
  <2>2. t[j] <= t[j + 1]  BY <2>1
  <2>3. t[j] \in Int /\ t[j + 1] \in Int /\ t[k] \in Int  BY <2>1
  <2>4. CASE k = j + 1  BY <2>3, <2>4
  <2>5. CASE k \in 0..j
    <3>1. t[k] <= t[j]  BY <2>1, <2>5
    <3> QED BY <2>2, <2>3, <3>1
  <2> QED BY <2>4, <2>5
<1> HIDE DEF P
<1>3. Nat \subseteq P  BY <1>1, <1>2, Induction
<1> QED BY <1>3 DEF P

\* A number that moves from step to step moved at one of them.
LEMMA Moved ==
  ASSUME NEW n \in Nat, NEW t, t[n] # t[0]
  PROVE  \E k \in 1..n : t[k] # t[k - 1]
<1> SUFFICES ASSUME \A k \in 1..n : t[k] = t[k - 1] PROVE FALSE  OBVIOUS
<1> DEFINE P == {j \in Nat : j <= n => t[j] = t[0]}
<1>1. 0 \in P  OBVIOUS
<1>2. \A j \in Nat : j \in P => j + 1 \in P
  <2> SUFFICES ASSUME NEW j \in Nat, j \in P PROVE j + 1 \in P  OBVIOUS
  <2> SUFFICES ASSUME j + 1 <= n PROVE t[j + 1] = t[0]
    OBVIOUS
  <2>1. j <= n /\ j + 1 \in 1..n /\ (j + 1) - 1 = j  OBVIOUS
  <2>2. t[j + 1] = t[j]  BY <2>1
  <2> QED BY <2>1, <2>2
<1>3. n \in P
  <2> HIDE DEF P
  <2> QED BY <1>1, <1>2, Induction
<1> QED BY <1>3

\* The sum of numbers that are not negative is no less than any of them, and
\* positive only if one of them is.
LEMMA TotalOfNumbers ==
  ASSUME NEW p \in Seq(Nat)
  PROVE  /\ Total(p) \in Nat
         /\ \A k \in 1..Len(p) : p[k] <= Total(p)
         /\ Total(p) > 0 => \E k \in 1..Len(p) : p[k] > 0
<1> DEFINE n == Len(p)
<1>1. n \in Nat /\ \A k \in 1..n : p[k] \in Nat /\ p[k] \in Int  BY PartsOf
<1>2. PICK t : Sums(t, p)  BY <1>1, TotalUnfolds
<1>3. /\ t \in [0..n -> Int] /\ t[0] = 0 /\ Total(p) = t[n]
      /\ \A k \in 1..n : t[k] = t[k - 1] + p[k]
  BY <1>2 DEF Sums
<1> HIDE DEF n
<1>4. \A k \in 1..n : k \in 0..n /\ k - 1 \in 0..n  BY <1>1
<1>5. ASSUME NEW k \in 1..n PROVE t[k - 1] <= t[k]
  <2>1. t[k] = t[k - 1] + p[k] /\ p[k] \in Nat  BY <1>1, <1>3
  <2>2. t[k - 1] \in Int /\ t[k] \in Int  BY <1>3, <1>4
  <2> QED BY <2>1, <2>2
<1>6. \A k \in 0..n : t[k] <= t[n]  BY <1>1, <1>3, <1>5, Grows
<1>7. 0 \in 0..n /\ n \in 0..n  BY <1>1
<1>8. t[n] \in Int /\ 0 <= t[n]  BY <1>3, <1>6, <1>7
<1>9. \A k \in 0..n : t[k] \in Int  BY <1>3
<1>10. \A k \in 0..n : 0 <= t[k]
  <2> SUFFICES ASSUME NEW k \in 0..n PROVE 0 <= t[k]  OBVIOUS
  <2> DEFINE P == {j \in Nat : j <= n => 0 <= t[j]}
  <2>1. 0 \in P  BY <1>3
  <2>2. \A j \in Nat : j \in P => j + 1 \in P
    <3> SUFFICES ASSUME NEW j \in Nat, j \in P PROVE j + 1 \in P  OBVIOUS
    <3> SUFFICES ASSUME j + 1 <= n PROVE 0 <= t[j + 1]  OBVIOUS
    <3>1. j <= n /\ j + 1 \in 1..n /\ (j + 1) - 1 = j /\ j \in 0..n /\ j + 1 \in 0..n  BY <1>1
    <3>2. t[j] <= t[j + 1] /\ 0 <= t[j]  BY <1>5, <3>1
    <3>3. t[j] \in Int /\ t[j + 1] \in Int  BY <1>9, <3>1
    <3> QED BY <3>2, <3>3
  <2> HIDE DEF P
  <2>3. Nat \subseteq P  BY <2>1, <2>2, Induction
  <2>4. k \in Nat /\ k <= n  BY <1>1
  <2> QED BY <2>3, <2>4 DEF P
<1>11. ASSUME NEW k \in 1..n PROVE p[k] <= t[n]
  <2>1. t[k] = t[k - 1] + p[k] /\ 0 <= t[k - 1] /\ t[k] <= t[n]  BY <1>3, <1>4, <1>6, <1>10
  <2>2. t[k] \in Int /\ t[k - 1] \in Int /\ p[k] \in Int  BY <1>1, <1>4, <1>9
  <2> QED BY <1>8, <2>1, <2>2
<1>12. ASSUME t[n] > 0 PROVE \E k \in 1..n : p[k] > 0
  <2>1. t[n] # t[0]  BY <1>3, <1>12
  <2>2. PICK k \in 1..n : t[k] # t[k - 1]  BY <1>1, <2>1, Moved
  <2>3. t[k] = t[k - 1] + p[k]  BY <1>3
  <2>4. t[k - 1] \in Int /\ p[k] \in Nat  BY <1>1, <1>4, <1>9
  <2>5. p[k] > 0  BY <2>2, <2>3, <2>4
  <2> QED BY <2>5
<1> QED BY <1>3, <1>8, <1>11, <1>12 DEF n

\* The largest of numbers is positive only if one of them is.
LEMMA MostOfNumbers ==
  ASSUME NEW p \in Seq(Nat)
  PROVE  /\ MostOf(p) \in Nat
         /\ MostOf(p) > 0 => \E k \in 1..Len(p) : p[k] > 0
<1> DEFINE n == Len(p)
<1>1. n \in Nat /\ \A k \in 1..n : p[k] \in Nat /\ p[k] \in Int  BY PartsOf
<1>2. PICK t : Tops(t, p)  BY <1>1, MostUnfolds
<1>3. /\ t \in [0..n -> Int] /\ t[0] = 0 /\ MostOf(p) = t[n]
      /\ \A k \in 1..n : t[k] = Most(t[k - 1], p[k])
  BY <1>2 DEF Tops
<1> HIDE DEF n
<1>4. \A k \in 1..n : k \in 0..n /\ k - 1 \in 0..n  BY <1>1
<1>5. ASSUME NEW k \in 1..n PROVE t[k - 1] <= t[k]
  <2>1. t[k] = Most(t[k - 1], p[k]) /\ p[k] \in Nat  BY <1>1, <1>3
  <2>2. t[k - 1] \in Int /\ t[k] \in Int  BY <1>3, <1>4
  <2> QED BY <2>1, <2>2 DEF Most
<1>6. \A k \in 0..n : t[k] <= t[n]  BY <1>1, <1>3, <1>5, Grows
<1>7. 0 \in 0..n /\ n \in 0..n  BY <1>1
<1>8. t[n] \in Int /\ 0 <= t[n]  BY <1>3, <1>6, <1>7
<1>12. ASSUME t[n] > 0 PROVE \E k \in 1..n : p[k] > 0
  <2> SUFFICES ASSUME \A k \in 1..n : p[k] = 0 PROVE FALSE  BY <1>1
  <2> DEFINE P == {j \in Nat : j <= n => t[j] = 0}
  <2>1. 0 \in P  BY <1>3
  <2>2. \A j \in Nat : j \in P => j + 1 \in P
    <3> SUFFICES ASSUME NEW j \in Nat, j \in P PROVE j + 1 \in P  OBVIOUS
    <3> SUFFICES ASSUME j + 1 <= n PROVE t[j + 1] = 0  OBVIOUS
    <3>1. j <= n /\ j + 1 \in 1..n /\ (j + 1) - 1 = j  BY <1>1
    <3>2. t[j] = 0 /\ p[j + 1] = 0 /\ t[j + 1] = Most(t[(j + 1) - 1], p[j + 1])  BY <1>3, <3>1
    <3> QED BY <3>1, <3>2 DEF Most
  <2>3. n \in P
    <3> HIDE DEF P
    <3> QED BY <1>1, <2>1, <2>2, Induction
  <2> QED BY <1>1, <1>12, <2>3
<1> QED BY <1>3, <1>8, <1>12 DEF n

\* A sum lies between two others that grow less and more than it.
LEMMA TotalBetween ==
  ASSUME NEW p \in Seq(Nat),
         NEW lo \in [0..Len(p) -> Int], NEW hi \in [0..Len(p) -> Int], lo[0] = 0, hi[0] = 0,
         \A k \in 1..Len(p) : lo[k] - lo[k - 1] <= p[k] /\ p[k] <= hi[k] - hi[k - 1]
  PROVE  lo[Len(p)] <= Total(p) /\ Total(p) <= hi[Len(p)]
<1> DEFINE n == Len(p)
<1>1. n \in Nat /\ \A k \in 1..n : p[k] \in Nat /\ p[k] \in Int  BY PartsOf
<1>2. PICK t : Sums(t, p)  BY <1>1, TotalUnfolds
<1>3. /\ t \in [0..n -> Int] /\ t[0] = 0 /\ Total(p) = t[n]
      /\ \A k \in 1..n : t[k] = t[k - 1] + p[k]
  BY <1>2 DEF Sums
<1>4. /\ lo \in [0..n -> Int] /\ hi \in [0..n -> Int]
      /\ \A k \in 1..n : lo[k] - lo[k - 1] <= p[k] /\ p[k] <= hi[k] - hi[k - 1]
  OBVIOUS
<1> HIDE DEF n
<1> DEFINE P == {j \in Nat : j <= n => lo[j] <= t[j] /\ t[j] <= hi[j]}
<1>5. 0 \in P  BY <1>3
<1>6. \A j \in Nat : j \in P => j + 1 \in P
  <2> SUFFICES ASSUME NEW j \in Nat, j \in P PROVE j + 1 \in P  OBVIOUS
  <2> SUFFICES ASSUME j + 1 <= n PROVE lo[j + 1] <= t[j + 1] /\ t[j + 1] <= hi[j + 1]  OBVIOUS
  <2>1. j <= n /\ j + 1 \in 1..n /\ (j + 1) - 1 = j /\ j \in 0..n /\ j + 1 \in 0..n  BY <1>1
  <2>2. lo[j] <= t[j] /\ t[j] <= hi[j]  BY <2>1
  <2>3. /\ lo[j + 1] - lo[j] <= p[j + 1] /\ p[j + 1] <= hi[j + 1] - hi[j]
        /\ t[j + 1] = t[j] + p[j + 1]
    BY <1>3, <1>4, <2>1
  <2>4. /\ lo[j] \in Int /\ lo[j + 1] \in Int /\ hi[j] \in Int /\ hi[j + 1] \in Int
        /\ t[j] \in Int /\ t[j + 1] \in Int /\ p[j + 1] \in Int
    BY <1>1, <1>3, <1>4, <2>1
  <2>5. lo[j + 1] <= t[j] + p[j + 1] /\ t[j] + p[j + 1] <= hi[j + 1]
    <3> DEFINE a == lo[j]
               b == t[j]
               c == hi[j]
               a1 == lo[j + 1]
               q == p[j + 1]
               c1 == hi[j + 1]
    <3>1. /\ a \in Int /\ b \in Int /\ c \in Int /\ a1 \in Int /\ q \in Int /\ c1 \in Int
          /\ a <= b /\ b <= c /\ a1 - a <= q /\ q <= c1 - c
      BY <2>2, <2>3, <2>4
    <3> HIDE DEF a, b, c, a1, q, c1
    <3>2. a1 <= b + q /\ b + q <= c1  BY <3>1
    <3> QED BY <3>2 DEF a, b, c, a1, q, c1
  <2> QED BY <2>3, <2>5
<1>7. n \in P
  <2> HIDE DEF P
  <2> QED BY <1>1, <1>5, <1>6, Induction
<1> QED BY <1>1, <1>3, <1>7 DEF n

-----------------------------------------------------------------------------
(* The records of an hour, and of all hours together. *)

\* The records of a dataset that are of an hour.
InHour(F, d, h) == {r \in F : /\ r.dataset = d
                              /\ r.time >= Start(h)
                              /\ r.time < ExclusiveEnd(End(h))}

\* How many records are before r.
Rank(S, r) == Cardinality({q \in S : q.time < r.time})

\* Later records have larger ranks.
LEMMA RanksOrder ==
  ASSUME NEW S, IsFiniteSet(S), \A r \in S : r.time \in Int,
         NEW r \in S, NEW q \in S, r.time < q.time
  PROVE  Rank(S, r) < Rank(S, q) /\ Rank(S, r) \in Nat /\ Rank(S, q) \in Nat
<1> DEFINE A == {p \in S : p.time < r.time}
           B == {p \in S : p.time < q.time}
<1>1. A \subseteq B /\ r \notin A /\ r \in B /\ A \subseteq S /\ B \subseteq S  OBVIOUS
<1>2. Rank(S, r) = Cardinality(A) /\ Rank(S, q) = Cardinality(B)  BY DEF Rank
<1> HIDE DEF A, B
<1>3. IsFiniteSet(A) /\ IsFiniteSet(B)  BY <1>1, FS_Subset
<1>4. Cardinality(A) \in Nat /\ Cardinality(B) \in Nat  BY <1>3, FS_CardinalityType
<1>5. Cardinality(A) <= Cardinality(B) /\ (Cardinality(B) = Cardinality(A) => B = A)
  BY <1>1, <1>3, FS_Subset
<1>6. Cardinality(A) # Cardinality(B)  BY <1>1, <1>5
<1> QED BY <1>2, <1>4, <1>5, <1>6

\* A rank is below the number of records.
LEMMA RankRange ==
  ASSUME NEW S, IsFiniteSet(S), \A r \in S : r.time \in Int, NEW r \in S
  PROVE  Rank(S, r) \in 0..Cardinality(S) - 1
<1> DEFINE A == {p \in S : p.time < r.time}
<1>1. A \subseteq S /\ r \notin A  OBVIOUS
<1>2. Rank(S, r) = Cardinality(A)  BY DEF Rank
<1> HIDE DEF A
<1>3. IsFiniteSet(A)  BY <1>1, FS_Subset
<1>4. Cardinality(A) \in Nat /\ Cardinality(S) \in Nat  BY <1>3, FS_CardinalityType
<1>5. Cardinality(A) <= Cardinality(S) /\ (Cardinality(S) = Cardinality(A) => S = A)
  BY <1>1, FS_Subset
<1>6. Cardinality(A) # Cardinality(S)  BY <1>1, <1>5
<1> QED BY <1>2, <1>4, <1>5, <1>6

\* Every rank is taken by one record.
LEMMA RanksTaken ==
  ASSUME NEW S, IsFiniteSet(S), \A r \in S : r.time \in Int,
         \A r, q \in S : r.time = q.time => r = q
  PROVE  /\ \A r, q \in S : Rank(S, r) = Rank(S, q) => r = q
         /\ \A k \in 1..Cardinality(S) : \E r \in S : Rank(S, r) = k - 1
<1> DEFINE n == Cardinality(S)
           f == [r \in S |-> Rank(S, r) + 1]
<1>0. n \in Nat  BY FS_CardinalityType
<1>1. ASSUME NEW r \in S, NEW q \in S, Rank(S, r) = Rank(S, q) PROVE r = q
  <2>1. ~ (r.time < q.time)
    <3> SUFFICES ASSUME r.time < q.time PROVE FALSE  OBVIOUS
    <3>1. Rank(S, r) < Rank(S, q) /\ Rank(S, r) \in Nat  BY RanksOrder
    <3> QED BY <1>1, <3>1
  <2>2. ~ (q.time < r.time)
    <3> SUFFICES ASSUME q.time < r.time PROVE FALSE  OBVIOUS
    <3>1. Rank(S, q) < Rank(S, r) /\ Rank(S, r) \in Nat  BY RanksOrder
    <3> QED BY <1>1, <3>1
  <2>3. r.time \in Int /\ q.time \in Int  OBVIOUS
  <2>4. r.time = q.time  BY <2>1, <2>2, <2>3
  <2> QED BY <2>4
<1>2. \A r \in S : Rank(S, r) \in 0..n - 1  BY RankRange
<1> HIDE DEF n
<1>3. \A r \in S : f[r] = Rank(S, r) + 1 /\ f[r] \in 1..n  BY <1>0, <1>2
<1>4. f \in [S -> 1..n]  BY <1>3
<1>5. \A r, q \in S : f[r] = f[q] => r = q
  <2> SUFFICES ASSUME NEW r \in S, NEW q \in S, f[r] = f[q] PROVE r = q  OBVIOUS
  <2>1. Rank(S, r) \in Int /\ Rank(S, q) \in Int /\ Rank(S, r) + 1 = Rank(S, q) + 1
    BY <1>0, <1>2, <1>3
  <2>2. Rank(S, r) = Rank(S, q)  BY <2>1
  <2> QED BY <1>1, <2>2
<1> HIDE DEF f
<1>6. f \in Injection(S, 1..n)  BY <1>4, <1>5 DEF Injection, IsInjective
<1>7. 1 \in Int /\ n \in Int  BY <1>0
<1>8. IsFiniteSet(1..n) /\ Cardinality(1..n) = n
  <2>1. Cardinality(1..n) = IF 1 > n THEN 0 ELSE n - 1 + 1  BY <1>7, FS_Interval
  <2>2. IsFiniteSet(1..n)  BY <1>7, FS_Interval
  <2> DEFINE c == Cardinality(1..n)
  <2>3. c = IF 1 > n THEN 0 ELSE n - 1 + 1  BY <2>1
  <2> HIDE DEF c
  <2>4. c = n  BY <1>0, <2>3
  <2> QED BY <2>2, <2>4 DEF c
<1>9. f \in Surjection(S, 1..n)
  <2>1. Cardinality(S) = Cardinality(1..n)  BY <1>8 DEF n
  <2> QED BY <1>6, <1>8, <2>1, FS_Injection
<1>10. \A k \in 1..n : \E r \in S : f[r] = k  BY <1>9 DEF Surjection
<1>11. ASSUME NEW k \in 1..n PROVE \E r \in S : Rank(S, r) = k - 1
  <2>1. PICK r \in S : f[r] = k  BY <1>10
  <2>2. Rank(S, r) \in Int /\ f[r] = Rank(S, r) + 1  BY <1>0, <1>2, <1>3
  <2> QED BY <2>1, <2>2
<1> QED BY <1>1, <1>11 DEF n

\* _valid_unique_records(): every record of the hour once, in order.
LEMMA HourRecordsAre ==
  ASSUME NEW F, Stored(F), NEW d, NEW h
  PROVE  /\ IsFiniteSet(InHour(F, d, h))
         /\ HourRecords(F, d, h) \in Seq(InHour(F, d, h))
         /\ Len(HourRecords(F, d, h)) = Cardinality(InHour(F, d, h))
         /\ \A r \in InHour(F, d, h) : \E k \in 1..Len(HourRecords(F, d, h)) :
              HourRecords(F, d, h)[k] = r
         /\ \A j, k \in 1..Len(HourRecords(F, d, h)) :
              j < k => HourRecords(F, d, h)[j].time < HourRecords(F, d, h)[k].time
<1> DEFINE S == InHour(F, d, h)
           n == Cardinality(S)
           at(k) == CHOOSE r \in S : Rank(S, r) = k - 1
           l == [k \in 1..n |-> at(k)]
<1>1. S \subseteq F /\ \A r \in S : r.dataset = d  BY DEF InHour
<1>2. IsFiniteSet(S)  BY <1>1, FS_Subset DEF Stored
<1>3. HourRecords(F, d, h) = << >> \o l
  BY DEF HourRecords, Listed, InHour, Rank
<1>4. n \in Nat  BY <1>2, FS_CardinalityType
<1>5. \A r \in S : r.time \in Int
  <2>1. ReportAssumption  BY ReportAssumption
  <2> QED BY <1>1, <2>1 DEF Stored, ReportAssumption
<1>6. \A r, q \in S : r.time = q.time => r = q  BY <1>1 DEF Stored
<1> HIDE DEF S
<1>7. /\ \A r, q \in S : Rank(S, r) = Rank(S, q) => r = q
      /\ \A k \in 1..n : \E r \in S : Rank(S, r) = k - 1
  BY <1>2, <1>5, <1>6, RanksTaken
<1>8. \A r \in S : Rank(S, r) \in 0..n - 1  BY <1>2, <1>5, RankRange
<1> HIDE DEF n
<1>9. \A k \in 1..n : at(k) \in S /\ Rank(S, at(k)) = k - 1  BY <1>7
<1>10. l \in [1..n -> S]  BY <1>9
<1>11. \A k \in 1..n : l[k] \in S /\ Rank(S, l[k]) = k - 1  BY <1>9
<1> HIDE DEF l
<1>12. l \in Seq(S) /\ Len(l) = n /\ << >> \o l = l  BY <1>4, <1>10, ListOf
<1>13. ASSUME NEW r \in S PROVE \E k \in 1..n : l[k] = r
  <2> DEFINE k == Rank(S, r) + 1
  <2>1. k \in 1..n /\ k - 1 = Rank(S, r)  BY <1>4, <1>8
  <2> HIDE DEF k
  <2>2. l[k] \in S /\ Rank(S, l[k]) = Rank(S, r)  BY <1>11, <2>1
  <2>3. l[k] = r  BY <1>7, <2>2
  <2> QED BY <2>1, <2>3
<1>14. ASSUME NEW j \in 1..n, NEW k \in 1..n, j < k PROVE l[j].time < l[k].time
  <2>1. l[j] \in S /\ l[k] \in S /\ Rank(S, l[j]) = j - 1 /\ Rank(S, l[k]) = k - 1  BY <1>11
  <2>2. l[j].time \in Int /\ l[k].time \in Int  BY <1>5, <2>1
  <2>3. l[j].time # l[k].time
    <3> SUFFICES ASSUME l[j].time = l[k].time PROVE FALSE  OBVIOUS
    <3>1. l[j] = l[k]  BY <1>6, <2>1
    <3>2. j - 1 = k - 1  BY <2>1, <3>1
    <3> QED BY <1>4, <1>14, <3>2
  <2>4. ~ (l[k].time < l[j].time)
    <3> SUFFICES ASSUME l[k].time < l[j].time PROVE FALSE  OBVIOUS
    <3>1. Rank(S, l[k]) < Rank(S, l[j])  BY <1>2, <1>5, <2>1, RanksOrder
    <3> QED BY <1>4, <1>14, <2>1, <3>1
  <2> QED BY <2>2, <2>3, <2>4
<1> QED BY <1>2, <1>3, <1>12, <1>13, <1>14 DEF S, n

\* Hours follow one another.
LEMMA HoursFollow ==
  ASSUME NEW h \in Int
  PROVE  /\ Start(h) \in Int /\ Start(h + 1) = Start(h) + HourTicks
         /\ ExclusiveEnd(End(h)) = Start(h + 1)
         /\ HourTicks \in Nat \ {0} /\ Hours \in Nat \ {0}
         /\ Start(0) = 0 /\ Start(Hours) = Hours * HourTicks
<1>1. HourTicks \in Nat \ {0} /\ Hours \in Nat \ {0}
  BY ReportAssumption DEF ReportAssumption
<1>2. (h + 1) * HourTicks = h * HourTicks + HourTicks /\ h * HourTicks \in Int  BY <1>1
<1>3. 0 * HourTicks = 0  BY <1>1
<1> QED BY <1>1, <1>2, <1>3 DEF Start, End, ExclusiveEnd

\* The records of a dataset before hour k.
Below(F, d, k) == {r \in F : r.dataset = d /\ r.time < Start(k)}

\* Hours split a day: an hour's records are those before its end but not its start.
LEMMA HourBelow ==
  ASSUME NEW F, Stored(F), NEW d, NEW k \in 1..Hours
  PROVE  /\ Cardinality(Below(F, d, k)) - Cardinality(Below(F, d, k - 1))
              = Cardinality(InHour(F, d, k - 1))
         /\ Cardinality(Below(F, d, k)) \in Nat
         /\ Cardinality(Below(F, d, k - 1)) \in Nat
<1> DEFINE A == Below(F, d, k - 1)
           B == InHour(F, d, k - 1)
           C == Below(F, d, k)
<1>0. HourTicks \in Nat \ {0} /\ Hours \in Nat \ {0}
  BY ReportAssumption DEF ReportAssumption
<1>1. k \in Int /\ k - 1 \in Int /\ (k - 1) + 1 = k  BY <1>0
<1>2. /\ Start(k - 1) \in Int /\ Start(k) = Start(k - 1) + HourTicks
      /\ ExclusiveEnd(End(k - 1)) = Start(k)
  BY <1>1, HoursFollow
<1>3. \A r \in F : r.time \in Int  BY <1>0 DEF Stored
<1>4. Start(k) \in Int /\ Start(k - 1) < Start(k)  BY <1>0, <1>2
<1>5. C = A \cup B
  <2>1. ASSUME NEW r \in F
        PROVE  r.time < Start(k) <=> \/ r.time < Start(k - 1)
                                     \/ r.time >= Start(k - 1) /\ r.time < Start(k)
    BY <1>2, <1>3, <1>4
  <2> QED BY <1>2, <2>1 DEF Below, InHour
<1>6. A \cap B = {}
  <2>1. ASSUME NEW r \in F, r.time < Start(k - 1), r.time >= Start(k - 1) PROVE FALSE
    BY <1>2, <1>3, <2>1
  <2> QED BY <2>1 DEF Below, InHour
<1>7. A \subseteq F /\ B \subseteq F  BY DEF Below, InHour
<1> HIDE DEF A, B, C
<1>8. IsFiniteSet(A) /\ IsFiniteSet(B)  BY <1>7, FS_Subset DEF Stored
<1>9. /\ IsFiniteSet(A \cup B)
      /\ Cardinality(A \cup B) = Cardinality(A) + Cardinality(B) - Cardinality(A \cap B)
  BY <1>8, FS_Union
<1>10. Cardinality(A) \in Nat /\ Cardinality(B) \in Nat  BY <1>8, FS_CardinalityType
<1>11. Cardinality(A \cap B) = 0  BY <1>6, FS_EmptySet
<1>12. Cardinality(C) = Cardinality(A) + Cardinality(B)
  BY <1>5, <1>9, <1>10, <1>11
<1>13. Cardinality(C) - Cardinality(A) = Cardinality(B) /\ Cardinality(C) \in Nat
  BY <1>10, <1>12
<1> QED BY <1>10, <1>13 DEF A, B, C

\* Before the first hour there are no records, before the end there are all.
LEMMA DayBelow ==
  ASSUME NEW F, Stored(F), NEW d
  PROVE  Below(F, d, 0) = {} /\ Below(F, d, Hours) = Of(F, d)
<1>0. HourTicks \in Nat \ {0} /\ Hours \in Nat \ {0}
  BY ReportAssumption DEF ReportAssumption
<1>1. Start(0) = 0 /\ Start(Hours) = Hours * HourTicks
  <2>1. 0 \in Int  OBVIOUS
  <2> QED BY <2>1, HoursFollow
<1> DEFINE e == Hours * HourTicks
<1>2. e \in Int  BY <1>0
<1>3. \A r \in F : r.time \in 0..e - 1  BY DEF Stored
<1> HIDE DEF e
<1>4. \A r \in F : ~ (r.time < 0) /\ r.time < e  BY <1>2, <1>3
<1> QED BY <1>1, <1>4 DEF Below, Of, e

\* The hours' records make up the day's.
LEMMA CountsAddUp ==
  ASSUME NEW B, Stored(B), NEW A, A \subseteq B, NEW d, NEW p \in Seq(Nat), Len(p) = Hours,
         NEW F, \A k \in 1..Hours : /\ A \subseteq F[k] /\ F[k] \subseteq B
                                    /\ p[k] = Cardinality(InHour(F[k], d, k - 1))
  PROVE  Total(p) \in Cardinality(Of(A, d))..Cardinality(Of(B, d))
<1> DEFINE a == [k \in 0..Hours |-> Cardinality(Below(A, d, k))]
           b == [k \in 0..Hours |-> Cardinality(Below(B, d, k))]
<1>0. HourTicks \in Nat \ {0} /\ Hours \in Nat \ {0}
  BY ReportAssumption DEF ReportAssumption
<1>1. ASSUME NEW G, G \subseteq B PROVE Stored(G)
  <2>1. IsFiniteSet(G)  BY <1>1, FS_Subset DEF Stored
  <2> QED BY <1>1, <2>1 DEF Stored
<1>2. Stored(A)  BY <1>1
<1>3. ASSUME NEW G, Stored(G), NEW k
      PROVE  IsFiniteSet(Below(G, d, k)) /\ Cardinality(Below(G, d, k)) \in Int
  <2>1. Below(G, d, k) \subseteq G  BY DEF Below
  <2>2. IsFiniteSet(Below(G, d, k))  BY <1>3, <2>1, FS_Subset DEF Stored
  <2>3. Cardinality(Below(G, d, k)) \in Nat  BY <2>2, FS_CardinalityType
  <2> QED BY <2>2, <2>3
<1>4. /\ a \in [0..Hours -> Int] /\ b \in [0..Hours -> Int]
      /\ \A k \in 0..Hours : /\ a[k] = Cardinality(Below(A, d, k))
                             /\ b[k] = Cardinality(Below(B, d, k))
  BY <1>2, <1>3
<1> HIDE DEF a, b
<1>5. 0 \in 0..Hours /\ Hours \in 0..Hours  BY <1>0
<1>6. a[0] = 0 /\ b[0] = 0
  <2>1. Below(A, d, 0) = {} /\ Below(B, d, 0) = {}  BY <1>2, DayBelow
  <2>2. Cardinality({}) = 0  BY FS_EmptySet
  <2>3. /\ a[0] = Cardinality(Below(A, d, 0))
        /\ b[0] = Cardinality(Below(B, d, 0))
    BY <1>4, <1>5
  <2> QED BY <2>1, <2>2, <2>3
<1>7. ASSUME NEW k \in 1..Hours
      PROVE  a[k] - a[k - 1] <= p[k] /\ p[k] <= b[k] - b[k - 1]
  <2>1. k \in 0..Hours /\ k - 1 \in 0..Hours  BY <1>0
  <2>2. /\ a[k] - a[k - 1] = Cardinality(InHour(A, d, k - 1))
        /\ b[k] - b[k - 1] = Cardinality(InHour(B, d, k - 1))
    BY <1>2, <1>4, <2>1, HourBelow
  <2> DEFINE X == InHour(A, d, k - 1)
             Y == InHour(F[k], d, k - 1)
             Z == InHour(B, d, k - 1)
  <2>3. X \subseteq Y /\ Y \subseteq Z /\ Z \subseteq B  BY DEF InHour
  <2>4. p[k] = Cardinality(Y)  OBVIOUS
  <2> HIDE DEF X, Y, Z
  <2>5. IsFiniteSet(Z)  BY <2>3, FS_Subset DEF Stored
  <2>6. IsFiniteSet(Y) /\ Cardinality(Y) <= Cardinality(Z)  BY <2>3, <2>5, FS_Subset
  <2>7. Cardinality(X) <= Cardinality(Y)  BY <2>3, <2>6, FS_Subset
  <2> QED BY <2>2, <2>4, <2>6, <2>7 DEF X, Z
<1>8. a[Hours] <= Total(p) /\ Total(p) <= b[Hours]
  <2> DEFINE n == Hours
  <2>1. Len(p) = n  OBVIOUS
  <2>2. \A k \in 1..n : a[k] - a[k - 1] <= p[k] /\ p[k] <= b[k] - b[k - 1]  BY <1>7
  <2> HIDE DEF n
  <2>3. a[n] <= Total(p) /\ Total(p) <= b[n]
    BY <1>4, <1>6, <2>1, <2>2, TotalBetween DEF n
  <2> QED BY <2>3 DEF n
<1>9. a[Hours] = Cardinality(Of(A, d)) /\ b[Hours] = Cardinality(Of(B, d))
  BY <1>2, <1>4, <1>5, DayBelow
<1>10. Total(p) \in Nat  BY TotalOfNumbers
<1>11. a[Hours] \in Int /\ b[Hours] \in Int  BY <1>4, <1>5
<1> QED BY <1>8, <1>9, <1>10, <1>11

-----------------------------------------------------------------------------
(* The inductive invariant: what every file was made of. *)

\* An hour's summary: of records that were there when the hour was read.
HourRead(t, h, s) ==
  \E F \in SUBSET files[t] : seen[t] \subseteq F /\ s = Hour(t, F, h)

\* The hours' files as the merge reads them.
HoursOf(t) == [k \in 1..Hours |-> hourly[t][k - 1]]

\* A report: of hours that were read at some time each.
ReportOf(t, R, text) ==
  \E F \in [HourSet -> SUBSET R] :
    text = Text(t, MergeDaily(t, [k \in 1..Hours |-> Hour(t, F[k - 1], k - 1)]))

\* What is there for every target and hour.
Shape ==
  /\ DOMAIN done = Targets /\ DOMAIN phase = Targets /\ DOMAIN hourly = Targets
  /\ \A t \in Targets : DOMAIN hourly[t] = HourSet /\ done[t] \subseteq HourSet
  /\ DOMAIN summary = Targets /\ DOMAIN context = Targets /\ DOMAIN report = Targets

\* What each file of a target was made of.
Traced(t) ==
  /\ WellFormed(t, files[t] \cup late[t]) /\ seen[t] \subseteq files[t]
  /\ \A h \in done[t] : HourRead(t, h, hourly[t][h])
  /\ phase[t] \in {"merged", "generate", "reported", "done"} =>
       done[t] = HourSet /\ summary[t] = MergeDaily(t, HoursOf(t))
  /\ Fresh(t) => context[t] = summary[t]
  /\ report[t] # None => ReportOf(t, files[t], report[t])

\* The inductive invariant.
IInv == Shape /\ \A t \in Targets : Traced(t)

\* It holds at first.
LEMMA InitTraced == ASSUME Init PROVE IInv
<1>1. Shape  BY DEF Init, Shape
<1>2. ASSUME NEW t \in Targets PROVE Traced(t)
  <2>1. WellFormed(t, files[t] \cup late[t])  BY WorkflowAssumption DEF Init, WorkflowAssumption
  <2>2. seen[t] = files[t] /\ done[t] = {} /\ phase[t] = "idle" /\ report[t] = None
    BY DEF Init
  <2> QED BY <2>1, <2>2 DEF Traced, Fresh
<1> QED BY <1>1, <1>2 DEF IInv

\* A target whose files and records stay as they are.
LEMMA Untouched ==
  ASSUME NEW t, Traced(t), UNCHANGED <<files, late, seen>>,
         done'[t] = done[t], phase'[t] \in {phase[t], "failed"}, hourly'[t] = hourly[t],
         summary'[t] = summary[t], context'[t] = context[t], report'[t] = report[t]
  PROVE  Traced(t)'
<1>1. HoursOf(t)' = HoursOf(t)  BY DEF HoursOf
<1>2. Fresh(t)' => Fresh(t)  BY DEF Fresh
<1>3. /\ WellFormed(t, files[t] \cup late[t])' /\ (seen[t] \subseteq files[t])'
  BY DEF Traced
<1>4. \A h \in done'[t] : HourRead(t, h, hourly[t][h])'  BY DEF Traced, HourRead
<1>5. phase'[t] \in {"merged", "generate", "reported", "done"} =>
        done'[t] = HourSet /\ summary'[t] = MergeDaily(t, HoursOf(t)')
  BY <1>1 DEF Traced
<1>6. Fresh(t)' => context'[t] = summary'[t]  BY <1>2 DEF Traced
<1>7. report'[t] # None => ReportOf(t, files'[t], report'[t])  BY DEF Traced
<1> QED BY <1>3, <1>4, <1>5, <1>6, <1>7 DEF Traced

\* An execution starts with nothing done.
LEMMA PrepareStep == ASSUME IInv, PrepareReportWindow PROVE IInv'
<1>1. Shape'  BY DEF IInv, Shape, PrepareReportWindow, store
<1>2. ASSUME NEW t \in Targets PROVE Traced(t)'
  <2>1. Traced(t)  BY DEF IInv
  <2>2. /\ UNCHANGED <<files, late, report>> /\ seen' = files
        /\ done'[t] = {} /\ phase'[t] = "hours"
    BY DEF PrepareReportWindow, store
  <2>3. WellFormed(t, files[t] \cup late[t])'  BY <2>1, <2>2 DEF Traced
  <2>4. report'[t] # None => ReportOf(t, files'[t], report'[t])  BY <2>1, <2>2 DEF Traced
  <2> QED BY <2>2, <2>3, <2>4 DEF Traced, Fresh
<1> QED BY <1>1, <1>2 DEF IInv

\* An hour's task reads the files as they are now.
LEMMA AggregateStep ==
  ASSUME IInv, NEW t \in Targets, NEW h \in HourSet, AggregateHour(t, h) PROVE IInv'
<1>1. /\ UNCHANGED <<files, late, seen, phase, summary, context, report>>
      /\ hourly' = [hourly EXCEPT ![t] = [hourly[t] EXCEPT ![h] = Hour(t, files[t], h)]]
      /\ done' = [done EXCEPT ![t] = done[t] \cup {h}]
      /\ phase[t] = "hours"
  BY DEF AggregateHour
<1>2. Shape'  BY <1>1 DEF IInv, Shape
<1>3. ASSUME NEW u \in Targets, u # t PROVE Traced(u)'
  <2>1. Traced(u) /\ Shape  BY DEF IInv
  <2>2. hourly'[u] = hourly[u] /\ done'[u] = done[u]  BY <1>1, <1>3, <2>1 DEF Shape
  <2> QED BY <1>1, <2>1, <2>2, Untouched
<1>4. Traced(t)'
  <2>1. Traced(t) /\ Shape  BY DEF IInv
  <2>2. /\ hourly'[t] = [hourly[t] EXCEPT ![h] = Hour(t, files[t], h)]
        /\ done'[t] = done[t] \cup {h}
    BY <1>1, <2>1 DEF Shape
  <2>3. ASSUME NEW g \in done'[t] PROVE HourRead(t, g, hourly[t][g])'
    <3>1. CASE g = h
      <4>1. hourly'[t][g] = Hour(t, files[t], h)  BY <2>1, <2>2, <3>1 DEF Shape
      <4>2. seen[t] \subseteq files[t]  BY <2>1 DEF Traced
      <4> QED BY <1>1, <3>1, <4>1, <4>2 DEF HourRead
    <3>2. CASE g # h
      <4>1. g \in done[t] /\ g \in HourSet  BY <2>1, <2>2, <3>2, <2>3 DEF Shape
      <4>2. hourly'[t][g] = hourly[t][g]  BY <2>1, <2>2, <3>2, <4>1 DEF Shape
      <4>3. HourRead(t, g, hourly[t][g])  BY <2>1, <4>1 DEF Traced
      <4> QED BY <1>1, <4>2, <4>3 DEF HourRead
    <3> QED BY <3>1, <3>2
  <2>4. /\ WellFormed(t, files[t] \cup late[t])' /\ (seen[t] \subseteq files[t])'
        /\ report'[t] # None => ReportOf(t, files'[t], report'[t])
    BY <1>1, <2>1 DEF Traced
  <2> QED BY <1>1, <2>3, <2>4 DEF Traced, Fresh
<1>5. ASSUME NEW u \in Targets PROVE Traced(u)'  BY <1>3, <1>4
<1> QED BY <1>2, <1>5 DEF IInv

\* The merge finds every hour done.
LEMMA MergeStep == ASSUME IInv, NEW t \in Targets, Merge(t) PROVE IInv'
<1>1. /\ UNCHANGED <<files, late, seen, done, hourly, context, report>>
      /\ summary' = [summary EXCEPT ![t] = MergeDaily(t, HoursOf(t))]
      /\ phase' = [phase EXCEPT ![t] = "merged"]
      /\ done[t] = HourSet
  BY DEF Merge, HoursOf
<1>2. Shape'  BY <1>1 DEF IInv, Shape
<1>3. ASSUME NEW u \in Targets, u # t PROVE Traced(u)'
  <2>1. Traced(u) /\ Shape  BY DEF IInv
  <2>2. summary'[u] = summary[u] /\ phase'[u] = phase[u]  BY <1>1, <1>3, <2>1 DEF Shape
  <2> QED BY <1>1, <2>1, <2>2, Untouched
<1>4. Traced(t)'
  <2>1. Traced(t) /\ Shape  BY DEF IInv
  <2>2. summary'[t] = MergeDaily(t, HoursOf(t)) /\ phase'[t] = "merged"
    BY <1>1, <2>1 DEF Shape
  <2>3. HoursOf(t)' = HoursOf(t)  BY <1>1 DEF HoursOf
  <2>4. /\ WellFormed(t, files[t] \cup late[t])' /\ (seen[t] \subseteq files[t])'
        /\ report'[t] # None => ReportOf(t, files'[t], report'[t])
        /\ \A h \in done'[t] : HourRead(t, h, hourly[t][h])'
    BY <1>1, <2>1 DEF Traced, HourRead
  <2>5. done'[t] = HourSet /\ summary'[t] = MergeDaily(t, HoursOf(t)')  BY <1>1, <2>2, <2>3
  <2> QED BY <2>2, <2>4, <2>5 DEF Traced, Fresh
<1>5. ASSUME NEW u \in Targets PROVE Traced(u)'  BY <1>3, <1>4
<1> QED BY <1>2, <1>5 DEF IInv

\* The context is the summary.
LEMMA ContextStep == ASSUME IInv, NEW t \in Targets, WriteContext(t) PROVE IInv'
<1>1. /\ UNCHANGED <<files, late, seen, done, hourly, summary, report>>
      /\ context' = [context EXCEPT ![t] = summary[t]]
      /\ phase' = [phase EXCEPT ![t] = "generate"]
      /\ phase[t] = "merged"
  BY DEF WriteContext
<1>2. Shape'  BY <1>1 DEF IInv, Shape
<1>3. ASSUME NEW u \in Targets, u # t PROVE Traced(u)'
  <2>1. Traced(u) /\ Shape  BY DEF IInv
  <2>2. context'[u] = context[u] /\ phase'[u] = phase[u]  BY <1>1, <1>3, <2>1 DEF Shape
  <2> QED BY <1>1, <2>1, <2>2, Untouched
<1>4. Traced(t)'
  <2>1. Traced(t) /\ Shape  BY DEF IInv
  <2>2. context'[t] = summary'[t]  BY <1>1, <2>1 DEF Shape
  <2>3. HoursOf(t)' = HoursOf(t)  BY <1>1 DEF HoursOf
  <2>4. /\ WellFormed(t, files[t] \cup late[t])' /\ (seen[t] \subseteq files[t])'
        /\ report'[t] # None => ReportOf(t, files'[t], report'[t])
        /\ \A h \in done'[t] : HourRead(t, h, hourly[t][h])'
    BY <1>1, <2>1 DEF Traced, HourRead
  <2>5. done'[t] = HourSet /\ summary'[t] = MergeDaily(t, HoursOf(t)')
    BY <1>1, <2>1, <2>3 DEF Traced
  <2> QED BY <2>2, <2>4, <2>5 DEF Traced
<1>5. ASSUME NEW u \in Targets PROVE Traced(u)'  BY <1>3, <1>4
<1> QED BY <1>2, <1>5 DEF IInv

\* F[h] are the records of which an hour's summary is.
ReadOf(t, F) ==
  /\ F \in [HourSet -> SUBSET files[t]]
  /\ \A h \in HourSet : seen[t] \subseteq F[h] /\ hourly[t][h] = Hour(t, F[h], h)
  /\ context[t] = MergeDaily(t, [k \in 1..Hours |-> Hour(t, F[k - 1], k - 1)])

\* The records a context is made of.
LEMMA ContextRead ==
  ASSUME NEW t \in Targets, Traced(t), Fresh(t)
  PROVE  \E F : ReadOf(t, F)
<1>1. \A h \in HourSet : HourRead(t, h, hourly[t][h])  BY DEF Traced, Fresh
<1> DEFINE F == [h \in HourSet |->
                   CHOOSE G \in SUBSET files[t] :
                     seen[t] \subseteq G /\ hourly[t][h] = Hour(t, G, h)]
<1>2. ASSUME NEW h \in HourSet
      PROVE  /\ F[h] \in SUBSET files[t] /\ seen[t] \subseteq F[h]
             /\ hourly[t][h] = Hour(t, F[h], h)
  <2>1. \E G \in SUBSET files[t] : seen[t] \subseteq G /\ hourly[t][h] = Hour(t, G, h)
    BY <1>1 DEF HourRead
  <2> QED BY <2>1
<1>3. F \in [HourSet -> SUBSET files[t]]  BY <1>2
<1> HIDE DEF F
<1>4. \A k \in 1..Hours : k - 1 \in HourSet
  BY ReportAssumption DEF ReportAssumption, HourSet
<1>5. HoursOf(t) = [k \in 1..Hours |-> Hour(t, F[k - 1], k - 1)]
  BY <1>2, <1>4 DEF HoursOf
<1>6. context[t] = MergeDaily(t, HoursOf(t))  BY DEF Traced, Fresh
<1>7. ReadOf(t, F)  BY <1>2, <1>3, <1>5, <1>6 DEF ReadOf
<1> QED BY <1>7

\* A report of a fresh context is made of hours that were read.
LEMMA TracedReport ==
  ASSUME NEW t \in Targets, Traced(t), Fresh(t)
  PROVE  ReportOf(t, files[t], Text(t, context[t]))
<1>1. PICK F : ReadOf(t, F)  BY ContextRead
<1> QED BY <1>1 DEF ReportOf, ReadOf

\* A report is made of the context.
LEMMA GenerateStep == ASSUME IInv, NEW t \in Targets, Generate(t) PROVE IInv'
<1>1. /\ UNCHANGED <<files, late, seen, done, hourly, summary, context>>
      /\ report' = [report EXCEPT ![t] = Text(t, context[t])]
      /\ phase' = [phase EXCEPT ![t] = "reported"]
      /\ phase[t] = "generate"
  BY DEF Generate
<1>2. Shape'  BY <1>1 DEF IInv, Shape
<1>3. ASSUME NEW u \in Targets, u # t PROVE Traced(u)'
  <2>1. Traced(u) /\ Shape  BY DEF IInv
  <2>2. report'[u] = report[u] /\ phase'[u] = phase[u]  BY <1>1, <1>3, <2>1 DEF Shape
  <2> QED BY <1>1, <2>1, <2>2, Untouched
<1>4. Traced(t)'
  <2>1. Traced(t) /\ Shape  BY DEF IInv
  <2>2. Fresh(t)  BY <1>1 DEF Fresh
  <2>3. HoursOf(t)' = HoursOf(t)  BY <1>1 DEF HoursOf
  <2>4. /\ WellFormed(t, files[t] \cup late[t])' /\ (seen[t] \subseteq files[t])'
        /\ \A h \in done'[t] : HourRead(t, h, hourly[t][h])'
    BY <1>1, <2>1 DEF Traced, HourRead
  <2>5. done'[t] = HourSet /\ summary'[t] = MergeDaily(t, HoursOf(t)')
    BY <1>1, <2>1, <2>3 DEF Traced
  <2>6. context'[t] = summary'[t]  BY <1>1, <2>1, <2>2 DEF Traced
  <2>7. report'[t] = Text(t, context[t])  BY <1>1, <2>1 DEF Shape
  <2>8. ReportOf(t, files'[t], report'[t])
    BY <1>1, <2>1, <2>2, <2>7, TracedReport
  <2> QED BY <2>4, <2>5, <2>6, <2>8 DEF Traced
<1>5. ASSUME NEW u \in Targets PROVE Traced(u)'  BY <1>3, <1>4
<1> QED BY <1>2, <1>5 DEF IInv

\* The target's branch ends, or its execution fails.
LEMMA PhaseStep ==
  ASSUME IInv, NEW t \in Targets, NEW p,
         UNCHANGED <<files, late, seen, done, hourly, summary, context, report>>,
         phase' = [phase EXCEPT ![t] = p],
         p = "failed" \/ (p = "done" /\ Fresh(t))
  PROVE  IInv'
<1>1. Shape'  BY DEF IInv, Shape
<1>2. ASSUME NEW u \in Targets PROVE Traced(u)'
  <2>1. Traced(u) /\ Shape  BY DEF IInv
  <2>2. CASE u # t \/ p = "failed"
    <3>1. phase'[u] \in {phase[u], "failed"}  BY <2>1, <2>2 DEF Shape
    <3> QED BY <2>1, <3>1, Untouched
  <2>3. CASE u = t /\ p = "done"
    <3>1. Fresh(t)  BY <2>3
    <3>2. HoursOf(t)' = HoursOf(t)  BY DEF HoursOf
    <3>3. /\ WellFormed(t, files[t] \cup late[t])' /\ (seen[t] \subseteq files[t])'
          /\ report'[t] # None => ReportOf(t, files'[t], report'[t])
          /\ \A h \in done'[t] : HourRead(t, h, hourly[t][h])'
      BY <2>1, <2>3 DEF Traced, HourRead
    <3>4. done'[t] = HourSet /\ summary'[t] = MergeDaily(t, HoursOf(t)')
      BY <2>1, <2>3, <3>1, <3>2 DEF Traced, Fresh
    <3>5. context'[t] = summary'[t]  BY <2>1, <2>3, <3>1 DEF Traced
    <3> QED BY <2>3, <3>3, <3>4, <3>5 DEF Traced
  <2> QED BY <2>2, <2>3
<1> QED BY <1>1, <1>2 DEF IInv

\* Records are only added to those that were read.
LEMMA ArriveStep == ASSUME IInv, Arrive PROVE IInv'
<1>1. /\ UNCHANGED <<done, phase, hourly, summary, context, report, seen>>
      /\ \A t \in Targets : files'[t] = files[t] \cup late[t] /\ late'[t] = {}
  BY DEF Arrive, store
<1>2. Shape'  BY <1>1 DEF IInv, Shape
<1>3. ASSUME NEW t \in Targets PROVE Traced(t)'
  <2>1. Traced(t)  BY DEF IInv
  <2>2. (files[t] \cup late[t])' = files[t] \cup late[t]  BY <1>1
  <2>3. files[t] \subseteq files'[t]  BY <1>1
  <2>4. HoursOf(t)' = HoursOf(t)  BY <1>1 DEF HoursOf
  <2>5. WellFormed(t, (files[t] \cup late[t])') /\ (seen[t] \subseteq files[t])'
    BY <1>1, <2>1, <2>2, <2>3 DEF Traced
  <2>6. \A h \in done'[t] : HourRead(t, h, hourly[t][h])'
    BY <1>1, <2>1, <2>3 DEF Traced, HourRead
  <2>7. phase'[t] \in {"merged", "generate", "reported", "done"} =>
          done'[t] = HourSet /\ summary'[t] = MergeDaily(t, HoursOf(t)')
    BY <1>1, <2>1, <2>4 DEF Traced
  <2>8. Fresh(t)' => context'[t] = summary'[t]  BY <1>1, <2>1 DEF Traced, Fresh
  <2>9. ASSUME report'[t] # None PROVE ReportOf(t, files'[t], report'[t])
    <3>1. ReportOf(t, files[t], report[t])  BY <1>1, <2>1, <2>9 DEF Traced
    <3>2. PICK F \in [HourSet -> SUBSET files[t]] :
            report[t] = Text(t, MergeDaily(t, [k \in 1..Hours |-> Hour(t, F[k - 1], k - 1)]))
      BY <3>1 DEF ReportOf
    <3>3. F \in [HourSet -> SUBSET files'[t]]  BY <2>3
    <3> QED BY <1>1, <3>2, <3>3 DEF ReportOf
  <2> QED BY <2>5, <2>6, <2>7, <2>8, <2>9 DEF Traced
<1> QED BY <1>2, <1>3 DEF IInv

\* A step that changes no file.
LEMMA StutterStep ==
  ASSUME IInv, UNCHANGED <<files, late, seen, done, phase, hourly, summary, context, report>>
  PROVE  IInv'
<1>1. Shape'  BY DEF IInv, Shape
<1>2. ASSUME NEW t \in Targets PROVE Traced(t)'
  <2>1. Traced(t)  BY DEF IInv
  <2> QED BY <2>1, Untouched
<1> QED BY <1>1, <1>2 DEF IInv

\* Every step keeps the invariant.
LEMMA ReportInvariant == Spec => []IInv
<1>1. Init => IInv  BY InitTraced
<1>2. IInv /\ [Next]_vars => IInv'
  <2> SUFFICES ASSUME IInv, [Next]_vars PROVE IInv'  OBVIOUS
  <2>1. CASE PrepareReportWindow  BY <2>1, PrepareStep
  <2>2. ASSUME NEW t \in Targets, Branch(t) PROVE IInv'
    <3>1. ASSUME NEW h \in HourSet, AggregateHour(t, h) PROVE IInv'  BY <3>1, AggregateStep
    <3>2. CASE Merge(t)  BY <3>2, MergeStep
    <3>3. CASE WriteContext(t)  BY <3>3, ContextStep
    <3>4. CASE Generate(t)  BY <3>4, GenerateStep
    <3>5. CASE ValidationFailed(t)
      <4>1. /\ UNCHANGED <<files, late, seen, done, hourly, summary, context, report>>
            /\ phase' = [phase EXCEPT ![t] = "done"] /\ phase[t] = "generate"
        BY <3>5 DEF ValidationFailed, store
      <4>2. Fresh(t)  BY <4>1 DEF Fresh
      <4> QED BY <4>1, <4>2, PhaseStep
    <3>6. CASE WriteMetadata(t)
      <4>1. /\ UNCHANGED <<files, late, seen, done, hourly, summary, context, report>>
            /\ phase' = [phase EXCEPT ![t] = "done"] /\ phase[t] = "reported"
        BY <3>6 DEF WriteMetadata
      <4>2. Fresh(t)  BY <4>1 DEF Fresh
      <4> QED BY <4>1, <4>2, PhaseStep
    <3> QED BY <2>2, <3>1, <3>2, <3>3, <3>4, <3>5, <3>6 DEF Branch
  <2>3. ASSUME NEW t \in Targets, TaskFails(t) PROVE IInv'
    <3>1. /\ UNCHANGED <<files, late, seen, done, hourly, summary, context, report>>
          /\ phase' = [phase EXCEPT ![t] = "failed"]
      BY <2>3 DEF TaskFails, store
    <3> QED BY <3>1, PhaseStep
  <2>4. CASE Succeed
    <3>1. UNCHANGED <<files, late, seen, done, phase, hourly, summary, context, report>>
      BY <2>4 DEF Succeed, store
    <3> QED BY <3>1, StutterStep
  <2>5. CASE Arrive  BY <2>5, ArriveStep
  <2>6. CASE UNCHANGED vars
    <3>1. UNCHANGED <<files, late, seen, done, phase, hourly, summary, context, report>>
      BY <2>6 DEF vars, store
    <3> QED BY <3>1, StutterStep
  <2> QED BY <2>1, <2>2, <2>3, <2>4, <2>5, <2>6 DEF Next
<1> QED BY <1>1, <1>2, PTL DEF Spec

-----------------------------------------------------------------------------
(* Counts of a day. *)

\* The names of the factory's datasets.
LEMMA DatasetNames == ToSet(Datasets) = {"factory_state", "risk_score", "infra_state"}
<1> DEFINE s == Datasets
<1>1. /\ DOMAIN s = 1..3 /\ s[1] = "factory_state" /\ s[2] = "risk_score" /\ s[3] = "infra_state"
  BY DEF Datasets
<1> HIDE DEF s
<1>2. \A k \in 1..3 : k = 1 \/ k = 2 \/ k = 3  OBVIOUS
<1>3. ToSet(s) = {s[1], s[2], s[3]}  BY <1>1, <1>2 DEF ToSet
<1> QED BY <1>1, <1>3 DEF s

\* The names of the cloud's streams.
LEMMA StreamNames == ToSet(Streams) = {"fast", "slow"}
<1> DEFINE s == Streams
<1>1. DOMAIN s = 1..2 /\ s[1] = "fast" /\ s[2] = "slow"
  BY DEF Streams
<1> HIDE DEF s
<1>2. \A k \in 1..2 : k = 1 \/ k = 2  OBVIOUS
<1>3. ToSet(s) = {s[1], s[2]}  BY <1>1, <1>2 DEF ToSet
<1> QED BY <1>1, <1>3 DEF s

\* The quality of a factory's day is merged from the hours.
LEMMA FactoryQualityIs == ASSUME NEW hours PROVE MergeFactoryDaily(hours).quality = MergeDataQuality(hours)
BY DEF MergeFactoryDaily, Each, Listed

\* Its count of a dataset is a sum.
LEMMA FactoryActualIs ==
  ASSUME NEW hours, NEW d \in ToSet(Datasets)
  PROVE  MergeDataQuality(hours).actual[d]
           = Total(<< >> \o [k \in DOMAIN hours |-> hours[k].actual[d]])
BY DEF MergeDataQuality, Each, Listed

\* An hour counts the records it reads.
LEMMA FactoryHourActualIs ==
  ASSUME NEW F, NEW h, NEW d \in ToSet(Datasets)
  PROVE  FactoryHour(F, h).actual[d] = Len(HourRecords(F, d, h))
BY DatasetNames DEF FactoryHour

\* The quality of the cloud's day is merged from the hours.
LEMMA CloudQualityIs == ASSUME NEW hours PROVE MergeCloudDaily(hours).quality = MergeCloudQuality(hours)
BY DEF MergeCloudDaily, Each, Listed

\* Its count of a stream is a sum.
LEMMA CloudActualIs ==
  ASSUME NEW hours, NEW d \in ToSet(Streams)
  PROVE  MergeCloudQuality(hours).actual[d]
           = Total(<< >> \o [k \in DOMAIN hours |-> hours[k].quality.actual[d]])
BY DEF MergeCloudQuality, Each, Listed

\* An hour counts the snapshots it reads.
LEMMA CloudHourActualIs ==
  ASSUME NEW F, NEW h, NEW d \in ToSet(Streams)
  PROVE  CloudHour(F, h).quality.actual[d] = Len(HourRecords(F, d, h))
BY StreamNames DEF CloudHour, CloudDataQuality, Each, Listed

\* The hours of a day, as the merge gets them.
DayOf(t, F) == [k \in 1..Hours |-> Hour(t, F[k - 1], k - 1)]

\* A part of what is stored is stored as well.
LEMMA StoredPart == ASSUME NEW B, Stored(B), NEW G \in SUBSET B PROVE Stored(G)
<1>1. IsFiniteSet(G)  BY FS_Subset DEF Stored
<1> QED BY <1>1 DEF Stored

\* Each hour of a day is in its place.
LEMMA DayHours ==
  ASSUME NEW t, NEW F
  PROVE  /\ DOMAIN DayOf(t, F) = 1..Hours
         /\ \A k \in 1..Hours : k - 1 \in HourSet /\ DayOf(t, F)[k] = Hour(t, F[k - 1], k - 1)
         /\ Hours \in Nat \ {0}
BY ReportAssumption DEF ReportAssumption, DayOf, HourSet

\* A day's count is the sum of what the hours read.
LEMMA CountedInDay ==
  ASSUME NEW t \in Targets, NEW F, NEW d \in DatasetsOf[t]
  PROVE  MergeDaily(t, DayOf(t, F)).quality.actual[d]
           = Total(<< >> \o [k \in 1..Hours |-> Len(HourRecords(F[k - 1], d, k - 1))])
<1> DEFINE hs == DayOf(t, F)
<1>1. DOMAIN hs = 1..Hours /\ \A k \in 1..Hours : hs[k] = Hour(t, F[k - 1], k - 1)  BY DayHours
<1> HIDE DEF hs
<1>2. CASE t = "factory"
  <2>1. d \in ToSet(Datasets)  BY <1>2 DEF DatasetsOf
  <2>2. MergeDaily(t, hs).quality.actual[d] = Total(<< >> \o [k \in DOMAIN hs |-> hs[k].actual[d]])
    BY <1>2, <2>1, FactoryQualityIs, FactoryActualIs DEF MergeDaily
  <2>3. \A k \in 1..Hours : hs[k].actual[d] = Len(HourRecords(F[k - 1], d, k - 1))
    BY <1>1, <1>2, <2>1, FactoryHourActualIs DEF Hour
  <2>4. [k \in DOMAIN hs |-> hs[k].actual[d]]
          = [k \in 1..Hours |-> Len(HourRecords(F[k - 1], d, k - 1))]
    BY <1>1, <2>3
  <2> QED BY <2>2, <2>4 DEF hs
<1>3. CASE t = "cloud"
  <2>1. d \in ToSet(Streams)  BY <1>3 DEF DatasetsOf
  <2>2. MergeDaily(t, hs).quality.actual[d]
          = Total(<< >> \o [k \in DOMAIN hs |-> hs[k].quality.actual[d]])
    BY <1>3, <2>1, CloudQualityIs, CloudActualIs DEF MergeDaily
  <2>3. \A k \in 1..Hours : hs[k].quality.actual[d] = Len(HourRecords(F[k - 1], d, k - 1))
    BY <1>1, <1>3, <2>1, CloudHourActualIs DEF Hour
  <2>4. [k \in DOMAIN hs |-> hs[k].quality.actual[d]]
          = [k \in 1..Hours |-> Len(HourRecords(F[k - 1], d, k - 1))]
    BY <1>1, <2>3
  <2> QED BY <2>2, <2>4 DEF hs
<1> QED BY <1>2, <1>3 DEF Targets

\* A day's context counts every record that was there when the execution
\* started, and none twice.
THEOREM ContextsCountTheDay == Spec => []DayAccountedFor
<1>1. IInv => DayAccountedFor
  <2> SUFFICES ASSUME IInv, NEW t \in Targets, Fresh(t), NEW d \in DatasetsOf[t]
               PROVE  context[t].quality.actual[d] \in
                        Cardinality(Of(seen[t], d))..Cardinality(Of(files[t], d))
    BY DEF DayAccountedFor
  <2>1. Traced(t)  BY DEF IInv
  <2>2. PICK F : ReadOf(t, F)  BY <2>1, ContextRead
  <2>3. context[t] = MergeDaily(t, DayOf(t, F))  BY <2>2 DEF ReadOf, DayOf
  <2> DEFINE p == [k \in 1..Hours |-> Len(HourRecords(F[k - 1], d, k - 1))]
             G == [k \in 1..Hours |-> F[k - 1]]
  <2>4. context[t].quality.actual[d] = Total(<< >> \o p)  BY <2>3, CountedInDay
  <2>5. Stored(files[t])
    <3>1. Stored(files[t] \cup late[t])  BY <2>1 DEF Traced, WellFormed
    <3> QED BY <3>1, StoredPart
  <2>6. ASSUME NEW k \in 1..Hours
        PROVE  /\ seen[t] \subseteq G[k] /\ G[k] \subseteq files[t]
               /\ p[k] = Cardinality(InHour(G[k], d, k - 1)) /\ p[k] \in Nat
    <3>1. k - 1 \in HourSet  BY DayHours
    <3>2. seen[t] \subseteq F[k - 1] /\ F[k - 1] \subseteq files[t]  BY <2>2, <3>1 DEF ReadOf
    <3>3. Stored(F[k - 1])  BY <2>5, <3>2, StoredPart
    <3>4. /\ IsFiniteSet(InHour(F[k - 1], d, k - 1))
          /\ Len(HourRecords(F[k - 1], d, k - 1)) = Cardinality(InHour(F[k - 1], d, k - 1))
      BY <3>3, HourRecordsAre
    <3>5. Cardinality(InHour(F[k - 1], d, k - 1)) \in Nat  BY <3>4, FS_CardinalityType
    <3> QED BY <3>2, <3>4, <3>5
  <2>7. p \in [1..Hours -> Nat]
    <3>1. p = [k \in 1..Hours |-> p[k]]  OBVIOUS
    <3> HIDE DEF p, G
    <3> QED BY <2>6, <3>1
  <2> HIDE DEF p, G
  <2>8. Hours \in Nat  BY ReportAssumption DEF ReportAssumption
  <2>9. p \in Seq(Nat) /\ Len(p) = Hours /\ << >> \o p = p  BY <2>7, <2>8, ListOf
  <2>10. Total(p) \in Cardinality(Of(seen[t], d))..Cardinality(Of(files[t], d))
    <3>1. seen[t] \subseteq files[t]  BY <2>1 DEF Traced
    <3> QED BY <2>5, <2>6, <2>9, <3>1, CountsAddUp
  <2> QED BY <2>4, <2>9, <2>10
<1> QED BY <1>1, ReportInvariant, PTL

-----------------------------------------------------------------------------
(* Levels of a day. *)

\* Every time of the day is in one of its hours.
LEMMA HourOfTime ==
  ASSUME NEW x \in 0..Hours * HourTicks - 1
  PROVE  \E k \in 1..Hours : Start(k - 1) <= x /\ x < ExclusiveEnd(End(k - 1))
<1> DEFINE t == [k \in 0..Hours |-> IF x < Start(k) THEN 1 ELSE 0]
<1>0. HourTicks \in Nat \ {0} /\ Hours \in Nat \ {0} /\ Hours * HourTicks \in Int
  BY ReportAssumption DEF ReportAssumption
<1>1. Start(0) = 0 /\ Start(Hours) = Hours * HourTicks
  <2>1. 0 \in Int  OBVIOUS
  <2> QED BY <2>1, HoursFollow
<1>2. x \in Int /\ ~ (x < 0) /\ x < Hours * HourTicks  BY <1>0
<1>3. t[0] = 0 /\ t[Hours] = 1  BY <1>0, <1>1, <1>2
<1>4. PICK k \in 1..Hours : t[k] # t[k - 1]
  <2> HIDE DEF t
  <2>1. t[Hours] # t[0] /\ Hours \in Nat  BY <1>0, <1>3
  <2> QED BY <2>1, Moved
<1>5. k - 1 \in Int /\ (k - 1) + 1 = k /\ k \in 0..Hours /\ k - 1 \in 0..Hours  BY <1>0
<1>6. Start(k) = Start(k - 1) + HourTicks /\ Start(k - 1) \in Int
      /\ ExclusiveEnd(End(k - 1)) = Start(k)
  BY <1>5, HoursFollow
<1>7. (x < Start(k)) # (x < Start(k - 1))  BY <1>4, <1>5
<1> HIDE DEF t
<1>8. Start(k - 1) <= x /\ x < Start(k)  BY <1>0, <1>2, <1>6, <1>7
<1> QED BY <1>6, <1>8

\* The minutes of an hour's records of the risk that have some level.
LevelMinutes(R, level) ==
  Minutes(Cardinality({k \in DOMAIN R : R[k].level = level}), "risk_score")

\* Minutes of a level are above 0 once a record has the level.
LEMMA MinutesPositive ==
  ASSUME NEW R, NEW S, R \in Seq(S), NEW level
  PROVE  /\ LevelMinutes(R, level) \in Nat
         /\ (\E k \in 1..Len(R) : R[k].level = level) => LevelMinutes(R, level) > 0
<1> DEFINE K == {k \in DOMAIN R : R[k].level = level}
           i == Interval["risk_score"]
           c == Cardinality(K)
<1>1. Len(R) \in Nat /\ DOMAIN R = 1..Len(R)  BY PartsOf
<1>2. IsFiniteSet(1..Len(R))
  <2>1. 1 \in Int /\ Len(R) \in Int  BY <1>1
  <2> QED BY <2>1, FS_Interval
<1>3. K \subseteq 1..Len(R)  BY <1>1
<1>4. (\E k \in 1..Len(R) : R[k].level = level) => K # {}  BY <1>1
<1>5. LevelMinutes(R, level) = c * i  BY DEF LevelMinutes, Minutes
<1>6. i \in Nat \ {0}  BY DatasetNames, FactoryAssumption DEF FactoryAssumption
<1> HIDE DEF K, i
<1>7. IsFiniteSet(K)  BY <1>2, <1>3, FS_Subset
<1>8. c \in Nat /\ (K # {} => c # 0)  BY <1>7, FS_CardinalityType, FS_EmptySet
<1> HIDE DEF c
<1>9. c * i \in Nat  BY <1>6, <1>8
<1>10. c # 0 => c * i > 0  BY <1>6, <1>8
<1> QED BY <1>4, <1>5, <1>8, <1>9, <1>10

\* The risk part of an hour's summary.
LEMMA FactoryRiskIs ==
  ASSUME NEW F, NEW h
  PROVE  /\ FactoryHour(F, h).risk.dangerMinutes
              = LevelMinutes(HourRecords(F, "risk_score", h), "danger")
         /\ FactoryHour(F, h).risk.warningMinutes
              = LevelMinutes(HourRecords(F, "risk_score", h), "warning")
         /\ FactoryHour(F, h).risk.scores = {r.score : r \in ToSet(HourRecords(F, "risk_score", h))}
<1>1. FactoryHour(F, h).risk = RiskSummary(HourRecords(F, "risk_score", h))
  BY DEF FactoryHour
<1>2. ASSUME NEW R
      PROVE  /\ RiskSummary(R).dangerMinutes = LevelMinutes(R, "danger")
             /\ RiskSummary(R).warningMinutes = LevelMinutes(R, "warning")
             /\ RiskSummary(R).scores = {r.score : r \in ToSet(R)}
  BY DEF RiskSummary, Count, LevelMinutes
<1> QED BY <1>1, <1>2

\* The risk part of a day's summary.
LEMMA DayRiskIs ==
  ASSUME NEW hours
  PROVE  /\ MergeFactoryDaily(hours).risk.dangerMinutes
              = Total(<< >> \o [k \in DOMAIN hours |-> hours[k].risk.dangerMinutes])
         /\ MergeFactoryDaily(hours).risk.warningMinutes
              = Total(<< >> \o [k \in DOMAIN hours |-> hours[k].risk.warningMinutes])
         /\ MergeFactoryDaily(hours).risk.scores = UNION {h.risk.scores : h \in ToSet(hours)}
<1>1. MergeFactoryDaily(hours).risk = MergeRisk(hours)
  BY DEF MergeFactoryDaily, Each, Listed
<1>2. /\ MergeRisk(hours).dangerMinutes
              = Total(<< >> \o [k \in DOMAIN hours |-> hours[k].risk.dangerMinutes])
      /\ MergeRisk(hours).warningMinutes
              = Total(<< >> \o [k \in DOMAIN hours |-> hours[k].risk.warningMinutes])
      /\ MergeRisk(hours).scores = UNION {h.risk.scores : h \in ToSet(hours)}
  BY DEF MergeRisk, Each, Listed
<1> QED BY <1>1, <1>2

\* The day's minutes of a level count every hour with a record of it.
LEMMA DayLevel ==
  ASSUME NEW F, \A h \in HourSet : Stored(F[h]), NEW level \in {"danger", "warning"},
         NEW h \in HourSet, NEW r \in InHour(F[h], "risk_score", h), r.level = level
  PROVE  Total(<< >> \o [k \in 1..Hours |->
                   LevelMinutes(HourRecords(F[k - 1], "risk_score", k - 1), level)]) > 0
<1> DEFINE R(k) == HourRecords(F[k - 1], "risk_score", k - 1)
           p == [k \in 1..Hours |-> LevelMinutes(R(k), level)]
<1>0. Hours \in Nat \ {0} /\ \A k \in 1..Hours : k - 1 \in HourSet
  BY ReportAssumption DEF ReportAssumption, HourSet
<1>1. ASSUME NEW k \in 1..Hours PROVE R(k) \in Seq(InHour(F[k - 1], "risk_score", k - 1))
  BY <1>0, HourRecordsAre
<1>2. ASSUME NEW k \in 1..Hours PROVE LevelMinutes(R(k), level) \in Nat
  <2> HIDE DEF R
  <2> QED BY <1>1, MinutesPositive
<1>3. p \in [1..Hours -> Nat]  BY <1>2
<1>4. p \in Seq(Nat) /\ Len(p) = Hours /\ << >> \o p = p
  <2> HIDE DEF p
  <2> QED BY <1>0, <1>3, ListOf
<1> DEFINE k == h + 1
<1>5. k \in 1..Hours /\ k - 1 = h  BY <1>0 DEF HourSet
<1> HIDE DEF k
<1>6. \E j \in 1..Len(R(k)) : R(k)[j] = r
  BY <1>0, <1>5, HourRecordsAre
<1>7. LevelMinutes(R(k), level) > 0
  <2>1. \E j \in 1..Len(R(k)) : R(k)[j].level = level  BY <1>6
  <2>2. R(k) \in Seq(InHour(F[k - 1], "risk_score", k - 1))  BY <1>1, <1>5
  <2> HIDE DEF R
  <2> QED BY <2>1, <2>2, MinutesPositive
<1>8. p[k] > 0  BY <1>5, <1>7
<1>9. p[k] <= Total(p) /\ Total(p) \in Nat /\ p[k] \in Nat
  <2> HIDE DEF p
  <2> QED BY <1>3, <1>4, <1>5, TotalOfNumbers
<1>10. Total(p) > 0
  <2> DEFINE a == Total(p)
             b == p[k]
  <2>1. b > 0 /\ b <= a /\ a \in Nat /\ b \in Nat  BY <1>8, <1>9
  <2> HIDE DEF a, b
  <2>2. a > 0  BY <2>1
  <2> QED BY <2>2 DEF a
<1> QED BY <1>4, <1>10

\* The risk of a day, from the records the hours read.
LEMMA FactoryDayRisk ==
  ASSUME NEW F
  PROVE  LET m == MergeDaily("factory", DayOf("factory", F))
         IN /\ m.risk.dangerMinutes = Total(<< >> \o [k \in 1..Hours |->
                   LevelMinutes(HourRecords(F[k - 1], "risk_score", k - 1), "danger")])
            /\ m.risk.warningMinutes = Total(<< >> \o [k \in 1..Hours |->
                   LevelMinutes(HourRecords(F[k - 1], "risk_score", k - 1), "warning")])
            /\ \A s \in m.risk.scores : \E k \in 1..Hours :
                 \E r \in ToSet(HourRecords(F[k - 1], "risk_score", k - 1)) : r.score = s
<1> DEFINE hs == DayOf("factory", F)
           m == MergeDaily("factory", hs)
<1>1. DOMAIN hs = 1..Hours /\ \A k \in 1..Hours : hs[k] = FactoryHour(F[k - 1], k - 1)
  BY DayHours DEF Hour
<1> HIDE DEF hs
<1>2. m = MergeFactoryDaily(hs)  BY DEF MergeDaily
<1>3. /\ m.risk.dangerMinutes = Total(<< >> \o [k \in DOMAIN hs |-> hs[k].risk.dangerMinutes])
      /\ m.risk.warningMinutes = Total(<< >> \o [k \in DOMAIN hs |-> hs[k].risk.warningMinutes])
      /\ m.risk.scores = UNION {h.risk.scores : h \in ToSet(hs)}
  BY <1>2, DayRiskIs
<1>4. \A k \in 1..Hours :
        /\ hs[k].risk.dangerMinutes
             = LevelMinutes(HourRecords(F[k - 1], "risk_score", k - 1), "danger")
        /\ hs[k].risk.warningMinutes
             = LevelMinutes(HourRecords(F[k - 1], "risk_score", k - 1), "warning")
        /\ hs[k].risk.scores = {r.score : r \in ToSet(HourRecords(F[k - 1], "risk_score", k - 1))}
  BY <1>1, FactoryRiskIs
<1>5. [k \in DOMAIN hs |-> hs[k].risk.dangerMinutes]
        = [k \in 1..Hours |-> LevelMinutes(HourRecords(F[k - 1], "risk_score", k - 1), "danger")]
  BY <1>1, <1>4
<1>6. [k \in DOMAIN hs |-> hs[k].risk.warningMinutes]
        = [k \in 1..Hours |-> LevelMinutes(HourRecords(F[k - 1], "risk_score", k - 1), "warning")]
  BY <1>1, <1>4
<1> HIDE DEF m
<1>7. ASSUME NEW s \in m.risk.scores
      PROVE  \E k \in 1..Hours :
               \E r \in ToSet(HourRecords(F[k - 1], "risk_score", k - 1)) : r.score = s
  <2>1. PICK h \in ToSet(hs) : s \in h.risk.scores  BY <1>3
  <2>2. PICK k \in 1..Hours : h = hs[k]  BY <1>1, <2>1 DEF ToSet
  <2>3. s \in {r.score : r \in ToSet(HourRecords(F[k - 1], "risk_score", k - 1))}
    BY <1>4, <2>1, <2>2
  <2> QED BY <2>3
<1> QED BY <1>3, <1>5, <1>6, <1>7 DEF m, hs

-----------------------------------------------------------------------------
(* Lists that may be empty. *)

\* A list of things of whatever kind.
IsList(s) == \E S : s \in Seq(S)

\* What a list is made of.
LEMMA ListIs ==
  ASSUME NEW s, IsList(s)
  PROVE  /\ Len(s) \in Nat /\ DOMAIN s = 1..Len(s) /\ s \in Seq(ToSet(s))
         /\ s = << >> <=> Len(s) = 0
         /\ << >> \o s = s
<1>1. PICK S : s \in Seq(S)  BY DEF IsList
<1>2. Len(s) \in Nat /\ DOMAIN s = 1..Len(s) /\ s \in [1..Len(s) -> S] /\ (s = << >> <=> Len(s) = 0)
  BY <1>1, PartsOf
<1>3. \A k \in 1..Len(s) : s[k] \in ToSet(s)  BY <1>2 DEF ToSet
<1>4. s \in [1..Len(s) -> ToSet(s)]  BY <1>2, <1>3
<1>5. s \in Seq(ToSet(s))  BY <1>2, <1>4, ListOf
<1>6. << >> \o s = s  BY <1>1
<1> QED BY <1>2, <1>5, <1>6

\* A function of 1..n is a list.
LEMMA ListFrom ==
  ASSUME NEW n \in Nat, NEW f, f = [k \in 1..n |-> f[k]]
  PROVE  IsList(f) /\ Len(f) = n /\ DOMAIN f = 1..n /\ << >> \o f = f
<1> DEFINE S == {f[k] : k \in 1..n}
<1>1. f \in [1..n -> S]  OBVIOUS
<1> HIDE DEF S
<1>2. f \in Seq(S) /\ Len(f) = n /\ DOMAIN f = 1..n /\ << >> \o f = f  BY <1>1, ListOf
<1> QED BY <1>2 DEF IsList

\* Two lists make a list.
LEMMA ListsJoin ==
  ASSUME NEW s, NEW t, IsList(s), IsList(t)
  PROVE  IsList(s \o t) /\ Len(s \o t) = Len(s) + Len(t)
<1>1. PICK S : s \in Seq(S)  BY DEF IsList
<1>2. PICK T : t \in Seq(T)  BY DEF IsList
<1>3. s \in Seq(S \cup T) /\ t \in Seq(S \cup T)
  <2>1. s \in [1..Len(s) -> S] /\ t \in [1..Len(t) -> T] /\ Len(s) \in Nat /\ Len(t) \in Nat
    BY <1>1, <1>2, PartsOf
  <2>2. s \in [1..Len(s) -> S \cup T] /\ t \in [1..Len(t) -> S \cup T]  BY <2>1
  <2> QED BY <2>1, <2>2, ListOf
<1>4. s \o t \in Seq(S \cup T) /\ Len(s \o t) = Len(s) + Len(t)  BY <1>3, Both
<1> QED BY <1>4 DEF IsList

\* FlattenSeq() loses nothing.
LEMMA FlattenList ==
  ASSUME NEW n \in Nat, NEW q, q = [k \in 1..n |-> q[k]], \A k \in 1..n : IsList(q[k])
  PROVE  /\ IsList(FlattenSeq(q))
         /\ \A k \in 1..n : FlattenSeq(q) = << >> => q[k] = << >>
<1> DEFINE S == UNION {ToSet(q[k]) : k \in 1..n}
<1>1. ASSUME NEW k \in 1..n PROVE q[k] \in Seq(S) /\ Len(q[k]) \in Nat
  <2>1. /\ Len(q[k]) \in Nat /\ q[k] \in Seq(ToSet(q[k]))  BY ListIs
  <2>2. q[k] \in [1..Len(q[k]) -> ToSet(q[k])]  BY <2>1, PartsOf
  <2>3. ToSet(q[k]) \subseteq S  OBVIOUS
  <2> HIDE DEF S
  <2>4. q[k] \in [1..Len(q[k]) -> S]  BY <2>2, <2>3
  <2> QED BY <2>1, <2>4, ListOf
<1> HIDE DEF S
<1>2. q \in [1..n -> Seq(S)]  BY <1>1
<1>3. q \in Seq(Seq(S)) /\ Len(q) = n  BY <1>2, ListOf
<1>4. PICK c : Beginnings(c, q, S, n) /\ FlattenSeq(q) = c[n]  BY <1>3, FlattenIs
<1>5. /\ c \in [0..n -> Seq(S)] /\ c[0] = << >>
      /\ \A k \in 1..n : c[k] = c[k - 1] \o q[k]
  BY <1>4 DEF Beginnings
<1>6. FlattenSeq(q) \in Seq(S)  BY <1>4, <1>5
<1> DEFINE t == [k \in 0..n |-> Len(c[k])]
<1>7. t \in [0..n -> Int] /\ \A k \in 0..n : t[k] = Len(c[k]) /\ t[k] \in Nat
  BY <1>5, PartsOf
<1> HIDE DEF t
<1>8. ASSUME NEW k \in 1..n PROVE t[k] = t[k - 1] + Len(q[k]) /\ t[k - 1] <= t[k]
  <2>1. k \in 0..n /\ k - 1 \in 0..n  OBVIOUS
  <2>2. c[k - 1] \in Seq(S) /\ q[k] \in Seq(S)  BY <1>1, <1>5, <2>1
  <2>3. Len(c[k]) = Len(c[k - 1]) + Len(q[k])
    <3>1. Len(c[k - 1] \o q[k]) = Len(c[k - 1]) + Len(q[k])  BY <2>2, Both
    <3>2. c[k] = c[k - 1] \o q[k]  BY <1>5
    <3> QED BY <3>1, <3>2
  <2>4. t[k] = Len(c[k]) /\ t[k - 1] = Len(c[k - 1]) /\ t[k - 1] \in Nat  BY <1>7, <2>1
  <2>5. Len(q[k]) \in Nat  BY <1>1
  <2>6. t[k] = t[k - 1] + Len(q[k])  BY <2>3, <2>4
  <2> QED BY <2>4, <2>5, <2>6
<1>9. \A k \in 0..n : t[k] <= t[n]  BY <1>7, <1>8, Grows
<1>10. ASSUME NEW k \in 1..n, FlattenSeq(q) = << >> PROVE q[k] = << >>
  <2>1. k \in 0..n /\ k - 1 \in 0..n /\ n \in 0..n  OBVIOUS
  <2>2. t[n] = 0
    <3>1. c[n] = << >>  BY <1>4, <1>10
    <3>2. t[n] = Len(c[n])  BY <1>7, <2>1
    <3> QED BY <3>1, <3>2
  <2>3. t[k] <= t[n] /\ t[k] = t[k - 1] + Len(q[k]) /\ t[k - 1] \in Nat /\ Len(q[k]) \in Nat
    BY <1>1, <1>7, <1>8, <1>9, <2>1
  <2>4. Len(q[k]) = 0  BY <2>2, <2>3
  <2>5. q[k] \in Seq(S)  BY <1>1
  <2> QED BY <2>4, <2>5, PartsOf
<1> QED BY <1>6, <1>10 DEF IsList

\* Kept() is a list, and empty only if nothing passes.
LEMMA KeptList ==
  ASSUME NEW s, IsList(s), NEW T, NEW q,
         q = [k \in 1..Len(s) |-> IF k \in T THEN <<s[k]>> ELSE << >>]
  PROVE  /\ << >> \o q = q
         /\ IsList(FlattenSeq(q))
         /\ FlattenSeq(q) = << >> => \A k \in 1..Len(s) : k \notin T
<1> DEFINE n == Len(s)
<1>1. n \in Nat  BY ListIs
<1>2. q = [k \in 1..n |-> q[k]]  OBVIOUS
<1>3. ASSUME NEW k \in 1..n PROVE IsList(q[k]) /\ (k \in T => q[k] # << >>)
  <2>1. <<s[k]>> \in Seq({s[k]}) /\ << >> \in Seq({s[k]}) /\ <<s[k]>> # << >>  OBVIOUS
  <2>2. q[k] = IF k \in T THEN <<s[k]>> ELSE << >>  OBVIOUS
  <2> QED BY <2>1, <2>2 DEF IsList
<1> HIDE DEF n
<1>4. << >> \o q = q  BY <1>1, <1>2, ListFrom
<1>5. IsList(FlattenSeq(q)) /\ \A k \in 1..n : FlattenSeq(q) = << >> => q[k] = << >>
  BY <1>1, <1>2, <1>3, FlattenList
<1> QED BY <1>3, <1>4, <1>5 DEF n

\* What is ranked is a list, and empty only if there was nothing to rank.
LEMMA TopList ==
  ASSUME NEW e, IsList(e), NEW limit \in Nat \ {0}
  PROVE  IsList(TopEvents(e, limit)) /\ (TopEvents(e, limit) = << >> <=> e = << >>)
<1>1. Len(e) \in Nat /\ (e = << >> <=> Len(e) = 0)  BY ListIs
<1> DEFINE n == Least(limit, Len(e))
<1>2. n \in Nat /\ (n = 0 <=> Len(e) = 0)  BY <1>1 DEF Least
<1> HIDE DEF n
<1> DEFINE above(x, y) == \/ Score(x) > Score(y)
                          \/ Score(x) = Score(y) /\ x.start > y.start
                          \/ Score(x) = Score(y) /\ x.start = y.start /\ x.end > y.end
           rank(k) == Cardinality({j \in DOMAIN e :
                        above(e[j], e[k]) \/ (~ above(e[k], e[j]) /\ j < k)})
           f == [k \in 1..n |-> e[CHOOSE j \in DOMAIN e : rank(j) = k - 1]]
<1>3. TopEvents(e, limit) = << >> \o f
  BY DEF TopEvents, Ranked, Listed, n
<1>4. f = [k \in 1..n |-> f[k]]  OBVIOUS
<1> HIDE DEF f
<1>5. IsList(f) /\ Len(f) = n /\ << >> \o f = f  BY <1>2, <1>4, ListFrom
<1>6. f = << >> <=> n = 0  BY <1>5, ListIs
<1> QED BY <1>1, <1>2, <1>3, <1>5, <1>6

\* The gaps that are kept are a list, and there are none only if there was none.
LEMMA LongestList ==
  ASSUME NEW e, IsList(e)
  PROVE  IsList(LongestGaps(e)) /\ (LongestGaps(e) = << >> <=> e = << >>)
<1>1. Len(e) \in Nat /\ (e = << >> <=> Len(e) = 0)  BY ListIs
<1> DEFINE n == Least(MaxGaps, Len(e))
<1>2. n \in Nat /\ (n = 0 <=> Len(e) = 0)
  BY <1>1, ReportAssumption DEF Least, ReportAssumption
<1> HIDE DEF n
<1> DEFINE above(x, y) == Length(x) > Length(y)
           rank(k) == Cardinality({j \in DOMAIN e :
                        above(e[j], e[k]) \/ (~ above(e[k], e[j]) /\ j < k)})
           f == [k \in 1..n |-> e[CHOOSE j \in DOMAIN e : rank(j) = k - 1]]
<1>3. LongestGaps(e) = << >> \o f
  BY DEF LongestGaps, Ranked, Listed, n
<1>4. f = [k \in 1..n |-> f[k]]  OBVIOUS
<1> HIDE DEF f
<1>5. IsList(f) /\ Len(f) = n /\ << >> \o f = f  BY <1>2, <1>4, ListFrom
<1>6. f = << >> <=> n = 0  BY <1>5, ListIs
<1> QED BY <1>1, <1>2, <1>3, <1>5, <1>6

-----------------------------------------------------------------------------
(* Gaps and silence. *)

\* The times GapWindows() compares.
Marks(R, start, end) == <<start>> \o (<< >> \o [k \in DOMAIN R |-> R[k].time]) \o <<end>>

\* The marks are the hour's start, the records' times and the hour's end.
LEMMA MarksAre ==
  ASSUME NEW S, \A r \in S : r.time \in Int, NEW R \in Seq(S), NEW start \in Int, NEW end \in Int
  PROVE  LET m == Marks(R, start, end)
         IN /\ Len(m) = Len(R) + 2 /\ Len(R) \in Nat
            /\ m[1] = start /\ m[Len(R) + 2] = end
            /\ \A k \in 1..Len(R) : m[k + 1] = R[k].time
            /\ \A k \in 1..Len(R) + 2 : m[k] \in Int
<1> DEFINE n == Len(R)
           f == [k \in 1..n |-> R[k].time]
           a == <<start>>
           b == a \o f
           c == <<end>>
           m == b \o c
<1>1. n \in Nat /\ DOMAIN R = 1..n /\ \A k \in 1..n : R[k] \in S  BY PartsOf
<1>2. f \in [1..n -> Int]  BY <1>1
<1>3. f \in Seq(Int) /\ Len(f) = n /\ << >> \o f = f  BY <1>1, <1>2, ListOf
<1>4. Marks(R, start, end) = m  BY <1>1, <1>3 DEF Marks
<1>5. a \in Seq(Int) /\ Len(a) = 1 /\ a[1] = start  OBVIOUS
<1>6. c \in Seq(Int) /\ Len(c) = 1 /\ c[1] = end  OBVIOUS
<1>7. \A k \in 1..n : f[k] = R[k].time  OBVIOUS
<1> HIDE DEF a, c, f
<1>8. /\ b \in Seq(Int) /\ Len(b) = 1 + n
      /\ \A k \in 1..Len(a) : b[k] = a[k]
      /\ \A k \in 1..Len(f) : b[Len(a) + k] = f[k]
  <2>1. a \in Seq(Int) /\ f \in Seq(Int)  BY <1>3, <1>5
  <2>2. /\ b \in Seq(Int) /\ Len(b) = Len(a) + Len(f)
        /\ \A k \in 1..Len(a) : b[k] = a[k]
        /\ \A k \in 1..Len(f) : b[Len(a) + k] = f[k]
    BY <2>1, Both
  <2> QED BY <1>3, <1>5, <2>2
<1>9. b[1] = start
  <2>1. 1 \in 1..Len(a)  BY <1>5
  <2> QED BY <1>5, <1>8, <2>1
<1>10. \A k \in 1..n : b[k + 1] = R[k].time
  <2> SUFFICES ASSUME NEW k \in 1..n PROVE b[k + 1] = R[k].time  OBVIOUS
  <2>1. b[Len(a) + k] = f[k]  BY <1>3, <1>8
  <2>2. Len(a) + k = k + 1  BY <1>1, <1>5
  <2> QED BY <1>7, <2>1, <2>2
<1> HIDE DEF b
<1>11. /\ m \in Seq(Int) /\ Len(m) = (1 + n) + 1
       /\ \A k \in 1..Len(b) : m[k] = b[k]
       /\ \A k \in 1..Len(c) : m[Len(b) + k] = c[k]
  <2>1. b \in Seq(Int) /\ c \in Seq(Int)  BY <1>6, <1>8
  <2>2. /\ m \in Seq(Int) /\ Len(m) = Len(b) + Len(c)
        /\ \A k \in 1..Len(b) : m[k] = b[k]
        /\ \A k \in 1..Len(c) : m[Len(b) + k] = c[k]
    BY <2>1, Both
  <2> QED BY <1>6, <1>8, <2>2
<1>12. Len(m) = n + 2  BY <1>1, <1>11
<1>13. m[1] = start
  <2>1. 1 \in 1..Len(b)  BY <1>1, <1>8
  <2> QED BY <1>9, <1>11, <2>1
<1>14. \A k \in 1..n : m[k + 1] = R[k].time
  <2> SUFFICES ASSUME NEW k \in 1..n PROVE m[k + 1] = R[k].time  OBVIOUS
  <2>1. k + 1 \in 1..Len(b)  BY <1>1, <1>8
  <2> QED BY <1>10, <1>11, <2>1
<1>15. m[n + 2] = end
  <2>1. 1 \in 1..Len(c)  BY <1>6
  <2>2. m[Len(b) + 1] = end  BY <1>6, <1>11, <2>1
  <2>3. Len(b) + 1 = n + 2  BY <1>1, <1>8
  <2> QED BY <2>2, <2>3
<1> HIDE DEF m
<1>16. \A k \in 1..n + 2 : m[k] \in Int  BY <1>11, <1>12, PartsOf
<1> QED BY <1>1, <1>4, <1>12, <1>13, <1>14, <1>15, <1>16 DEF m, n

\* An hour without gap windows has records, no two of which, nor the hour's
\* ends, are further apart than allowed.
LEMMA NoGapWindows ==
  ASSUME NEW S, \A r \in S : r.time \in Int, NEW R \in Seq(S),
         NEW start \in Int, NEW end \in Int, NEW allowed \in Int, NEW d
  PROVE  /\ IsList(GapWindows(d, R, start, end, allowed))
         /\ GapWindows(d, R, start, end, allowed) = << >> =>
              /\ Len(R) # 0
              /\ \A k \in 1..Len(R) + 1 :
                   Marks(R, start, end)[k + 1] - Marks(R, start, end)[k] <= allowed
<1> DEFINE m == Marks(R, start, end)
           n == Len(R)
           gaps == [k \in 1..Len(m) - 1 |-> [dataset |-> d, start |-> m[k], end |-> m[k + 1]]]
           T == {k \in 1..n + 1 : R = << >> \/ m[k + 1] - m[k] > allowed}
           q == [k \in 1..n + 1 |-> IF k \in T THEN <<gaps[k]>> ELSE << >>]
<1>1. Len(m) = n + 2 /\ n \in Nat /\ \A k \in 1..n + 2 : m[k] \in Int  BY MarksAre
<1>2. DOMAIN gaps = 1..n + 1  BY <1>1
<1>3. \A k \in 1..n + 1 : gaps[k].start = m[k] /\ gaps[k].end = m[k + 1]  BY <1>1
<1>4. GapWindows(d, R, start, end, allowed)
        = FlattenSeq(<< >> \o [k \in DOMAIN gaps |->
            IF R = << >> \/ gaps[k].end - gaps[k].start > allowed THEN <<gaps[k]>> ELSE << >>])
  BY DEF GapWindows, Kept, Each, Listed, Marks
<1>5. \A k \in 1..n + 1 :
        k \in T <=> (R = << >> \/ gaps[k].end - gaps[k].start > allowed)
  BY <1>3
<1>6. gaps = [k \in 1..n + 1 |-> gaps[k]]  BY <1>1
<1> HIDE DEF T, gaps, m
<1>7. GapWindows(d, R, start, end, allowed) = FlattenSeq(<< >> \o q)
  BY <1>2, <1>4, <1>5
<1>8. IsList(gaps) /\ Len(gaps) = n + 1
  <2>1. n + 1 \in Nat  BY <1>1
  <2> QED BY <1>6, <2>1, ListFrom
<1>9. /\ << >> \o q = q /\ IsList(FlattenSeq(q))
      /\ FlattenSeq(q) = << >> => \A k \in 1..Len(gaps) : k \notin T
  BY <1>8, KeptList
<1>10. ASSUME FlattenSeq(q) = << >>
       PROVE  n # 0 /\ \A k \in 1..n + 1 : m[k + 1] - m[k] <= allowed
  <2>1. \A k \in 1..n + 1 : R # << >> /\ ~ (m[k + 1] - m[k] > allowed)
    BY <1>8, <1>9, <1>10 DEF T
  <2>2. R # << >>
    <3>1. 1 \in 1..n + 1  BY <1>1
    <3> QED BY <2>1, <3>1
  <2>3. ASSUME NEW k \in 1..n + 1 PROVE m[k + 1] - m[k] <= allowed
    <3>1. k \in 1..n + 2 /\ k + 1 \in 1..n + 2  BY <1>1
    <3>2. m[k] \in Int /\ m[k + 1] \in Int  BY <1>1, <3>1
    <3> QED BY <2>1, <3>2
  <2>4. n # 0  BY <2>2, PartsOf
  <2> QED BY <2>3, <2>4
<1> QED BY <1>7, <1>9, <1>10 DEF m

\* Where something ends that holds at first.
LEMMA Ends ==
  ASSUME NEW n \in Nat, NEW T, 0 \in T, n \notin T
  PROVE  \E k \in 1..n : k - 1 \in T /\ k \notin T
<1> SUFFICES ASSUME \A k \in 1..n : k - 1 \in T => k \in T PROVE FALSE  OBVIOUS
<1> DEFINE P == {j \in Nat : j <= n => j \in T}
<1>1. 0 \in P  OBVIOUS
<1>2. \A j \in Nat : j \in P => j + 1 \in P
  <2> SUFFICES ASSUME NEW j \in Nat, j \in P PROVE j + 1 \in P  OBVIOUS
  <2> SUFFICES ASSUME j + 1 <= n PROVE j + 1 \in T  OBVIOUS
  <2>1. j <= n /\ j + 1 \in 1..n /\ (j + 1) - 1 = j  OBVIOUS
  <2> QED BY <2>1
<1>3. n \in P
  <2> HIDE DEF P
  <2> QED BY <1>1, <1>2, Induction
<1> QED BY <1>3

\* No gap of an hour is longer than allowed.
Heard(F, d, h, allowed) ==
  GapWindows(d, HourRecords(F, d, h), Start(h), ExclusiveEnd(End(h)), allowed) = << >>

\* An hour's start and end are numbers, and hours follow one another.
LEMMA HourTimes ==
  ASSUME NEW h \in HourSet
  PROVE  /\ h \in Int /\ Start(h) \in Int /\ Start(h + 1) \in Int
         /\ Start(h + 1) = Start(h) + HourTicks /\ ExclusiveEnd(End(h)) = Start(h + 1)
         /\ HourTicks \in Nat \ {0} /\ Hours \in Nat \ {0}
<1>1. h \in Int  BY ReportAssumption DEF ReportAssumption, HourSet
<1> QED BY <1>1, HoursFollow

\* Times from an hour's start to its end of which each but the ends is a
\* record's, and none is far from the one before.
Chain(F, d, h, allowed, n, m) ==
  /\ n # 0 /\ m[1] = Start(h) /\ m[n + 2] = Start(h + 1)
  /\ \A k \in 1..n + 2 : m[k] \in Int
  /\ \A k \in 1..n + 1 : m[k + 1] - m[k] <= allowed
  /\ \A k \in 1..n : \E r \in InHour(F, d, h) : r.time = m[k + 1]

\* The marks of an hour that was heard of.
LEMMA HeardMarks ==
  ASSUME NEW F, Stored(F), NEW d, NEW h \in HourSet, NEW allowed \in Nat, Heard(F, d, h, allowed)
  PROVE  \E n \in Nat : \E m : Chain(F, d, h, allowed, n, m)
<1> DEFINE S == InHour(F, d, h)
           R == HourRecords(F, d, h)
           m == Marks(R, Start(h), Start(h + 1))
           n == Len(R)
<1>1. R \in Seq(S)  BY HourRecordsAre
<1>2. \A r \in S : r.time \in Int
  BY ReportAssumption DEF ReportAssumption, Stored, InHour
<1>3. Start(h) \in Int /\ Start(h + 1) \in Int /\ ExclusiveEnd(End(h)) = Start(h + 1) /\ allowed \in Int
  BY HourTimes
<1>4. GapWindows(d, R, Start(h), Start(h + 1), allowed) = << >>  BY <1>3 DEF Heard
<1> HIDE DEF R, S
<1>5. n # 0 /\ \A k \in 1..n + 1 : m[k + 1] - m[k] <= allowed
  BY <1>1, <1>2, <1>3, <1>4, NoGapWindows
<1>6. /\ n \in Nat /\ m[1] = Start(h) /\ m[n + 2] = Start(h + 1)
      /\ \A k \in 1..n : m[k + 1] = R[k].time
      /\ \A k \in 1..n + 2 : m[k] \in Int
  BY <1>1, <1>2, <1>3, MarksAre
<1>7. \A k \in 1..n : R[k] \in S  BY <1>1, PartsOf
<1>8. \A k \in 1..n : \E r \in S : r.time = m[k + 1]  BY <1>6, <1>7
<1>9. n \in Nat  BY <1>6
<1> HIDE DEF m, n
<1>10. Chain(F, d, h, allowed, n, m)  BY <1>5, <1>6, <1>8 DEF S, Chain
<1> QED BY <1>9, <1>10

\* In an hour that was heard of there is a record soon after any time, or the
\* hour ends before; and soon after its start.
LEMMA SoonHeard ==
  ASSUME NEW F, Stored(F), NEW d, NEW h \in HourSet, NEW allowed \in Nat \ {0},
         Heard(F, d, h, allowed)
  PROVE  /\ \E r \in InHour(F, d, h) : r.time \in Start(h)..Start(h) + allowed
         /\ \A a \in Int : Start(h) < a /\ a < Start(h + 1) =>
              \/ \E r \in InHour(F, d, h) : r.time \in a..a + allowed - 1
              \/ Start(h + 1) <= a + allowed - 1
<1>0. PICK n \in Nat : \E m : Chain(F, d, h, allowed, n, m)  BY HeardMarks
<1>00. PICK m : Chain(F, d, h, allowed, n, m)  BY <1>0
<1>1. /\ n # 0 /\ m[1] = Start(h) /\ m[n + 2] = Start(h + 1)
      /\ \A k \in 1..n + 2 : m[k] \in Int
      /\ \A k \in 1..n + 1 : m[k + 1] - m[k] <= allowed
      /\ \A k \in 1..n : \E r \in InHour(F, d, h) : r.time = m[k + 1]
  BY <1>00 DEF Chain
<1>2. Start(h) \in Int /\ Start(h + 1) \in Int  BY HourTimes
<1>3. \E r \in InHour(F, d, h) : r.time \in Start(h)..Start(h) + allowed
  <2>1. 1 \in 1..n /\ 1 \in 1..n + 1 /\ 1 + 1 \in 1..n + 2  BY <1>1
  <2>2. PICK r \in InHour(F, d, h) : r.time = m[1 + 1]  BY <1>1, <2>1
  <2>3. m[1 + 1] - m[1] <= allowed /\ m[1 + 1] \in Int  BY <1>1, <2>1
  <2>4. r.time >= Start(h)  BY DEF InHour
  <2> DEFINE x == m[1 + 1]
  <2>5. x - Start(h) <= allowed /\ x \in Int /\ x >= Start(h)  BY <1>1, <2>2, <2>3, <2>4
  <2> HIDE DEF x
  <2>6. x \in Start(h)..Start(h) + allowed  BY <1>2, <2>5
  <2> QED BY <2>2, <2>6 DEF x
<1>4. ASSUME NEW a \in Int, Start(h) < a, a < Start(h + 1)
      PROVE  \/ \E r \in InHour(F, d, h) : r.time \in a..a + allowed - 1
             \/ Start(h + 1) <= a + allowed - 1
  <2> DEFINE T == {k \in 0..n + 1 : m[k + 1] < a}
  <2>1. 0 \in T
    <3>1. m[0 + 1] = Start(h)  BY <1>1
    <3> QED BY <1>4, <3>1
  <2>2. n + 1 \notin T /\ n + 1 \in Nat
    <3>1. m[(n + 1) + 1] = Start(h + 1)
      <4>1. (n + 1) + 1 = n + 2  OBVIOUS
      <4> QED BY <1>1, <4>1
    <3> QED BY <1>2, <1>4, <3>1
  <2>3. PICK k \in 1..n + 1 : k - 1 \in T /\ k \notin T
    <3> HIDE DEF T
    <3> QED BY <2>1, <2>2, Ends
  <2>4. k - 1 + 1 = k /\ k \in 0..n + 1 /\ k \in 1..n + 2 /\ k + 1 \in 1..n + 2  OBVIOUS
  <2>5. m[k] < a /\ ~ (m[k + 1] < a)  BY <2>3, <2>4
  <2> HIDE DEF T
  <2> DEFINE x == m[k]
             y == m[k + 1]
  <2>6. x \in Int /\ y \in Int /\ y - x <= allowed /\ x < a /\ ~ (y < a)  BY <1>1, <2>4, <2>5
  <2> HIDE DEF x, y
  <2>7. y \in a..a + allowed - 1  BY <2>6
  <2>8. CASE k \in 1..n
    <3>1. \E r \in InHour(F, d, h) : r.time = y  BY <1>1, <2>8 DEF y
    <3> QED BY <2>7, <3>1
  <2>9. CASE k = n + 1
    <3>1. k + 1 = n + 2  BY <2>9
    <3>2. y = Start(h + 1)  BY <1>1, <3>1 DEF y
    <3>3. y <= a + allowed - 1  BY <2>7
    <3> QED BY <3>2, <3>3
  <2> QED BY <2>8, <2>9
<1> QED BY <1>3, <1>4

\* No long silence over the hours of a day.
LEMMA StretchHeard ==
  ASSUME NEW B, NEW F, NEW d, NEW allowed \in Nat \ {0},
         \A h \in HourSet : Stored(F[h]) /\ F[h] \subseteq B /\ Heard(F[h], d, h, allowed),
         NEW a \in 0..Hours * HourTicks - 2 * allowed
  PROVE  \E r \in Of(B, d) : r.time \in a..a + 2 * allowed - 1
<1>0. HourTicks \in Nat \ {0} /\ Hours \in Nat \ {0} /\ Hours * HourTicks \in Int
  BY ReportAssumption DEF ReportAssumption
<1> DEFINE e == Hours * HourTicks
<1>1. e \in Int /\ a \in 0..e - 2 * allowed  BY <1>0
<1> HIDE DEF e
<1>2. a \in 0..e - 1 /\ a \in Int /\ a <= e - 2 * allowed  BY <1>1
<1>3. PICK k \in 1..Hours : Start(k - 1) <= a /\ a < ExclusiveEnd(End(k - 1))
  BY <1>2, HourOfTime DEF e
<1> DEFINE h == k - 1
<1>4. h \in HourSet /\ h \in Int  BY <1>0 DEF HourSet
<1>5. Start(h) <= a /\ a < ExclusiveEnd(End(h))  BY <1>3
<1> HIDE DEF h
<1>6. /\ Start(h) \in Int /\ Start(h + 1) \in Int /\ ExclusiveEnd(End(h)) = Start(h + 1)
  BY <1>4, HourTimes
<1>7. ASSUME NEW g \in HourSet, NEW x \in Int, NEW y \in Int, a <= x, y <= a + 2 * allowed - 1,
             \E r \in InHour(F[g], d, g) : r.time \in x..y
      PROVE  \E r \in Of(B, d) : r.time \in a..a + 2 * allowed - 1
  <2>1. PICK r \in InHour(F[g], d, g) : r.time \in x..y  BY <1>7
  <2>2. r \in Of(B, d)  BY DEF InHour, Of
  <2> DEFINE z == r.time
  <2>3. z \in x..y  BY <2>1
  <2> HIDE DEF z
  <2>4. z \in a..a + 2 * allowed - 1  BY <1>2, <1>7, <2>3
  <2> QED BY <2>2, <2>4 DEF z
<1>8. ASSUME NEW g \in HourSet
      PROVE  /\ \E r \in InHour(F[g], d, g) : r.time \in Start(g)..Start(g) + allowed
             /\ \A x \in Int : Start(g) < x /\ x < Start(g + 1) =>
                  \/ \E r \in InHour(F[g], d, g) : r.time \in x..x + allowed - 1
                  \/ Start(g + 1) <= x + allowed - 1
  BY SoonHeard
<1>9. CASE Start(h) = a
  <2> DEFINE y == Start(h) + allowed
  <2>1. y \in Int /\ y <= a + 2 * allowed - 1 /\ a <= Start(h)  BY <1>2, <1>6, <1>9
  <2>2. \E r \in InHour(F[h], d, h) : r.time \in Start(h)..y  BY <1>4, <1>8
  <2> HIDE DEF y
  <2> QED BY <1>4, <1>6, <1>7, <2>1, <2>2
<1>10. CASE Start(h) # a
  <2>1. Start(h) < a /\ a < Start(h + 1)  BY <1>2, <1>5, <1>6, <1>10
  <2>2. CASE \E r \in InHour(F[h], d, h) : r.time \in a..a + allowed - 1
    <3> DEFINE y == a + allowed - 1
    <3>1. y \in Int /\ y <= a + 2 * allowed - 1 /\ a <= a  BY <1>2
    <3>2. \E r \in InHour(F[h], d, h) : r.time \in a..y  BY <2>2
    <3> HIDE DEF y
    <3> QED BY <1>2, <1>4, <1>7, <3>1, <3>2
  <2>3. CASE Start(h + 1) <= a + allowed - 1
    <3> DEFINE g == h + 1
               y == Start(g) + allowed
    <3>1. Start(g) \in Int /\ Start(g) <= a + allowed - 1 /\ a <= Start(g)  BY <1>2, <1>6, <2>1, <2>3
    <3>2. y \in Int /\ y <= a + 2 * allowed - 1  BY <1>2, <3>1
    <3>3. g # Hours
      <4> SUFFICES ASSUME g = Hours PROVE FALSE  OBVIOUS
      <4>1. Start(Hours) = e
        <5>1. 0 \in Int  OBVIOUS
        <5> QED BY <5>1, HoursFollow DEF e
      <4>2. Start(g) = e  BY <4>1
      <4> HIDE DEF g
      <4> QED BY <1>1, <1>2, <3>1, <4>2
    <3>4. g \in HourSet  BY <1>0, <1>4, <3>3 DEF HourSet
    <3> HIDE DEF g
    <3>5. \E r \in InHour(F[g], d, g) : r.time \in Start(g)..y  BY <1>8, <3>4
    <3> HIDE DEF y
    <3> QED BY <1>7, <3>1, <3>2, <3>4, <3>5
  <2> QED BY <1>4, <1>8, <2>1, <2>2, <2>3, <1>2
<1> QED BY <1>9, <1>10

-----------------------------------------------------------------------------
(* Days that a report calls normal. *)

\* A list made of the elements of another.
LEMMA EachList ==
  ASSUME NEW s, IsList(s), NEW f, f = [k \in DOMAIN s |-> f[k]]
  PROVE  IsList(f) /\ << >> \o f = f /\ (f = << >> <=> s = << >>)
<1>1. Len(s) \in Nat /\ DOMAIN s = 1..Len(s) /\ (s = << >> <=> Len(s) = 0)  BY ListIs
<1>2. f = [k \in 1..Len(s) |-> f[k]]  BY <1>1
<1> DEFINE n == Len(s)
<1> HIDE DEF n
<1>3. IsList(f) /\ Len(f) = n /\ << >> \o f = f  BY <1>1, <1>2, ListFrom DEF n
<1>4. f = << >> <=> n = 0  BY <1>3, ListIs
<1> QED BY <1>1, <1>3, <1>4 DEF n

\* The gap windows of an hour's dataset are a list.
LEMMA GapList ==
  ASSUME NEW F, Stored(F), NEW d, NEW h \in HourSet, NEW allowed \in Nat
  PROVE  IsList(GapWindows(d, HourRecords(F, d, h), Start(h), ExclusiveEnd(End(h)), allowed))
<1> DEFINE S == InHour(F, d, h)
           R == HourRecords(F, d, h)
<1>1. R \in Seq(S)  BY HourRecordsAre
<1>2. \A r \in S : r.time \in Int
  BY ReportAssumption DEF ReportAssumption, Stored, InHour
<1>3. Start(h) \in Int /\ ExclusiveEnd(End(h)) \in Int /\ allowed \in Int  BY HourTimes
<1> HIDE DEF R, S
<1>4. IsList(GapWindows(d, R, Start(h), ExclusiveEnd(End(h)), allowed))
  BY <1>1, <1>2, <1>3, NoGapWindows
<1> QED BY <1>4 DEF R

\* A day that the factory's report calls normal.
LEMMA FactoryNormal ==
  ASSUME NEW c, FactoryOverall(c) = "normal"
  PROVE  /\ ~ (c.risk.dangerMinutes > 0) /\ ~ (c.risk.warningMinutes > 0)
         /\ ~ (c.quality.gapCount > 0) /\ ~ (c.infra.notReady > 0) /\ ~ (c.infra.restarts > 0)
BY DEF FactoryOverall

\* A factory's text takes its judgement and its concerns from the context.
LEMMA FactoryTextIs ==
  ASSUME NEW c
  PROVE  /\ FactoryText(c).overall = FactoryOverall(c)
         /\ FactoryText(c).concerns = FactoryConcerns(c)
BY DEF FactoryText

\* So does the text of the target "factory".
LEMMA TextOfFactory ==
  ASSUME NEW c
  PROVE  /\ Text("factory", c).overall = FactoryOverall(c)
         /\ Text("factory", c).concerns = FactoryConcerns(c)
<1>1. Text("factory", c) = FactoryText(c)  BY DEF Text
<1> QED BY <1>1, FactoryTextIs

\* The cloud's text takes its judgement and its concerns from the context.
LEMMA CloudTextIs ==
  ASSUME NEW c
  PROVE  CloudText(c).overall = c.overall /\ CloudText(c).concerns = CloudConcerns(c)
BY DEF CloudText

\* So does the text of the target "cloud".
LEMMA TextOfCloud ==
  ASSUME NEW c
  PROVE  Text("cloud", c).overall = c.overall /\ Text("cloud", c).concerns = CloudConcerns(c)
<1>1. Text("cloud", c) = CloudText(c)  BY DEF Text
<1> QED BY <1>1, CloudTextIs

\* One record that endangers a factory makes a dangerous day.
LEMMA DangerousDay ==
  ASSUME NEW F, \A h \in HourSet : Stored(F[h]), NEW h \in HourSet,
         NEW r \in InHour(F[h], "risk_score", h), r.level = "danger"
  PROVE  FactoryOverall(MergeDaily("factory", DayOf("factory", F))) = "danger"
<1> DEFINE c == MergeDaily("factory", DayOf("factory", F))
           x == Total(<< >> \o [k \in 1..Hours |->
                   LevelMinutes(HourRecords(F[k - 1], "risk_score", k - 1), "danger")])
<1>1. c.risk.dangerMinutes = x  BY FactoryDayRisk
<1>2. x > 0  BY DayLevel
<1> HIDE DEF c, x
<1>3. FactoryOverall(c) = "danger"  BY <1>1, <1>2 DEF FactoryOverall
<1> QED BY <1>3 DEF c

\* A score below 80 has a level that makes no normal day.
LEMMA NormalScores ==
  ASSUME NEW F, \A h \in HourSet : Stored(F[h]) /\ WellFormed("factory", F[h]),
         FactoryOverall(MergeDaily("factory", DayOf("factory", F))) = "normal",
         NEW s \in MergeDaily("factory", DayOf("factory", F)).risk.scores
  PROVE  ~ (s < 80)
<1> SUFFICES ASSUME s < 80 PROVE FALSE  OBVIOUS
<1> DEFINE c == MergeDaily("factory", DayOf("factory", F))
           x(level) == Total(<< >> \o [k \in 1..Hours |->
                   LevelMinutes(HourRecords(F[k - 1], "risk_score", k - 1), level)])
<1>1. /\ c.risk.dangerMinutes = x("danger") /\ c.risk.warningMinutes = x("warning")
      /\ \E k \in 1..Hours :
                 \E r \in ToSet(HourRecords(F[k - 1], "risk_score", k - 1)) : r.score = s
  BY FactoryDayRisk
<1>2. PICK k \in 1..Hours :
             \E r \in ToSet(HourRecords(F[k - 1], "risk_score", k - 1)) : r.score = s
  BY <1>1
<1> DEFINE h == k - 1
           R == HourRecords(F[h], "risk_score", h)
<1>3. h \in HourSet /\ Stored(F[h]) /\ WellFormed("factory", F[h])  BY DayHours
<1>4. PICK r \in ToSet(R) : r.score = s  BY <1>2
<1>5. r \in InHour(F[h], "risk_score", h)
  <2>1. R \in Seq(InHour(F[h], "risk_score", h))  BY <1>3, HourRecordsAre
  <2> HIDE DEF R
  <2>2. \A j \in DOMAIN R : R[j] \in InHour(F[h], "risk_score", h)  BY <2>1, PartsOf
  <2> QED BY <1>4, <2>2 DEF ToSet
<1> HIDE DEF R, h
<1>6. r \in Of(F[h], "risk_score")  BY <1>5 DEF InHour, Of
<1>7. r.score \in Nat /\ r.level = RiskLevel(r.score)  BY <1>3, <1>6 DEF WellFormed
<1>8. r.level \in {"danger", "warning"}  BY <1>4, <1>7 DEF RiskLevel
<1>9. x(r.level) > 0
  <2> DEFINE level == r.level
  <2>1. level \in {"danger", "warning"} /\ r.level = level  BY <1>8
  <2> HIDE DEF level
  <2>2. x(level) > 0  BY <1>3, <1>5, <2>1, DayLevel
  <2> QED BY <2>2 DEF level
<1> HIDE DEF c, x
<1>10. FactoryOverall(c) = "normal"  BY DEF c
<1> QED BY <1>1, <1>8, <1>9, <1>10, FactoryNormal

\* What the factory's tables ask for on a normal day.
LEMMA NormalFactoryConcerns ==
  ASSUME NEW c, FactoryOverall(c) = "normal", \A s \in c.risk.scores : ~ (s < 80)
  PROVE  FactoryConcerns(c) \subseteq
           ToSet(Datasets) \cup {"max_gap", "ai_spikes", "abnormal_sounds"}
<1> DEFINE asks == [min_score |-> \E s \in c.risk.scores : s < 80,
               warning_minutes |-> c.risk.warningMinutes > 0,
               danger_minutes |-> c.risk.dangerMinutes > 0,
               max_gap |-> c.quality.maxGap > 0,
               ai_spikes |-> c.state.spikes > 0,
               abnormal_sounds |-> c.state.sounds > 0,
               node_not_ready |-> c.infra.notReady > 0,
               workload_restarts |-> c.infra.restarts > 0]
<1>1. /\ DOMAIN asks = {"min_score", "warning_minutes", "danger_minutes", "max_gap", "ai_spikes",
                        "abnormal_sounds", "node_not_ready", "workload_restarts"}
      /\ asks["min_score"] = (\E s \in c.risk.scores : s < 80)
      /\ asks["warning_minutes"] = (c.risk.warningMinutes > 0)
      /\ asks["danger_minutes"] = (c.risk.dangerMinutes > 0)
      /\ asks["node_not_ready"] = (c.infra.notReady > 0)
      /\ asks["workload_restarts"] = (c.infra.restarts > 0)
  OBVIOUS
<1>2. FactoryConcerns(c) = {m \in DOMAIN asks : asks[m]}
       \cup {d \in ToSet(Datasets) :
               100 * c.quality.actual[d] < 99 * c.quality.expected[d]}
  BY DEF FactoryConcerns
<1> HIDE DEF asks
<1>3. ~ asks["min_score"] /\ ~ asks["warning_minutes"] /\ ~ asks["danger_minutes"]
      /\ ~ asks["node_not_ready"] /\ ~ asks["workload_restarts"]
  BY <1>1, FactoryNormal
<1>4. {m \in DOMAIN asks : asks[m]} \subseteq {"max_gap", "ai_spikes", "abnormal_sounds"}
  BY <1>1, <1>3
<1> QED BY <1>2, <1>4

\* Numbers of which none is above 0, and their sum.
LEMMA NothingCounted ==
  ASSUME NEW p, p \in [1..Hours -> Nat], ~ (Total(<< >> \o p) > 0), NEW k \in 1..Hours
  PROVE  p[k] = 0
<1>1. Hours \in Nat  BY ReportAssumption DEF ReportAssumption
<1>2. p \in Seq(Nat) /\ Len(p) = Hours /\ << >> \o p = p  BY <1>1, ListOf
<1>3. p[k] <= Total(p) /\ Total(p) \in Nat /\ p[k] \in Nat  BY <1>2, TotalOfNumbers
<1> DEFINE a == Total(p)
           b == p[k]
<1>4. ~ (a > 0) /\ b <= a /\ a \in Nat /\ b \in Nat  BY <1>2, <1>3
<1> HIDE DEF a, b
<1>5. b = 0  BY <1>4
<1> QED BY <1>5 DEF b

\* The gaps of an hour of a dataset of the factory.
DatasetGaps(F, d, h) ==
  GapWindows(d, HourRecords(F, d, h), Start(h), ExclusiveEnd(End(h)), AllowedGap(d))

\* Every gap may be some ticks long.
LEMMA AllowedPositive ==
  /\ \A d \in ToSet(Datasets) : AllowedGap(d) \in Nat \ {0}
  /\ \A d \in ToSet(Streams) : Allowed[d] \in Nat \ {0}
<1> DEFINE i == Interval["infra_state"]
           j == Interval["factory_state"]
<1>1. i \in Nat \ {0} /\ j \in Nat \ {0}
  BY DatasetNames, FactoryAssumption DEF FactoryAssumption
<1>2. \A d : AllowedGap(d) = 2 * i \/ AllowedGap(d) = 2 * j  BY DEF AllowedGap
<1> HIDE DEF i, j
<1>3. \A d : AllowedGap(d) \in Nat \ {0}
  <2>1. 2 * i \in Nat \ {0} /\ 2 * j \in Nat \ {0}  BY <1>1
  <2> QED BY <1>2, <2>1
<1> QED BY <1>3, CloudAssumption DEF CloudAssumption

\* An hour counts the gaps of all its datasets.
LEMMA FactoryGapCount ==
  ASSUME NEW F, NEW h
  PROVE  FactoryHour(F, h).quality.gapCount
           = Len(FlattenSeq(<< >> \o [k \in DOMAIN Datasets |-> DatasetGaps(F, Datasets[k], h)]))
<1> DEFINE records == [factory_state |-> HourRecords(F, "factory_state", h),
                  risk_score |-> HourRecords(F, "risk_score", h),
                  infra_state |-> HourRecords(F, "infra_state", h),
                  state_snapshot |-> HourRecords(F, "state_snapshot", h)]
<1>1. FactoryHour(F, h).quality = DataQuality(records, h)  BY DEF FactoryHour
<1>2. ASSUME NEW R
      PROVE DataQuality(R, h).gapCount
          = Len(FlattenSeq(<< >> \o [k \in DOMAIN Datasets |->
              GapWindows(Datasets[k], R[Datasets[k]], Start(h), ExclusiveEnd(End(h)),
                         AllowedGap(Datasets[k]))]))
  BY DEF DataQuality, Each, Listed
<1>3. \A k \in DOMAIN Datasets : Datasets[k] \in {"factory_state", "risk_score", "infra_state"}
  BY DatasetNames DEF ToSet
<1>4. \A d \in {"factory_state", "risk_score", "infra_state"} : records[d] = HourRecords(F, d, h)
  OBVIOUS
<1> HIDE DEF records
<1>5. \A k \in DOMAIN Datasets :
        GapWindows(Datasets[k], records[Datasets[k]], Start(h), ExclusiveEnd(End(h)),
                         AllowedGap(Datasets[k])) = DatasetGaps(F, Datasets[k], h)
  BY <1>3, <1>4 DEF DatasetGaps
<1> QED BY <1>1, <1>2, <1>5

\* An hour without a gap was heard of from every dataset.
LEMMA FactoryHourHeard ==
  ASSUME NEW F, Stored(F), NEW h \in HourSet
  PROVE  /\ FactoryHour(F, h).quality.gapCount \in Nat
         /\ FactoryHour(F, h).quality.gapCount = 0 =>
              \A d \in ToSet(Datasets) : Heard(F, d, h, AllowedGap(d))
<1> DEFINE q == [k \in 1..3 |-> DatasetGaps(F, Datasets[k], h)]
           g == FactoryHour(F, h).quality.gapCount
<1>1. DOMAIN Datasets = 1..3  BY DEF Datasets
<1>2. ASSUME NEW k \in 1..3 PROVE IsList(q[k])
  <2>1. Datasets[k] \in ToSet(Datasets)  BY <1>1 DEF ToSet
  <2>2. AllowedGap(Datasets[k]) \in Nat  BY <2>1, AllowedPositive
  <2> DEFINE d == Datasets[k]
             allowed == AllowedGap(d)
  <2>3. allowed \in Nat  BY <2>2
  <2> HIDE DEF d, allowed
  <2>4. IsList(GapWindows(d, HourRecords(F, d, h), Start(h), ExclusiveEnd(End(h)), allowed))
    BY <2>3, GapList
  <2> QED BY <2>4 DEF d, allowed, DatasetGaps
<1>3. q = [k \in 1..3 |-> q[k]] /\ 3 \in Nat  OBVIOUS
<1>4. \A k \in 1..3 : q[k] = DatasetGaps(F, Datasets[k], h)  OBVIOUS
<1>5. g = Len(FlattenSeq(<< >> \o q))  BY <1>1, FactoryGapCount
<1> HIDE DEF q, g
<1>6. << >> \o q = q  BY <1>3, ListFrom
<1>7. IsList(FlattenSeq(q)) /\ \A k \in 1..3 : FlattenSeq(q) = << >> => q[k] = << >>
  BY <1>2, <1>3, FlattenList
<1>8. g \in Nat /\ (g = 0 => FlattenSeq(q) = << >>)
  <2> DEFINE s == FlattenSeq(q)
  <2>1. g = Len(s) /\ IsList(s)  BY <1>5, <1>6, <1>7
  <2> HIDE DEF s
  <2>2. g \in Nat /\ (g = 0 => s = << >>)  BY <2>1, ListIs
  <2> QED BY <2>2 DEF s
<1>9. ASSUME g = 0, NEW d \in ToSet(Datasets) PROVE Heard(F, d, h, AllowedGap(d))
  <2>1. PICK k \in 1..3 : d = Datasets[k]  BY <1>1 DEF ToSet
  <2>2. q[k] = << >>  BY <1>7, <1>8, <1>9
  <2> QED BY <1>4, <2>1, <2>2 DEF Heard, DatasetGaps
<1> QED BY <1>8, <1>9 DEF g

\* A day that the factory's report calls normal has no gap in any hour.
LEMMA FactoryDayHeard ==
  ASSUME NEW F, \A h \in HourSet : Stored(F[h]),
         FactoryOverall(MergeDaily("factory", DayOf("factory", F))) = "normal",
         NEW h \in HourSet, NEW d \in ToSet(Datasets)
  PROVE  Heard(F[h], d, h, AllowedGap(d))
<1> DEFINE hs == DayOf("factory", F)
           c == MergeDaily("factory", hs)
           p == [k \in 1..Hours |-> FactoryHour(F[k - 1], k - 1).quality.gapCount]
<1>1. DOMAIN hs = 1..Hours /\ \A k \in 1..Hours : hs[k] = FactoryHour(F[k - 1], k - 1)
  BY DayHours DEF Hour
<1>2. \A k \in 1..Hours : k - 1 \in HourSet  BY DayHours
<1>3. ASSUME NEW k \in 1..Hours PROVE FactoryHour(F[k - 1], k - 1).quality.gapCount \in Nat
  <2>1. Stored(F[k - 1]) /\ k - 1 \in HourSet  BY <1>2
  <2> QED BY <2>1, FactoryHourHeard
<1>4. p \in [1..Hours -> Nat]  BY <1>3
<1> HIDE DEF hs
<1>5. ASSUME NEW x
      PROVE  MergeDataQuality(x).gapCount
               = Total(<< >> \o [k \in DOMAIN x |-> x[k].quality.gapCount])
  BY DEF MergeDataQuality, Each, Listed
<1>6. c.quality = MergeDataQuality(hs)
  <2>1. c = MergeFactoryDaily(hs)  BY DEF MergeDaily
  <2> QED BY <2>1, FactoryQualityIs
<1>7. [k \in DOMAIN hs |-> hs[k].quality.gapCount] = p  BY <1>1
<1>8. c.quality.gapCount = Total(<< >> \o p)  BY <1>5, <1>6, <1>7
<1>9. ~ (c.quality.gapCount > 0)
  <2>1. FactoryOverall(c) = "normal"  BY DEF hs
  <2> HIDE DEF c
  <2> QED BY <2>1, FactoryNormal
<1>10. ~ (Total(<< >> \o p) > 0)  BY <1>8, <1>9
<1> DEFINE k == h + 1
<1>11. k \in 1..Hours /\ k - 1 = h
  BY ReportAssumption DEF ReportAssumption, HourSet
<1> HIDE DEF k
<1>12. p[k] = 0
  <2> HIDE DEF p
  <2> QED BY <1>4, <1>10, <1>11, NothingCounted
<1>13. FactoryHour(F[h], h).quality.gapCount = 0  BY <1>11, <1>12
<1> QED BY <1>13, FactoryHourHeard

\* Events of counts: none only if no count is above 0.
LEMMA CountEventsList ==
  ASSUME NEW counts, NEW types, IsList(types), NEW h
  PROVE  /\ IsList(CountEvents(counts, types, h))
         /\ CountEvents(counts, types, h) = << >> =>
              \A m \in ToSet(types) : ~ (counts[m] > 0)
<1> DEFINE T == {k \in 1..Len(types) : counts[types[k]] > 0}
           q == [k \in 1..Len(types) |-> IF k \in T THEN <<types[k]>> ELSE << >>]
           s == FlattenSeq(q)
           f == [k \in DOMAIN s |-> HourEvent(s[k], "warning", h,
                   IF s[k] \in Flat THEN 5 ELSE counts[s[k]])]
<1>1. DOMAIN types = 1..Len(types) /\ Len(types) \in Nat  BY ListIs
<1>2. << >> \o q = q /\ IsList(s) /\ (s = << >> => \A k \in 1..Len(types) : k \notin T)
  <2> HIDE DEF T
  <2> QED BY KeptList
<1>3. CountEvents(counts, types, h) = << >> \o f
  <2>1. q = [k \in DOMAIN types |-> IF counts[types[k]] > 0 THEN <<types[k]>> ELSE << >>]
    BY <1>1
  <2> DEFINE r == << >> \o [k \in DOMAIN types |-> IF counts[types[k]] > 0 THEN <<types[k]>> ELSE << >>]
             v == FlattenSeq(r)
  <2>2. CountEvents(counts, types, h)
          = << >> \o [k \in DOMAIN v |-> HourEvent(v[k], "warning", h,
                   IF v[k] \in Flat THEN 5 ELSE counts[v[k]])]
    BY DEF CountEvents, Kept, Each, Listed
  <2>3. r = q  BY <1>2, <2>1
  <2> HIDE DEF r, q
  <2> QED BY <2>2, <2>3
<1> HIDE DEF s
<1>4. IsList(f) /\ << >> \o f = f /\ (f = << >> <=> s = << >>)
  <2>1. f = [k \in DOMAIN s |-> f[k]]  OBVIOUS
  <2> HIDE DEF f
  <2> QED BY <1>2, <2>1, EachList
<1>5. ASSUME s = << >>, NEW m \in ToSet(types) PROVE ~ (counts[m] > 0)
  <2>1. PICK k \in 1..Len(types) : m = types[k]  BY <1>1 DEF ToSet
  <2> QED BY <1>2, <1>5, <2>1
<1> HIDE DEF f
<1> QED BY <1>3, <1>4, <1>5

\* The counts that make events of the cloud.
CloudCounts == FastCounts \cup SlowCounts

\* The counts of an hour and its restarts, as its events are made of them.
AllCounts(counts, restarts) ==
  [m \in DOMAIN counts \cup {"eks_pod_restart_increase"} |->
     IF m = "eks_pod_restart_increase" THEN restarts ELSE counts[m]]

\* An event if there is one.
Alone(condition, event) == IF condition THEN <<event>> ELSE << >>

\* It is a list.
LEMMA AloneList == ASSUME NEW c, NEW e PROVE IsList(Alone(c, e))
<1>1. <<e>> \in Seq({e}) /\ << >> \in Seq({e})  OBVIOUS
<1> QED BY <1>1 DEF Alone, IsList

\* Every count, and the restarts, are of a type of event that is looked for.
LEMMA ListedTypes ==
  /\ IsList(BackendAndPipeline) /\ IsList(ClusterAndFreshness)
  /\ \A m \in CloudCounts : m \in ToSet(BackendAndPipeline) \/ m \in ToSet(ClusterAndFreshness)
  /\ "eks_pod_restart_increase" \in ToSet(ClusterAndFreshness)
  /\ "eks_pod_restart_increase" \notin CloudCounts
<1> DEFINE s == BackendAndPipeline
           t == ClusterAndFreshness
<1>1. /\ DOMAIN s = 1..6 /\ s[1] = "backend_alb_unhealthy" /\ s[2] = "backend_alb_5xx"
      /\ s[3] = "pipeline_lambda_error" /\ s[4] = "pipeline_lambda_throttle"
      /\ s[5] = "dynamodb_throttle_or_error" /\ s[6] = "scheduler_disabled"
  BY DEF BackendAndPipeline
<1>2. /\ DOMAIN t = 1..7 /\ t[1] = "eks_node_not_ready" /\ t[2] = "eks_pod_unhealthy"
      /\ t[3] = "eks_pod_restart_increase" /\ t[4] = "argocd_out_of_sync"
      /\ t[5] = "argocd_degraded" /\ t[6] = "factory_freshness_stale"
      /\ t[7] = "storage_freshness_stale"
  BY DEF ClusterAndFreshness
<1>3. IsList(s) /\ IsList(t)
  <2>1. s \in Seq({"backend_alb_unhealthy", "backend_alb_5xx", "pipeline_lambda_error",
                   "pipeline_lambda_throttle", "dynamodb_throttle_or_error",
                   "scheduler_disabled"})
    BY DEF BackendAndPipeline
  <2>2. t \in Seq({"eks_node_not_ready", "eks_pod_unhealthy", "eks_pod_restart_increase",
                   "argocd_out_of_sync", "argocd_degraded", "factory_freshness_stale",
                   "storage_freshness_stale"})
    BY DEF ClusterAndFreshness
  <2> QED BY <2>1, <2>2 DEF IsList
<1> HIDE DEF s, t
<1>4. {s[1], s[2], s[3], s[4], s[5], s[6]} \subseteq ToSet(s)  BY <1>1 DEF ToSet
<1>5. {t[1], t[2], t[3], t[4], t[5], t[6], t[7]} \subseteq ToSet(t)  BY <1>2 DEF ToSet
<1>6. CloudCounts = {"backend_alb_5xx", "pipeline_lambda_error",
                     "pipeline_lambda_throttle", "dynamodb_throttle_or_error",
                     "scheduler_disabled", "eks_node_not_ready", "storage_freshness_stale",
                     "backend_alb_unhealthy", "factory_freshness_stale",
                     "eks_pod_unhealthy", "argocd_out_of_sync", "argocd_degraded"}
  BY DEF CloudCounts, FastCounts, SlowCounts, Summed, Maximal
<1>7. \A m \in CloudCounts : m \in ToSet(s) \/ m \in ToSet(t)
  BY <1>1, <1>2, <1>4, <1>5, <1>6
<1>8. "eks_pod_restart_increase" \in ToSet(t) /\ "eks_pod_restart_increase" \notin CloudCounts
  BY <1>2, <1>5, <1>6
<1> QED BY <1>3, <1>7, <1>8 DEF s, t

\* The events of an hour are a list; there is none only if there is no gap and
\* no count above 0.
LEMMA CloudEventsList ==
  ASSUME NEW quality, IsList(quality.gaps), NEW counts, NEW restarts, NEW fast, NEW cluster,
         NEW overall, NEW h, DOMAIN counts = CloudCounts
  PROVE  LET e == CloudHourEvents(quality, counts, restarts, fast, cluster, overall, h)
         IN /\ IsList(e)
            /\ e = << >> => /\ quality.gaps = << >>
                            /\ \A m \in CloudCounts : ~ (counts[m] > 0)
                            /\ ~ (restarts > 0)
<1> DEFINE all == AllCounts(counts, restarts)
           a1 == Alone(overall \notin {"none", "normal"},
                       HourEvent("cloud_overall_status_non_normal", "warning", h, 5))
           a2 == << >> \o [k \in DOMAIN quality.gaps |-> GapEvent(quality.gaps[k])]
           a3 == Alone(CapacityMismatch(fast),
                       HourEvent("backend_ecs_capacity_mismatch", "warning", h, 5))
           a4 == CountEvents(all, BackendAndPipeline, h)
           a5 == Alone(cluster \notin {"none", "ACTIVE"},
                       HourEvent("eks_cluster_non_active", "danger", h, 10))
           a6 == CountEvents(all, ClusterAndFreshness, h)
           e == CloudHourEvents(quality, counts, restarts, fast, cluster, overall, h)
<1>1. e = TopEvents(a1 \o a2 \o a3 \o a4 \o a5 \o a6, MaxCloudEvents)
  BY DEF CloudHourEvents, AllCounts, Alone, Each, Listed
<1>2. \A m \in CloudCounts : all[m] = counts[m]
  BY ListedTypes DEF AllCounts
<1>3. all["eks_pod_restart_increase"] = restarts  BY DEF AllCounts
<1>4. IsList(a1) /\ IsList(a3) /\ IsList(a5)  BY AloneList
<1>5. IsList(a2) /\ (a2 = << >> <=> quality.gaps = << >>)
  <2> DEFINE g == quality.gaps
             f == [k \in DOMAIN g |-> GapEvent(g[k])]
  <2>1. f = [k \in DOMAIN g |-> f[k]]  OBVIOUS
  <2>2. IsList(g)  OBVIOUS
  <2> HIDE DEF f, g
  <2>3. IsList(f) /\ << >> \o f = f /\ (f = << >> <=> g = << >>)  BY <2>1, <2>2, EachList
  <2> QED BY <2>3 DEF f, g
<1>6. /\ IsList(a4) /\ (a4 = << >> => \A m \in ToSet(BackendAndPipeline) : ~ (all[m] > 0))
  <2> HIDE DEF all
  <2> QED BY ListedTypes, CountEventsList
<1>7. /\ IsList(a6) /\ (a6 = << >> => \A m \in ToSet(ClusterAndFreshness) : ~ (all[m] > 0))
  <2> HIDE DEF all
  <2> QED BY ListedTypes, CountEventsList
<1> HIDE DEF a1, a2, a3, a4, a5, a6, all, e
<1> DEFINE b2 == a1 \o a2
           b3 == b2 \o a3
           b4 == b3 \o a4
           b5 == b4 \o a5
           b6 == b5 \o a6
<1>8. IsList(b2) /\ Len(b2) = Len(a1) + Len(a2)  BY <1>4, <1>5, ListsJoin
<1> HIDE DEF b2
<1>9. IsList(b3) /\ Len(b3) = Len(b2) + Len(a3)  BY <1>4, <1>8, ListsJoin
<1> HIDE DEF b3
<1>10. IsList(b4) /\ Len(b4) = Len(b3) + Len(a4)  BY <1>6, <1>9, ListsJoin
<1> HIDE DEF b4
<1>11. IsList(b5) /\ Len(b5) = Len(b4) + Len(a5)  BY <1>4, <1>10, ListsJoin
<1> HIDE DEF b5
<1>12. IsList(b6) /\ Len(b6) = Len(b5) + Len(a6)  BY <1>7, <1>11, ListsJoin
<1> HIDE DEF b6
<1>13. MaxCloudEvents \in Nat \ {0}  BY CloudAssumption DEF CloudAssumption
<1>14. e = TopEvents(b6, MaxCloudEvents)  BY <1>1 DEF b6, b5, b4, b3, b2
<1>15. IsList(e) /\ (e = << >> <=> b6 = << >>)  BY <1>12, <1>13, <1>14, TopList
<1>16. ASSUME e = << >> PROVE a2 = << >> /\ a4 = << >> /\ a6 = << >>
  <2>1. Len(b6) = 0  BY <1>12, <1>15, <1>16, ListIs
  <2>2. /\ Len(a1) \in Nat /\ Len(a2) \in Nat /\ Len(a3) \in Nat
        /\ Len(a4) \in Nat /\ Len(a5) \in Nat /\ Len(a6) \in Nat
    BY <1>4, <1>5, <1>6, <1>7, ListIs
  <2> DEFINE n1 == Len(a1)
             n2 == Len(a2)
             n3 == Len(a3)
             n4 == Len(a4)
             n5 == Len(a5)
             n6 == Len(a6)
  <2>3. /\ n1 \in Nat /\ n2 \in Nat /\ n3 \in Nat /\ n4 \in Nat /\ n5 \in Nat /\ n6 \in Nat
        /\ 0 = ((((n1 + n2) + n3) + n4) + n5) + n6
    BY <1>8, <1>9, <1>10, <1>11, <1>12, <2>1, <2>2
  <2> HIDE DEF n1, n2, n3, n4, n5, n6
  <2>4. n2 = 0 /\ n4 = 0 /\ n6 = 0  BY <2>3
  <2>5. Len(a2) = 0 /\ Len(a4) = 0 /\ Len(a6) = 0  BY <2>4 DEF n2, n4, n6
  <2> QED BY <1>5, <1>6, <1>7, <2>5, ListIs
<1>17. ASSUME e = << >>
       PROVE  /\ quality.gaps = << >>
              /\ \A m \in CloudCounts : ~ (counts[m] > 0)
              /\ ~ (restarts > 0)
  <2>1. /\ \A m \in ToSet(BackendAndPipeline) : ~ (all[m] > 0)
        /\ \A m \in ToSet(ClusterAndFreshness) : ~ (all[m] > 0)
    BY <1>6, <1>7, <1>16, <1>17
  <2>2. ~ (restarts > 0)  BY <1>3, <2>1, ListedTypes
  <2>3. \A m \in CloudCounts : ~ (counts[m] > 0)  BY <1>2, <2>1, ListedTypes
  <2>4. quality.gaps = << >>  BY <1>5, <1>16, <1>17
  <2> QED BY <2>2, <2>3, <2>4
<1> QED BY <1>15, <1>17 DEF e

\* The gaps of an hour of a stream of the cloud.
StreamGaps(F, s, h) ==
  GapWindows(s, HourRecords(F, s, h), Start(h), ExclusiveEnd(End(h)), Allowed[s])

\* An hour keeps the longest gaps of its streams.
LEMMA CloudGapsAre ==
  ASSUME NEW F, NEW h
  PROVE  CloudHour(F, h).quality.gaps
           = LongestGaps(FlattenSeq(<< >> \o [k \in DOMAIN Streams |-> StreamGaps(F, Streams[k], h)]))
<1> DEFINE records == [fast |-> HourRecords(F, "fast", h), slow |-> HourRecords(F, "slow", h)]
<1>1. CloudHour(F, h).quality = CloudDataQuality(records, h)  BY DEF CloudHour
<1>2. ASSUME NEW R
      PROVE CloudDataQuality(R, h).gaps
          = LongestGaps(FlattenSeq(<< >> \o [k \in DOMAIN Streams |->
              GapWindows(Streams[k], R[Streams[k]], Start(h), ExclusiveEnd(End(h)),
                         Allowed[Streams[k]])]))
  BY DEF CloudDataQuality, Each, Listed
<1>3. \A k \in DOMAIN Streams : Streams[k] \in {"fast", "slow"}
  BY StreamNames DEF ToSet
<1>4. \A d \in {"fast", "slow"} : records[d] = HourRecords(F, d, h)  OBVIOUS
<1> HIDE DEF records
<1>5. \A k \in DOMAIN Streams :
        GapWindows(Streams[k], records[Streams[k]], Start(h), ExclusiveEnd(End(h)),
                         Allowed[Streams[k]]) = StreamGaps(F, Streams[k], h)
  BY <1>3, <1>4 DEF StreamGaps
<1> QED BY <1>1, <1>2, <1>5

\* The gaps kept of an hour are a list; there is none only if every stream
\* was heard of.
LEMMA CloudHourHeard ==
  ASSUME NEW F, Stored(F), NEW h \in HourSet
  PROVE  /\ IsList(CloudHour(F, h).quality.gaps)
         /\ CloudHour(F, h).quality.gaps = << >> =>
              \A s \in ToSet(Streams) : Heard(F, s, h, Allowed[s])
<1> DEFINE q == [k \in 1..2 |-> StreamGaps(F, Streams[k], h)]
           g == CloudHour(F, h).quality.gaps
<1>1. DOMAIN Streams = 1..2  BY DEF Streams
<1>2. ASSUME NEW k \in 1..2 PROVE IsList(q[k])
  <2> DEFINE d == Streams[k]
             allowed == Allowed[d]
  <2>1. d \in ToSet(Streams)  BY <1>1 DEF ToSet
  <2>2. allowed \in Nat  BY <2>1, AllowedPositive
  <2> HIDE DEF d, allowed
  <2>3. IsList(GapWindows(d, HourRecords(F, d, h), Start(h), ExclusiveEnd(End(h)), allowed))
    BY <2>2, GapList
  <2> QED BY <2>3 DEF d, allowed, StreamGaps
<1>3. q = [k \in 1..2 |-> q[k]] /\ 2 \in Nat  OBVIOUS
<1>4. \A k \in 1..2 : q[k] = StreamGaps(F, Streams[k], h)  OBVIOUS
<1>5. g = LongestGaps(FlattenSeq(<< >> \o q))  BY <1>1, CloudGapsAre
<1> HIDE DEF q, g
<1>6. << >> \o q = q  BY <1>3, ListFrom
<1>7. IsList(FlattenSeq(q)) /\ \A k \in 1..2 : FlattenSeq(q) = << >> => q[k] = << >>
  BY <1>2, <1>3, FlattenList
<1>8. IsList(g) /\ (g = << >> => FlattenSeq(q) = << >>)  BY <1>5, <1>6, <1>7, LongestList
<1>9. ASSUME g = << >>, NEW d \in ToSet(Streams) PROVE Heard(F, d, h, Allowed[d])
  <2>1. PICK k \in 1..2 : d = Streams[k]  BY <1>1 DEF ToSet
  <2>2. q[k] = << >>  BY <1>7, <1>8, <1>9
  <2> QED BY <1>4, <2>1, <2>2 DEF Heard, StreamGaps
<1> QED BY <1>8, <1>9 DEF g

\* An hour without an event.
LEMMA CloudHourQuiet ==
  ASSUME NEW F, Stored(F), NEW h \in HourSet
  PROVE  /\ IsList(CloudHour(F, h).events)
         /\ CloudHour(F, h).events = << >> =>
              /\ \A s \in ToSet(Streams) : Heard(F, s, h, Allowed[s])
              /\ \A m \in CloudCounts : ~ (CloudHour(F, h).counts[m] > 0)
              /\ ~ (CloudHour(F, h).restarts > 0)
<1> DEFINE x == CloudHour(F, h)
           records == [fast |-> HourRecords(F, "fast", h), slow |-> HourRecords(F, "slow", h)]
<1>1. /\ x.events = CloudHourEvents(x.quality, x.counts, x.restarts, records["fast"],
                                     x.cluster, x.overall, h)
      /\ x.counts = HourCounts(records)
  BY DEF CloudHour
<1>2. DOMAIN x.counts = CloudCounts
  <2>1. \A R : DOMAIN HourCounts(R) = CloudCounts  BY DEF HourCounts, CloudCounts, Each, Listed
  <2> QED BY <1>1, <2>1
<1>3. IsList(x.quality.gaps)  BY CloudHourHeard
<1> HIDE DEF x, records
<1>4. /\ IsList(x.events)
      /\ x.events = << >> => /\ x.quality.gaps = << >>
                             /\ \A m \in CloudCounts : ~ (x.counts[m] > 0)
                             /\ ~ (x.restarts > 0)
  BY <1>1, <1>2, <1>3, CloudEventsList
<1>5. x.quality.gaps = << >> => \A s \in ToSet(Streams) : Heard(F, s, h, Allowed[s])
  BY CloudHourHeard DEF x
<1> QED BY <1>4, <1>5 DEF x

\* The stream that has a count.
StreamOf(m) == IF m \in FastCounts THEN "fast" ELSE "slow"

\* A count of an hour is a sum or a maximum over its snapshots.
LEMMA HourCountsAre ==
  ASSUME NEW R, NEW m \in CloudCounts
  PROVE  LET p == << >> \o [k \in DOMAIN R[StreamOf(m)] |-> R[StreamOf(m)][k].counts[m]]
         IN HourCounts(R)[m] = Total(p) \/ HourCounts(R)[m] = MostOf(p)
BY DEF HourCounts, StreamOf, CloudCounts, Each, Listed

\* Counts and restarts of an hour are no negative numbers.
LEMMA CloudNumbers ==
  ASSUME NEW F, Stored(F), WellFormed("cloud", F), NEW h \in HourSet
  PROVE  /\ \A m \in CloudCounts : CloudHour(F, h).counts[m] \in Nat
         /\ CloudHour(F, h).restarts \in Nat
<1> DEFINE records == [fast |-> HourRecords(F, "fast", h), slow |-> HourRecords(F, "slow", h)]
<1>1. /\ CloudHour(F, h).counts = HourCounts(records)
      /\ CloudHour(F, h).restarts = RestartIncrease(records["slow"])
  BY DEF CloudHour
<1>2. /\ records["fast"] = HourRecords(F, "fast", h)
      /\ records["slow"] = HourRecords(F, "slow", h)
  OBVIOUS
<1> HIDE DEF records
<1>3. /\ \A r \in InHour(F, "fast", h) : \A m \in FastCounts : r.counts[m] \in Nat
      /\ \A r \in InHour(F, "slow", h) :
           r.restarts \in Nat /\ \A m \in SlowCounts : r.counts[m] \in Nat
  BY DEF WellFormed, Of, InHour
<1>4. ASSUME NEW m \in CloudCounts PROVE HourCounts(records)[m] \in Nat
  <2> DEFINE d == StreamOf(m)
             R == records[d]
             p == [k \in DOMAIN R |-> R[k].counts[m]]
  <2>1. d \in {"fast", "slow"} /\ R = HourRecords(F, d, h)  BY <1>2 DEF StreamOf
  <2>2. \A r \in InHour(F, d, h) : r.counts[m] \in Nat
    BY <1>3 DEF StreamOf, CloudCounts
  <2> HIDE DEF d
  <2>3. R \in Seq(InHour(F, d, h))  BY <2>1, HourRecordsAre
  <2> HIDE DEF R
  <2>4. Len(R) \in Nat /\ DOMAIN R = 1..Len(R) /\ \A k \in 1..Len(R) : R[k] \in InHour(F, d, h)
    BY <2>3, PartsOf
  <2>5. p \in [1..Len(R) -> Nat]  BY <2>2, <2>4
  <2>6. HourCounts(records)[m] = Total(<< >> \o p) \/ HourCounts(records)[m] = MostOf(<< >> \o p)
    BY HourCountsAre DEF d, R
  <2> HIDE DEF p
  <2>7. p \in Seq(Nat) /\ << >> \o p = p  BY <2>4, <2>5, ListOf
  <2>8. Total(p) \in Nat /\ MostOf(p) \in Nat  BY <2>7, TotalOfNumbers, MostOfNumbers
  <2> QED BY <2>6, <2>7, <2>8
<1>5. RestartIncrease(records["slow"]) \in Nat
  <2> DEFINE R == records["slow"]
  <2>1. R \in Seq(InHour(F, "slow", h))  BY <1>2, HourRecordsAre
  <2> HIDE DEF R
  <2>2. Len(R) \in Nat /\ \A k \in 1..Len(R) : R[k] \in InHour(F, "slow", h)  BY <2>1, PartsOf
  <2>3. ASSUME ~ (Len(R) < 2)
        PROVE  /\ Head(R).restarts \in Nat /\ Last(R).restarts \in Nat
    <3>1. 1 \in 1..Len(R) /\ Len(R) \in 1..Len(R)  BY <2>2, <2>3
    <3>2. R[1] \in InHour(F, "slow", h) /\ R[Len(R)] \in InHour(F, "slow", h)  BY <2>2, <3>1
    <3>3. Head(R) = R[1]  BY <2>1, <2>2, <2>3
    <3>4. Last(R) = R[Len(R)]  BY DEF Last
    <3> QED BY <1>3, <3>2, <3>3, <3>4
  <2> DEFINE a == Last(R).restarts
             b == Head(R).restarts
  <2>4. RestartIncrease(R) = IF Len(R) < 2 THEN 0 ELSE Most(a - b, 0)  BY DEF RestartIncrease
  <2>5. ~ (Len(R) < 2) => a \in Nat /\ b \in Nat  BY <2>3
  <2> HIDE DEF a, b
  <2>6. RestartIncrease(R) \in Nat  BY <2>4, <2>5 DEF Most
  <2> QED BY <2>6 DEF R
<1> QED BY <1>1, <1>4, <1>5

\* The parts of the cloud's summary that are judged.
LEMMA CloudDayIs ==
  ASSUME NEW hours
  PROVE  LET c == MergeCloudDaily(hours)
             events == TopEvents(FlattenSeq(<< >> \o [k \in DOMAIN hours |-> hours[k].events]),
                                 MaxEvents)
         IN /\ c.overall = CloudOverall(hours, events) /\ c.counts = DailyCounts(hours)
            /\ c.restarts = Total(<< >> \o [k \in DOMAIN hours |-> hours[k].restarts])
BY DEF MergeCloudDaily, Each, Listed

\* A day is normal only without an event.
LEMMA CloudNormal ==
  ASSUME NEW hours, NEW events, CloudOverall(hours, events) = "normal"
  PROVE  events = << >>
BY DEF CloudOverall

\* A day that the cloud's report calls normal has no event in any hour.
LEMMA CloudDayQuiet ==
  ASSUME NEW F, \A h \in HourSet : Stored(F[h]),
         MergeDaily("cloud", DayOf("cloud", F)).overall = "normal", NEW h \in HourSet
  PROVE  CloudHour(F[h], h).events = << >>
<1> DEFINE hs == DayOf("cloud", F)
           q == [k \in 1..Hours |-> CloudHour(F[k - 1], k - 1).events]
<1>1. DOMAIN hs = 1..Hours /\ \A k \in 1..Hours : hs[k] = CloudHour(F[k - 1], k - 1)
  BY DayHours DEF Hour
<1>2. MergeDaily("cloud", hs) = MergeCloudDaily(hs)  BY DEF MergeDaily
<1>3. MergeCloudDaily(hs).overall = "normal"  BY <1>2
<1> HIDE DEF hs
<1>4. q = [k \in DOMAIN hs |-> hs[k].events]  BY <1>1
<1>5. TopEvents(FlattenSeq(<< >> \o q), MaxEvents) = << >>
  <2> DEFINE events == TopEvents(FlattenSeq(<< >> \o [k \in DOMAIN hs |-> hs[k].events]),
                                 MaxEvents)
  <2>1. CloudOverall(hs, events) = "normal"  BY <1>3, CloudDayIs
  <2> HIDE DEF events
  <2>2. events = << >>  BY <2>1, CloudNormal
  <2> QED BY <1>4, <2>2 DEF events
<1>6. Hours \in Nat /\ \A k \in 1..Hours : k - 1 \in HourSet
  BY DayHours
<1>7. ASSUME NEW k \in 1..Hours PROVE IsList(q[k])
  <2>1. Stored(F[k - 1]) /\ k - 1 \in HourSet  BY <1>6
  <2> QED BY <2>1, CloudHourQuiet
<1>8. q = [k \in 1..Hours |-> q[k]]  OBVIOUS
<1>9. \A k \in 1..Hours : q[k] = CloudHour(F[k - 1], k - 1).events  OBVIOUS
<1> HIDE DEF q
<1>10. << >> \o q = q  BY <1>6, <1>8, ListFrom
<1>11. IsList(FlattenSeq(q)) /\ \A k \in 1..Hours : FlattenSeq(q) = << >> => q[k] = << >>
  BY <1>6, <1>7, <1>8, FlattenList
<1>12. MaxEvents \in Nat \ {0}  BY ReportAssumption DEF ReportAssumption
<1>13. FlattenSeq(q) = << >>  BY <1>5, <1>10, <1>11, <1>12, TopList
<1> DEFINE k == h + 1
<1>14. k \in 1..Hours /\ k - 1 = h
  BY ReportAssumption DEF ReportAssumption, HourSet
<1> HIDE DEF k
<1>15. q[k] = << >>  BY <1>11, <1>13, <1>14
<1> QED BY <1>9, <1>14, <1>15

\* Nor does it have a count or a restart.
LEMMA CloudDayCounts ==
  ASSUME NEW F, \A h \in HourSet : Stored(F[h]) /\ WellFormed("cloud", F[h]),
         MergeDaily("cloud", DayOf("cloud", F)).overall = "normal"
  PROVE  LET c == MergeDaily("cloud", DayOf("cloud", F))
         IN /\ \A m \in CloudCounts : ~ (c.counts[m] > 0)
            /\ ~ (c.restarts > 0)
<1> DEFINE hs == DayOf("cloud", F)
           c == MergeDaily("cloud", hs)
<1>1. DOMAIN hs = 1..Hours /\ \A k \in 1..Hours : hs[k] = CloudHour(F[k - 1], k - 1)
  BY DayHours DEF Hour
<1>2. c = MergeCloudDaily(hs)  BY DEF MergeDaily
<1>3. Hours \in Nat \ {0} /\ \A k \in 1..Hours : k - 1 \in HourSet
  BY DayHours
<1>4. ASSUME NEW k \in 1..Hours
      PROVE  /\ \A m \in CloudCounts : hs[k].counts[m] \in Nat /\ ~ (hs[k].counts[m] > 0)
             /\ hs[k].restarts \in Nat /\ ~ (hs[k].restarts > 0)
             /\ DOMAIN hs[k].counts = CloudCounts
  <2> DEFINE h == k - 1
  <2>1. h \in HourSet /\ Stored(F[h]) /\ WellFormed("cloud", F[h])  BY <1>3
  <2>2. hs[k] = CloudHour(F[h], h)  BY <1>1
  <2> HIDE DEF h, hs
  <2>3. CloudHour(F[h], h).events = << >>  BY <2>1, CloudDayQuiet
  <2>4. /\ \A m \in CloudCounts : ~ (CloudHour(F[h], h).counts[m] > 0)
        /\ ~ (CloudHour(F[h], h).restarts > 0)
    BY <2>1, <2>3, CloudHourQuiet
  <2>5. /\ \A m \in CloudCounts : CloudHour(F[h], h).counts[m] \in Nat
        /\ CloudHour(F[h], h).restarts \in Nat
    BY <2>1, CloudNumbers
  <2>6. DOMAIN CloudHour(F[h], h).counts = CloudCounts
    <3>1. \A R : DOMAIN HourCounts(R) = CloudCounts  BY DEF HourCounts, CloudCounts, Each, Listed
    <3>2. CloudHour(F[h], h).counts
            = HourCounts([fast |-> HourRecords(F[h], "fast", h), slow |-> HourRecords(F[h], "slow", h)])
      BY DEF CloudHour
    <3> QED BY <3>1, <3>2
  <2> QED BY <2>2, <2>4, <2>5, <2>6
<1> HIDE DEF hs
<1>5. ASSUME NEW p, p \in [1..Hours -> Nat], \A k \in 1..Hours : ~ (p[k] > 0)
      PROVE  ~ (Total(<< >> \o p) > 0) /\ ~ (MostOf(<< >> \o p) > 0)
  <2>1. p \in Seq(Nat) /\ Len(p) = Hours /\ << >> \o p = p  BY <1>3, <1>5, ListOf
  <2> QED BY <1>5, <2>1, TotalOfNumbers, MostOfNumbers
<1>6. ~ (c.restarts > 0)
  <2> DEFINE p == [k \in DOMAIN hs |-> hs[k].restarts]
  <2>1. p \in [1..Hours -> Nat] /\ \A k \in 1..Hours : ~ (p[k] > 0)  BY <1>1, <1>4
  <2>2. c.restarts = Total(<< >> \o p)  BY <1>2, CloudDayIs
  <2> HIDE DEF p
  <2> QED BY <1>5, <2>1, <2>2
<1>7. ASSUME NEW m \in CloudCounts PROVE ~ (c.counts[m] > 0)
  <2> DEFINE p == [k \in DOMAIN hs |-> hs[k].counts[m]]
  <2>1. p \in [1..Hours -> Nat] /\ \A k \in 1..Hours : ~ (p[k] > 0)  BY <1>1, <1>4
  <2>2. c.counts = DailyCounts(hs)  BY <1>2, CloudDayIs
  <2>3. DOMAIN Head(hs).counts = CloudCounts
    <3>1. hs = [k \in 1..Hours |-> hs[k]]
      <4>1. DayOf("cloud", F) = [k \in 1..Hours |-> DayOf("cloud", F)[k]]  BY DEF DayOf
      <4> QED BY <4>1 DEF hs
    <3>2. IsList(hs) /\ Len(hs) = Hours  BY <1>3, <3>1, ListFrom
    <3>3. Head(hs) = hs[1]
      <4>1. hs # << >> /\ hs \in Seq(ToSet(hs))  BY <1>3, <3>2, ListIs
      <4> QED BY <4>1
    <3>4. 1 \in 1..Hours  BY <1>3
    <3> QED BY <1>4, <3>3, <3>4
  <2>4. ASSUME m \in DOMAIN Head(hs).counts
        PROVE  DailyCounts(hs)[m] = Total(<< >> \o p) \/ DailyCounts(hs)[m] = MostOf(<< >> \o p)
    BY <2>4 DEF DailyCounts, Each, Listed
  <2> HIDE DEF p
  <2> QED BY <1>5, <2>1, <2>2, <2>3, <2>4
<1> QED BY <1>6, <1>7 DEF c, hs

\* Records of which some are well formed.
LEMMA WellFormedPart ==
  ASSUME NEW t, NEW B, WellFormed(t, B), NEW G \in SUBSET B
  PROVE  Stored(G) /\ WellFormed(t, G)
<1>1. Stored(G)  BY StoredPart DEF WellFormed
<1>2. \A d : Of(G, d) \subseteq Of(B, d)  BY DEF Of
<1> QED BY <1>1, <1>2 DEF WellFormed

\* What a fresh context was made of.
LEMMA FreshContext ==
  ASSUME IInv, NEW t \in Targets, Fresh(t)
  PROVE  \E F : /\ ReadOf(t, F)
                /\ context[t] = MergeDaily(t, DayOf(t, F))
                /\ \A h \in HourSet : /\ Stored(F[h]) /\ WellFormed(t, F[h])
                                      /\ seen[t] \subseteq F[h] /\ F[h] \subseteq files[t]
<1>1. Traced(t)  BY DEF IInv
<1>2. PICK F : ReadOf(t, F)  BY <1>1, ContextRead
<1>3. context[t] = MergeDaily(t, DayOf(t, F))  BY <1>2 DEF ReadOf, DayOf
<1>4. WellFormed(t, files[t] \cup late[t])  BY <1>1 DEF Traced
<1>5. ASSUME NEW h \in HourSet
      PROVE  /\ Stored(F[h]) /\ WellFormed(t, F[h])
             /\ seen[t] \subseteq F[h] /\ F[h] \subseteq files[t]
  <2>1. seen[t] \subseteq F[h] /\ F[h] \subseteq files[t]  BY <1>2 DEF ReadOf
  <2>2. F[h] \in SUBSET (files[t] \cup late[t])  BY <2>1
  <2> QED BY <1>4, <2>1, <2>2, WellFormedPart
<1> QED BY <1>2, <1>3, <1>5

\* What was worst in the day decides what the report says of it.
THEOREM ReportsSayTheWorst == Spec => []WorstIsReported
<1>1. IInv => WorstIsReported
  <2> SUFFICES ASSUME IInv PROVE WorstIsReported  OBVIOUS
  <2>0. "factory" \in Targets /\ "cloud" \in Targets  BY DEF Targets
  <2>1. ASSUME Fresh("factory"),
               NEW r \in Of(seen["factory"], "risk_score"), r.level = "danger"
        PROVE  Overall("factory") = "danger"
    <3>1. PICK F : /\ context["factory"] = MergeDaily("factory", DayOf("factory", F))
                   /\ \A h \in HourSet : Stored(F[h]) /\ seen["factory"] \subseteq F[h]
      BY <2>0, <2>1, FreshContext
    <3>2. r \in seen["factory"] /\ r.dataset = "risk_score"  BY DEF Of
    <3>3. 0 \in HourSet  BY ReportAssumption DEF ReportAssumption, HourSet
    <3>4. r.time \in 0..Hours * HourTicks - 1  BY <3>1, <3>2, <3>3 DEF Stored
    <3>5. PICK k \in 1..Hours : Start(k - 1) <= r.time /\ r.time < ExclusiveEnd(End(k - 1))
      BY <3>4, HourOfTime
    <3> DEFINE h == k - 1
    <3>6. h \in HourSet  BY ReportAssumption DEF ReportAssumption, HourSet
    <3>7. r \in InHour(F[h], "risk_score", h)
      <4>1. Start(h) \in Int /\ r.time \in Int
        BY <3>4, <3>6, HourTimes, ReportAssumption DEF ReportAssumption
      <4>2. r.time >= Start(h)  BY <3>5, <4>1
      <4> QED BY <3>1, <3>2, <3>5, <3>6, <4>2 DEF InHour
    <3> HIDE DEF h
    <3>8. FactoryOverall(context["factory"]) = "danger"
      BY <2>1, <3>1, <3>6, <3>7, DangerousDay
    <3> QED BY <3>8, TextOfFactory DEF Overall
  <2>2. ASSUME Fresh("cloud"), NEW h \in HourSet, hourly["cloud"][h].events # << >>,
               Overall("cloud") = "normal"
        PROVE  FALSE
    <3>1. PICK F : /\ ReadOf("cloud", F)
                   /\ context["cloud"] = MergeDaily("cloud", DayOf("cloud", F))
                   /\ \A g \in HourSet : Stored(F[g])
      BY <2>0, <2>2, FreshContext
    <3>2. context["cloud"].overall = "normal"  BY <2>2, TextOfCloud DEF Overall
    <3>3. hourly["cloud"][h] = CloudHour(F[h], h)  BY <3>1 DEF ReadOf, Hour
    <3>4. CloudHour(F[h], h).events = << >>  BY <3>1, <3>2, CloudDayQuiet
    <3> QED BY <2>2, <3>3, <3>4
  <2> QED BY <2>1, <2>2 DEF WorstIsReported
<1> QED BY <1>1, ReportInvariant, PTL

\* Without counts above 0 the tables ask for checks of the collection only.
LEMMA NormalCloudConcerns ==
  ASSUME NEW c, \A m \in CloudCounts : ~ (c.counts[m] > 0), ~ (c.restarts > 0)
  PROVE  CloudConcerns(c) \subseteq ToSet(Streams)
<1>1. JudgedCounts \subseteq CloudCounts
  BY DEF JudgedCounts, CloudCounts, FastCounts, SlowCounts, Summed, Maximal
<1>2. {m \in JudgedCounts : c.counts[m] > 0} = {}  BY <1>1
<1> QED BY <1>2 DEF CloudConcerns

\* A report that calls the day normal asks for no check but those named.
THEOREM ReportsAgree == Spec => []JudgementsAgree
<1>1. IInv => JudgementsAgree
  <2> SUFFICES ASSUME IInv, NEW t \in Targets, report[t] # None, report[t].overall = "normal"
               PROVE  report[t].concerns \subseteq
                        DatasetsOf[t] \cup (IF t = "factory"
                          THEN {"max_gap", "ai_spikes", "abnormal_sounds"} ELSE {})
    BY DEF JudgementsAgree
  <2>1. Traced(t)  BY DEF IInv
  <2>2. ReportOf(t, files[t], report[t])  BY <2>1 DEF Traced
  <2>3. PICK F \in [HourSet -> SUBSET files[t]] :
          report[t] = Text(t, MergeDaily(t, DayOf(t, F)))
    BY <2>2 DEF ReportOf, DayOf
  <2>4. \A h \in HourSet : Stored(F[h]) /\ WellFormed(t, F[h])
    <3>1. WellFormed(t, files[t] \cup late[t])  BY <2>1 DEF Traced
    <3>2. \A h \in HourSet : F[h] \in SUBSET (files[t] \cup late[t])  OBVIOUS
    <3> QED BY <3>1, <3>2, WellFormedPart
  <2> DEFINE c == MergeDaily(t, DayOf(t, F))
  <2>5. CASE t = "factory"
    <3>1. FactoryOverall(c) = "normal" /\ report[t].concerns = FactoryConcerns(c)
      BY <2>3, <2>5, TextOfFactory
    <3>2. \A s \in c.risk.scores : ~ (s < 80)
      <4>1. \A h \in HourSet : Stored(F[h]) /\ WellFormed("factory", F[h])  BY <2>4, <2>5
      <4>2. FactoryOverall(MergeDaily("factory", DayOf("factory", F))) = "normal"  BY <2>5, <3>1
      <4> QED BY <2>5, <4>1, <4>2, NormalScores
    <3> HIDE DEF c
    <3>3. FactoryConcerns(c) \subseteq
            ToSet(Datasets) \cup {"max_gap", "ai_spikes", "abnormal_sounds"}
      BY <3>1, <3>2, NormalFactoryConcerns
    <3> QED BY <2>5, <3>1, <3>3 DEF DatasetsOf
  <2>6. CASE t = "cloud"
    <3>1. c.overall = "normal" /\ report[t].concerns = CloudConcerns(c)
      BY <2>3, <2>6, TextOfCloud
    <3>2. /\ \A m \in CloudCounts : ~ (c.counts[m] > 0)
          /\ ~ (c.restarts > 0)
      <4>1. \A h \in HourSet : Stored(F[h]) /\ WellFormed("cloud", F[h])  BY <2>4, <2>6
      <4>2. MergeDaily("cloud", DayOf("cloud", F)).overall = "normal"  BY <2>6, <3>1
      <4> QED BY <2>6, <4>1, <4>2, CloudDayCounts
    <3> HIDE DEF c
    <3>3. CloudConcerns(c) \subseteq ToSet(Streams)  BY <3>2, NormalCloudConcerns
    <3> QED BY <2>6, <3>1, <3>3 DEF DatasetsOf
  <2> QED BY <2>5, <2>6 DEF Targets
<1> QED BY <1>1, ReportInvariant, PTL

\* On a day called normal there are records in any stretch of it that is twice
\* as long as a gap may be.
THEOREM SilenceIsReported == Spec => []SilenceReported
<1>1. IInv => SilenceReported
  <2> SUFFICES ASSUME IInv, NEW t \in Targets, Fresh(t), Overall(t) = "normal",
                      NEW d \in DatasetsOf[t],
                      NEW a \in 0..Hours * HourTicks - MissedInARow(t, d)
               PROVE  \E r \in Of(files[t], d) : r.time \in a..a + MissedInARow(t, d) - 1
    BY DEF SilenceReported
  <2> DEFINE allowed == IF t = "factory" THEN AllowedGap(d) ELSE Allowed[d]
  <2>1. PICK F : /\ context[t] = MergeDaily(t, DayOf(t, F))
                 /\ \A h \in HourSet : Stored(F[h]) /\ F[h] \subseteq files[t]
    BY FreshContext
  <2>2. allowed \in Nat \ {0} /\ \A h \in HourSet : Heard(F[h], d, h, allowed)
    <3>1. CASE t = "factory"
      <4>1. d \in ToSet(Datasets)  BY <3>1 DEF DatasetsOf
      <4>2. FactoryOverall(MergeDaily("factory", DayOf("factory", F))) = "normal"
        BY <2>1, <3>1, TextOfFactory DEF Overall
      <4>3. \A h \in HourSet : Heard(F[h], d, h, AllowedGap(d))
        BY <2>1, <4>1, <4>2, FactoryDayHeard
      <4> QED BY <3>1, <4>1, <4>3, AllowedPositive
    <3>2. CASE t = "cloud"
      <4>1. d \in ToSet(Streams)  BY <3>2 DEF DatasetsOf
      <4>2. MergeDaily("cloud", DayOf("cloud", F)).overall = "normal"
        BY <2>1, <3>2, TextOfCloud DEF Overall
      <4>3. ASSUME NEW h \in HourSet PROVE Heard(F[h], d, h, Allowed[d])
        <5>1. CloudHour(F[h], h).events = << >>  BY <2>1, <4>2, CloudDayQuiet
        <5> QED BY <2>1, <4>1, <5>1, CloudHourQuiet
      <4> QED BY <3>2, <4>1, <4>3, AllowedPositive
    <3> QED BY <3>1, <3>2 DEF Targets
  <2>3. MissedInARow(t, d) = 2 * allowed  BY DEF MissedInARow
  <2> HIDE DEF allowed
  <2>4. a \in 0..Hours * HourTicks - 2 * allowed  BY <2>3
  <2>5. \E r \in Of(files[t], d) : r.time \in a..a + 2 * allowed - 1
    BY <2>1, <2>2, <2>4, StretchHeard
  <2> QED BY <2>3, <2>5
<1> QED BY <1>1, ReportInvariant, PTL

-----------------------------------------------------------------------------
(* Events: ranked, joined and ranked again. *)

\* By three numbers, the greatest first, and then by place.
Before(a, b, c, j, k) ==
  \/ a[j] > a[k]
  \/ a[j] = a[k] /\ b[j] > b[k]
  \/ a[j] = a[k] /\ b[j] = b[k] /\ c[j] > c[k]
  \/ a[j] = a[k] /\ b[j] = b[k] /\ c[j] = c[k] /\ j < k

Place(n, a, b, c, k) == Cardinality({j \in 1..n : Before(a, b, c, j, k)})

\* A stable sort has one element for every place.
LEMMA PlacesTaken ==
  ASSUME NEW n \in Nat, NEW a \in [1..n -> Int], NEW b \in [1..n -> Int], NEW c \in [1..n -> Int]
  PROVE  \A m \in 1..n : \E k \in 1..n : Place(n, a, b, c, k) = m - 1
<1> DEFINE D == 1..n
           B(k) == {j \in D : Before(a, b, c, j, k)}
           f == [k \in D |-> Place(n, a, b, c, k) + 1]
<1>1. IsFiniteSet(D) /\ Cardinality(D) = n
  <2>0. 1 \in Int /\ n \in Int  OBVIOUS
  <2>1. Cardinality(1..n) = IF 1 > n THEN 0 ELSE n - 1 + 1  BY <2>0, FS_Interval
  <2>2. IsFiniteSet(1..n)  BY <2>0, FS_Interval
  <2> DEFINE card == Cardinality(1..n)
  <2>3. card = IF 1 > n THEN 0 ELSE n - 1 + 1  BY <2>1
  <2> HIDE DEF card
  <2>4. card = n  BY <2>3
  <2> QED BY <2>2, <2>4 DEF card
<1>2. \A k \in D : a[k] \in Int /\ b[k] \in Int /\ c[k] \in Int  OBVIOUS
<1>3. \A k \in D : B(k) \subseteq D /\ k \notin B(k)  BY <1>2 DEF Before
<1>4. ASSUME NEW j \in D, NEW k \in D, j # k
      PROVE  Before(a, b, c, j, k) \/ Before(a, b, c, k, j)
  BY <1>2, <1>4 DEF Before
<1>5. ASSUME NEW i \in D, NEW j \in D, NEW k \in D,
             Before(a, b, c, i, j), Before(a, b, c, j, k)
      PROVE  Before(a, b, c, i, k)
  BY <1>2, <1>5 DEF Before
<1>6. \A k \in D : Place(n, a, b, c, k) = Cardinality(B(k))  BY DEF Place
<1>7. ASSUME NEW k \in D PROVE IsFiniteSet(B(k)) /\ Cardinality(B(k)) \in 0..n - 1
  <2> DEFINE x == B(k)
  <2>1. x \subseteq D /\ x # D  BY <1>3
  <2> HIDE DEF x, D
  <2>2. IsFiniteSet(x) /\ Cardinality(x) \in Nat  BY <1>1, <2>1, FS_Subset, FS_CardinalityType
  <2>3. Cardinality(x) <= Cardinality(D) /\ (Cardinality(D) = Cardinality(x) => D = x)
    BY <1>1, <2>1, FS_Subset
  <2>4. Cardinality(x) \in 0..n - 1  BY <1>1, <2>1, <2>2, <2>3
  <2> QED BY <2>2, <2>4 DEF x
<1>8. ASSUME NEW j \in D, NEW k \in D, Before(a, b, c, j, k)
      PROVE  Cardinality(B(j)) < Cardinality(B(k))
  <2> DEFINE x == B(j)
             y == B(k)
  <2>1. j \in y /\ j \notin x  BY <1>3, <1>8
  <2>2. x \subseteq y  BY <1>5, <1>8
  <2>3. IsFiniteSet(y) /\ Cardinality(x) \in 0..n - 1 /\ Cardinality(y) \in 0..n - 1  BY <1>7
  <2> HIDE DEF x, y
  <2>4. Cardinality(x) <= Cardinality(y) /\ (Cardinality(y) = Cardinality(x) => y = x)
    BY <2>2, <2>3, FS_Subset
  <2>5. Cardinality(x) < Cardinality(y)  BY <2>1, <2>3, <2>4
  <2> QED BY <2>5 DEF x, y
<1> HIDE DEF B
<1>9. ASSUME NEW j \in D, NEW k \in D, f[j] = f[k] PROVE j = k
  <2> SUFFICES ASSUME j # k PROVE FALSE  OBVIOUS
  <2>1. f[j] = Cardinality(B(j)) + 1 /\ f[k] = Cardinality(B(k)) + 1  BY <1>6
  <2>2. Cardinality(B(j)) \in Int /\ Cardinality(B(k)) \in Int  BY <1>7
  <2>3. Cardinality(B(j)) = Cardinality(B(k))  BY <1>9, <2>1, <2>2
  <2>4. CASE Before(a, b, c, j, k)  BY <1>8, <2>2, <2>3, <2>4
  <2>5. CASE Before(a, b, c, k, j)  BY <1>8, <2>2, <2>3, <2>5
  <2> QED BY <1>4, <2>4, <2>5
<1>10. ASSUME NEW k \in D PROVE f[k] \in D /\ f[k] = Place(n, a, b, c, k) + 1
  <2>1. Place(n, a, b, c, k) \in 0..n - 1  BY <1>6, <1>7
  <2> QED BY <2>1
<1>11. f \in [D -> D]  BY <1>10
<1> HIDE DEF f
<1>12. f \in Injection(D, D)  BY <1>9, <1>11 DEF Injection, IsInjective
<1> HIDE DEF D
<1>13. f \in Surjection(D, D)  BY <1>1, <1>12, FS_Injection
<1>14. ASSUME NEW m \in D PROVE \E k \in D : Place(n, a, b, c, k) = m - 1
  <2>1. PICK k \in D : f[k] = m  BY <1>13 DEF Surjection
  <2>2. Place(n, a, b, c, k) \in Int  BY <1>6, <1>7
  <2>3. Place(n, a, b, c, k) + 1 = m  BY <1>10, <2>1
  <2> QED BY <2>2, <2>3
<1> QED BY <1>14 DEF D

-----------------------------------------------------------------------------
Types == {"risk_degradation", "sensor_threshold_exceeded", "ai_score_spike",
          "node_not_ready", "workload_unhealthy"}
Kinds == ToSet(AiScores) \cup {"risk", "temperature", "nodes", "pods", "restarts"}

\* The factory's events, and those of one kind.
Incidents ==
  {e \in [type : Types, kind : Kinds, severity : {"warning"}, start : Int, end : Int,
          minutes : Int, magnitude : Int] : e.start <= e.end}
OfKind(kind) == {e \in Incidents : e.kind = kind}

\* Events in order, each more than the merge gap after those before.
Apart(s) ==
  \A i, j \in 1..Len(s) : i < j => s[j].start > s[i].end + MergeGap + 1

\* Wherever they are in a list, events of one kind are apart.
Separate(s) ==
  \A i, j \in 1..Len(s) :
    i # j /\ s[i].kind = s[j].kind /\ s[i].start <= s[j].start =>
      s[j].start > s[i].end + MergeGap + 1

\* What events are made of.
LEMMA IncidentIs ==
  ASSUME NEW e \in Incidents
  PROVE  /\ e.start \in Int /\ e.end \in Int /\ e.minutes \in Int /\ e.magnitude \in Int
         /\ e.start <= e.end /\ e.kind \in Kinds /\ Score(e) \in Int
<1>1. /\ e.start \in Int /\ e.end \in Int /\ e.minutes \in Int /\ e.magnitude \in Int
      /\ e.start <= e.end /\ e.kind \in Kinds /\ e.severity = "warning"
  BY DEF Incidents
<1>2. Base["warning"] = 50  BY DEF Base
<1>3. MaxBonus \in Int  BY ReportAssumption DEF ReportAssumption
<1>4. Least(e.minutes, MaxBonus) \in Int  BY <1>1, <1>3 DEF Least
<1>5. Score(e) \in Int  BY <1>1, <1>2, <1>4 DEF Score
<1> QED BY <1>1, <1>5

\* Two events of a kind make one that starts with the first.
LEMMA CombinedIs ==
  ASSUME NEW kind, NEW x \in OfKind(kind), NEW y \in OfKind(kind)
  PROVE  Combined(x, y) \in OfKind(kind) /\ Combined(x, y).start = x.start
<1> DEFINE a == Most(x.end, y.end)
           b == Most(x.end, y.end) - x.start + 1
           c == Most(x.magnitude, y.magnitude)
           z == [x EXCEPT !.end = a, !.minutes = b, !.magnitude = c]
<1>1. x \in Incidents /\ y \in Incidents /\ x.kind = kind  BY DEF OfKind
<1>2. a \in Int /\ x.start <= a /\ b \in Int /\ c \in Int
  BY <1>1, IncidentIs DEF Most
<1>3. Combined(x, y) = z  BY DEF Combined
<1> HIDE DEF a, b, c
<1>4. z \in Incidents /\ z.start = x.start /\ z.kind = x.kind
  <2>1. x \in [type : Types, kind : Kinds, severity : {"warning"}, start : Int, end : Int,
               minutes : Int, magnitude : Int]
    BY <1>1 DEF Incidents
  <2>2. z \in [type : Types, kind : Kinds, severity : {"warning"}, start : Int, end : Int,
               minutes : Int, magnitude : Int]
    BY <1>2, <2>1
  <2>3. z.start = x.start /\ z.kind = x.kind /\ z.end = a  BY <2>1
  <2> QED BY <1>2, <2>2, <2>3 DEF Incidents
<1> QED BY <1>1, <1>3, <1>4 DEF OfKind

\* What Joined() does with one event.
Extended(sofar, e) ==
  IF sofar # << >> /\ MinuteDistance(Last(sofar).end, e.start) <= MergeGap
    THEN Front(sofar) \o <<Combined(Last(sofar), e)>>
    ELSE Append(sofar, e)

\* The events of a kind stay apart, one by one.
LEMMA ExtendedIs ==
  ASSUME NEW kind, NEW s \in Seq(OfKind(kind)), NEW e \in OfKind(kind)
  PROVE  Extended(s, e) \in Seq(OfKind(kind)) /\ (Apart(s) => Apart(Extended(s, e)))
<1> DEFINE S == OfKind(kind)
           n == Len(s)
<1>1. /\ n \in Nat /\ \A k \in 1..n : s[k] \in S
      /\ (s = << >> <=> n = 0)
  BY PartsOf
<1>2. \A x \in S : x.start \in Int /\ x.end \in Int /\ x.start <= x.end
  BY IncidentIs DEF OfKind
<1>3. e \in S  OBVIOUS
<1>4. MergeGap = 2  BY DEF MergeGap
<1>5. CASE n # 0 /\ MinuteDistance(s[n].end, e.start) <= MergeGap
  <2> DEFINE x == Combined(s[n], e)
             f == SubSeq(s, 1, n - 1)
             d == f \o <<x>>
  <2>1. n \in 1..n /\ n - 1 \in Nat /\ n - 1 <= n  BY <1>1, <1>5
  <2>2. s[n] \in OfKind(kind)  BY <1>1, <2>1
  <2>3. x \in S /\ x.start = s[n].start  BY <2>2, CombinedIs
  <2>4. f \in Seq(S) /\ Len(f) = n - 1 /\ \A k \in 1..n - 1 : f[k] = s[k]
    <3>1. /\ Len(f) = IF 1 <= n - 1 THEN n - 1 - 1 + 1 ELSE 0
          /\ f \in Seq(S) /\ \A k \in 1..n - 1 : f[k] = s[1 + k - 1]
      BY <1>1, <2>1, SubSeqProperties
    <3> HIDE DEF f
    <3>2. Len(f) = n - 1
      <4> DEFINE l == Len(f)
      <4>1. l = IF 1 <= n - 1 THEN n - 1 - 1 + 1 ELSE 0  BY <3>1
      <4> HIDE DEF l, n
      <4>2. l = n - 1  BY <2>1, <4>1
      <4> QED BY <4>2 DEF l
    <3>3. \A k \in 1..n - 1 : 1 + k - 1 = k  OBVIOUS
    <3> QED BY <3>1, <3>2, <3>3
  <2>5. <<x>> \in Seq(S) /\ Len(<<x>>) = 1 /\ <<x>>[1] = x  BY <2>3
  <2>6. Extended(s, e) = d  BY <1>1, <1>5 DEF Extended, Last, Front
  <2> HIDE DEF x, f, S
  <2>7. /\ d \in Seq(S) /\ Len(d) = Len(f) + Len(<<x>>)
        /\ \A k \in 1..Len(f) : d[k] = f[k]
        /\ \A k \in 1..Len(<<x>>) : d[Len(f) + k] = <<x>>[k]
    <3> DEFINE g == <<x>>
    <3>1. g \in Seq(S)  BY <2>5
    <3> HIDE DEF g
    <3> QED BY <2>4, <3>1, Both DEF g
  <2> HIDE DEF d
  <2>8. /\ Len(d) = n /\ \A k \in 1..n - 1 : d[k] = s[k]
        /\ d[n] = x
    <3>1. Len(d) = n  BY <2>1, <2>4, <2>5, <2>7
    <3>2. \A k \in 1..n - 1 : d[k] = s[k]  BY <2>4, <2>7
    <3>3. 1 \in 1..Len(<<x>>)  BY <2>5
    <3>4. d[Len(f) + 1] = x  BY <2>5, <2>7, <3>3
    <3>5. Len(f) + 1 = n  BY <2>1, <2>4
    <3> QED BY <3>1, <3>2, <3>4, <3>5
  <2>9. ASSUME Apart(s), NEW i \in 1..n, NEW j \in 1..n, i < j
        PROVE  d[j].start > d[i].end + MergeGap + 1
    <3>1. i \in 1..n - 1  BY <1>1, <2>9
    <3>2. s[j].start > s[i].end + MergeGap + 1  BY <2>9 DEF Apart
    <3>3. d[i] = s[i]  BY <2>8, <3>1
    <3>4. d[j].start = s[j].start
      <4>1. CASE j = n  BY <2>3, <2>8, <4>1
      <4>2. CASE j # n
        <5>1. j \in 1..n - 1  BY <1>1, <4>2
        <5> QED BY <2>8, <5>1
      <4> QED BY <4>1, <4>2
    <3> QED BY <3>2, <3>3, <3>4
  <2>10. Apart(s) => Apart(d)  BY <2>8, <2>9 DEF Apart
  <2> QED BY <2>6, <2>7, <2>10 DEF S
<1>6. CASE n = 0 \/ ~ (MinuteDistance(s[n].end, e.start) <= MergeGap)
  <2> DEFINE d == Append(s, e)
  <2>1. Extended(s, e) = d  BY <1>1, <1>6 DEF Extended, Last
  <2>2. d \in Seq(S) /\ Len(d) = n + 1 /\ d[n + 1] = e /\ \A k \in 1..n : d[k] = s[k]
    BY <1>1
  <2> HIDE DEF d, S
  <2>3. ASSUME Apart(s), NEW i \in 1..n + 1, NEW j \in 1..n + 1, i < j
        PROVE  d[j].start > d[i].end + MergeGap + 1
    <3>1. i \in 1..n  BY <1>1, <2>3
    <3>2. d[i] = s[i]  BY <2>2, <3>1
    <3>3. CASE j # n + 1
      <4>1. j \in 1..n  BY <1>1, <3>3
      <4>2. s[j].start > s[i].end + MergeGap + 1  BY <2>3, <3>1, <4>1 DEF Apart
      <4>3. d[j] = s[j]  BY <2>2, <4>1
      <4> QED BY <3>2, <4>2, <4>3
    <3>4. CASE j = n + 1
      <4>1. n # 0 /\ n \in 1..n  BY <1>1, <3>1
      <4>2. /\ s[n].start \in Int /\ s[n].end \in Int /\ s[n].start <= s[n].end
            /\ s[i].end \in Int /\ e.start \in Int
        BY <1>1, <1>2, <1>3, <3>1, <4>1
      <4>3. e.start - s[n].end - 1 > 2
        BY <1>4, <1>6, <4>1, <4>2 DEF MinuteDistance
      <4>4. i = n \/ s[n].start > s[i].end + 2 + 1
        <5> SUFFICES ASSUME i # n PROVE s[n].start > s[i].end + 2 + 1  OBVIOUS
        <5>1. i < n  BY <1>1, <3>1
        <5> QED BY <1>4, <2>3, <3>1, <4>1, <5>1 DEF Apart
      <4>5. e.start > s[i].end + 2 + 1
        <5> DEFINE p == s[n].start
                   q == s[n].end
                   r == s[i].end
                   z == e.start
        <5>1. p \in Int /\ q \in Int /\ p <= q /\ r \in Int /\ z \in Int /\ z - q - 1 > 2
          BY <4>2, <4>3
        <5>2. r = q \/ p > r + 2 + 1  BY <4>4
        <5> HIDE DEF p, q, r, z
        <5>3. z > r + 2 + 1  BY <5>1, <5>2
        <5> QED BY <5>3 DEF z, r
      <4>6. d[j] = e  BY <2>2, <3>4
      <4> QED BY <1>4, <3>2, <4>5, <4>6
    <3> QED BY <3>3, <3>4
  <2>4. Apart(s) => Apart(d)  BY <2>2, <2>3 DEF Apart
  <2> QED BY <2>1, <2>2, <2>4 DEF S
<1> QED BY <1>1, <1>5, <1>6

-----------------------------------------------------------------------------
\* What Joined() folds over: the events by their starts.
ByStart(e) ==
  Listed([m \in 1..Least(Len(e), Len(e)) |->
            e[CHOOSE k \in DOMAIN e :
                Cardinality({j \in DOMAIN e :
                   \/ e[j].start < e[k].start
                   \/ ~(e[k].start < e[j].start) /\ j < k}) = m - 1]])

\* They are the same events.
LEMMA ByStartIs ==
  ASSUME NEW S, \A x \in S : x.start \in Int, NEW e \in Seq(S)
  PROVE  ByStart(e) \in Seq(S) /\ Len(ByStart(e)) = Len(e)
<1> DEFINE n == Len(e)
           rank(k) == Cardinality({j \in DOMAIN e :
                         \/ e[j].start < e[k].start
                         \/ ~(e[k].start < e[j].start) /\ j < k})
           at(m) == CHOOSE k \in DOMAIN e : rank(k) = m - 1
           f == [m \in 1..Least(n, n) |-> e[at(m)]]
           a == [k \in 1..n |-> 0 - e[k].start]
           b == [k \in 1..n |-> 0]
<1>1. n \in Nat /\ DOMAIN e = 1..n /\ \A k \in 1..n : e[k] \in S  BY PartsOf
<1>2. \A k \in 1..n : e[k].start \in Int  BY <1>1
<1>3. ByStart(e) = << >> \o f  BY DEF ByStart, Listed
<1>4. Least(n, n) = n  BY DEF Least
<1>5. a \in [1..n -> Int] /\ b \in [1..n -> Int]  BY <1>2
<1>6. ASSUME NEW k \in 1..n PROVE rank(k) = Place(n, a, b, b, k)
  <2>1. ASSUME NEW j \in 1..n
        PROVE  Before(a, b, b, j, k) <=>
                 (e[j].start < e[k].start \/ (~(e[k].start < e[j].start) /\ j < k))
    <3>1. e[j].start \in Int /\ e[k].start \in Int  BY <1>2
    <3>2. a[j] = 0 - e[j].start /\ a[k] = 0 - e[k].start /\ b[j] = 0 /\ b[k] = 0  OBVIOUS
    <3> HIDE DEF a, b
    <3> QED BY <3>1, <3>2 DEF Before
  <2> HIDE DEF a, b, n
  <2> DEFINE A == {j \in DOMAIN e : \/ e[j].start < e[k].start
                                    \/ ~(e[k].start < e[j].start) /\ j < k}
             B == {j \in 1..n : Before(a, b, b, j, k)}
  <2>2. A = B  BY <1>1, <2>1
  <2>3. rank(k) = Cardinality(A) /\ Place(n, a, b, b, k) = Cardinality(B)  BY DEF Place
  <2> QED BY <2>2, <2>3
<1> HIDE DEF n
<1>7. \A m \in 1..n : \E k \in 1..n : Place(n, a, b, b, k) = m - 1
  <2> HIDE DEF a, b
  <2> QED BY <1>1, <1>5, PlacesTaken
<1> HIDE DEF a, b, rank
<1>8. ASSUME NEW m \in 1..n PROVE at(m) \in 1..n
  <2>1. \E k \in DOMAIN e : rank(k) = m - 1  BY <1>1, <1>6, <1>7
  <2>2. at(m) \in DOMAIN e  BY <2>1
  <2> QED BY <1>1, <2>2
<1> HIDE DEF at
<1>9. f = [m \in 1..n |-> e[at(m)]]  BY <1>4
<1>10. f \in [1..n -> S]  BY <1>1, <1>8, <1>9
<1> HIDE DEF f
<1>11. f \in Seq(S) /\ Len(f) = n /\ << >> \o f = f  BY <1>1, <1>10, ListOf
<1> QED BY <1>3, <1>11 DEF n

\* Joined() leaves the events of a kind apart.
LEMMA JoinedIs ==
  ASSUME NEW kind, NEW e \in Seq(OfKind(kind))
  PROVE  Joined(e) \in Seq(OfKind(kind)) /\ Apart(Joined(e))
<1> DEFINE S == OfKind(kind)
           V == Seq(S)
           R == ByStart(e)
           D == DOMAIN R
           Body(i) == [s \in SUBSET D |->
                         IF s = {} THEN << >> ELSE Extended(i[s \ {Max(s)}], R[Max(s)])]
           fold == CHOOSE i : i = Body(i)
           n == Len(R)
           step == [q \in (1..n) \X V |-> Extended(q[2], R[q[1]])]
<1>1. Joined(e) = fold[D]
  BY DEF Joined, Ranked, Listed, ByStart, FoldLeft, MapThenFoldSet, Extended
<1>2. R \in V
  <2>1. \A x \in S : x.start \in Int  BY IncidentIs DEF OfKind
  <2> HIDE DEF S
  <2> QED BY <2>1, ByStartIs DEF S
<1> HIDE DEF R
<1>3. n \in Nat /\ D = 1..n /\ \A k \in 1..n : R[k] \in S  BY <1>2, PartsOf
<1>4. step \in [(1..n) \X V -> V]
  <2>1. ASSUME NEW q \in (1..n) \X V PROVE Extended(q[2], R[q[1]]) \in V
    <3>1. q[2] \in Seq(OfKind(kind)) /\ R[q[1]] \in OfKind(kind)  BY <1>3
    <3> QED BY <3>1, ExtendedIs
  <2> QED BY <2>1
<1>5. << >> \in V  OBVIOUS
<1> HIDE DEF V, S
<1>6. PICK f : StepFunction(f, n, V, << >>, step)
  <2> HIDE DEF n, step
  <2> QED BY <1>3, <1>4, <1>5, StepsExist
<1>7. ASSUME NEW s \in SUBSET D, s # {}
      PROVE  f[s] = Extended(f[s \ {Max(s)}], R[Max(s)])
  <2>1. s \in SUBSET (1..n) /\ n \in Nat  BY <1>3
  <2>2. Max(s) \in 1..n
    <3> HIDE DEF n
    <3> QED BY <1>7, <2>1, GreatestPlace
  <2>3. f[s \ {Max(s)}] \in V  BY <1>6, <2>1 DEF StepFunction
  <2> DEFINE q == <<Max(s), f[s \ {Max(s)}]>>
  <2>4. q \in (1..n) \X V  BY <2>2, <2>3
  <2>5. step[q] = Extended(q[2], R[q[1]])  BY <2>4
  <2> HIDE DEF step
  <2>6. f[s] = step[q]  BY <1>6, <1>7, <2>1 DEF StepFunction
  <2> QED BY <2>5, <2>6
<1>8. f = Body(f)
  <2>1. f = [s \in SUBSET D |-> f[s]]  BY <1>3, <1>6 DEF StepFunction
  <2>2. f[{}] = << >>  BY <1>6 DEF StepFunction
  <2> HIDE DEF D
  <2> QED BY <1>7, <2>1, <2>2
<1>9. fold = Body(fold)
  <2> HIDE DEF D
  <2> QED BY <1>8
<1>10. /\ fold[{}] = << >>
       /\ \A s \in SUBSET D : s # {} => fold[s] = Extended(fold[s \ {Max(s)}], R[Max(s)])
  <2> HIDE DEF fold, D
  <2> QED BY <1>9
<1> HIDE DEF fold
<1>11. ASSUME NEW s \in SUBSET (1..n), s # {}, fold[s \ {Max(s)}] \in V
       PROVE  fold[s] = step[<<Max(s), fold[s \ {Max(s)}]>>]
  <2>1. Max(s) \in 1..n
    <3> HIDE DEF n
    <3> QED BY <1>3, <1>11, GreatestPlace
  <2> DEFINE q == <<Max(s), fold[s \ {Max(s)}]>>
  <2>2. q \in (1..n) \X V  BY <1>11, <2>1
  <2>3. step[q] = Extended(q[2], R[q[1]])  BY <2>2
  <2> HIDE DEF step
  <2>4. fold[s] = Extended(fold[s \ {Max(s)}], R[Max(s)])  BY <1>3, <1>10, <1>11
  <2> QED BY <2>3, <2>4
<1>12. Made(fold[1..n], n, V, << >>, step)
  <2> HIDE DEF n, step
  <2>1. Stepwise(fold, n, V, << >>, step)  BY <1>10, <1>11 DEF Stepwise
  <2> QED BY <1>3, <1>4, <1>5, <2>1, StepsUnfold
<1> DEFINE G == {v \in V : Apart(v)}
<1>13. << >> \in G  BY <1>5 DEF Apart
<1>14. ASSUME NEW k \in 1..n, NEW v \in V \cap G PROVE step[<<k, v>>] \in G
  <2>1. R[k] \in OfKind(kind) /\ v \in Seq(OfKind(kind)) /\ Apart(v)  BY <1>3 DEF S, V
  <2>2. Extended(v, R[k]) \in Seq(OfKind(kind)) /\ Apart(Extended(v, R[k]))
    BY <2>1, ExtendedIs
  <2>3. step[<<k, v>>] = Extended(v, R[k])
    <3> DEFINE q == <<k, v>>
    <3>1. q \in (1..n) \X V  OBVIOUS
    <3>2. step[q] = Extended(q[2], R[q[1]])  BY <3>1
    <3> HIDE DEF step
    <3> QED BY <3>2
  <2> QED BY <2>2, <2>3 DEF S, V
<1>15. fold[1..n] \in V /\ fold[1..n] \in G
  <2> DEFINE x == fold[1..n]
  <2>1. Made(x, n, V, << >>, step)  BY <1>12
  <2> HIDE DEF n, step, G, x
  <2>2. x \in V /\ x \in G  BY <1>3, <1>13, <1>14, <2>1, StepsKeep
  <2> QED BY <2>2 DEF x
<1> QED BY <1>1, <1>3, <1>15 DEF S, V

\* The kinds of a list of events, each once.
KindsOf(events) ==
  FoldLeft(LAMBDA ks, e : IF Contains(ks, e.kind) THEN ks ELSE Append(ks, e.kind),
           << >>, events)

\* No kind is in the list twice.
Once(ks) == \A i, j \in 1..Len(ks) : i # j => ks[i] # ks[j]

LEMMA KindsAre ==
  ASSUME NEW e \in Seq(Incidents)
  PROVE  KindsOf(e) \in Seq(Kinds) /\ Once(KindsOf(e))
<1> DEFINE V == Seq(Kinds)
           D == DOMAIN e
           With(ks, x) == IF Contains(ks, x.kind) THEN ks ELSE Append(ks, x.kind)
           Body(i) == [s \in SUBSET D |->
                         IF s = {} THEN << >> ELSE With(i[s \ {Max(s)}], e[Max(s)])]
           fold == CHOOSE i : i = Body(i)
           n == Len(e)
           step == [q \in (1..n) \X V |-> With(q[2], e[q[1]])]
<1>1. KindsOf(e) = fold[D]
  BY DEF KindsOf, FoldLeft, MapThenFoldSet
<1>2. ASSUME NEW ks \in V, NEW x \in Incidents
      PROVE  With(ks, x) \in V /\ (Once(ks) => Once(With(ks, x)))
  <2>1. x.kind \in Kinds  BY IncidentIs
  <2>2. CASE Contains(ks, x.kind)  BY <2>2
  <2>3. CASE ~ Contains(ks, x.kind)
    <3> DEFINE d == Append(ks, x.kind)
               m == Len(ks)
    <3>1. m \in Nat /\ \A i \in 1..m : ks[i] # x.kind  BY <2>3, PartsOf DEF Contains
    <3>2. With(ks, x) = d  BY <2>3
    <3> HIDE DEF Kinds
    <3>3. d \in V /\ Len(d) = m + 1 /\ d[m + 1] = x.kind /\ \A i \in 1..m : d[i] = ks[i]
      BY <2>1
    <3> HIDE DEF d
    <3>4. ASSUME Once(ks), NEW i \in 1..m + 1, NEW j \in 1..m + 1, i # j PROVE d[i] # d[j]
      <4>1. CASE i = m + 1
        <5>1. j \in 1..m  BY <3>1, <3>4, <4>1
        <5> QED BY <3>1, <3>3, <4>1, <5>1
      <4>2. CASE j = m + 1
        <5>1. i \in 1..m  BY <3>1, <3>4, <4>2
        <5> QED BY <3>1, <3>3, <4>2, <5>1
      <4>3. CASE i # m + 1 /\ j # m + 1
        <5>1. i \in 1..m /\ j \in 1..m  BY <3>1, <4>3
        <5>2. ks[i] # ks[j]  BY <3>4, <5>1 DEF Once
        <5> QED BY <3>3, <5>1, <5>2
      <4> QED BY <4>1, <4>2, <4>3
    <3>5. Once(ks) => Once(d)  BY <3>3, <3>4 DEF Once
    <3> QED BY <3>2, <3>3, <3>5
  <2> QED BY <2>2, <2>3
<1> HIDE DEF With
<1>3. n \in Nat /\ D = 1..n /\ \A k \in 1..n : e[k] \in Incidents  BY PartsOf
<1>4. step \in [(1..n) \X V -> V]
  <2>1. ASSUME NEW q \in (1..n) \X V PROVE With(q[2], e[q[1]]) \in V
    <3>1. q[2] \in V /\ e[q[1]] \in Incidents  BY <1>3
    <3> QED BY <1>2, <3>1
  <2> QED BY <2>1
<1>5. << >> \in V  OBVIOUS
<1> HIDE DEF V
<1>6. PICK f : StepFunction(f, n, V, << >>, step)
  <2> HIDE DEF n, step
  <2> QED BY <1>3, <1>4, <1>5, StepsExist
<1>7. ASSUME NEW s \in SUBSET D, s # {}
      PROVE  f[s] = With(f[s \ {Max(s)}], e[Max(s)])
  <2>1. s \in SUBSET (1..n) /\ n \in Nat  BY <1>3
  <2>2. Max(s) \in 1..n
    <3> HIDE DEF n
    <3> QED BY <1>7, <2>1, GreatestPlace
  <2>3. f[s \ {Max(s)}] \in V  BY <1>6, <2>1 DEF StepFunction
  <2> DEFINE q == <<Max(s), f[s \ {Max(s)}]>>
  <2>4. q \in (1..n) \X V  BY <2>2, <2>3
  <2>5. step[q] = With(q[2], e[q[1]])  BY <2>4
  <2> HIDE DEF step
  <2>6. f[s] = step[q]  BY <1>6, <1>7, <2>1 DEF StepFunction
  <2> QED BY <2>5, <2>6
<1>8. f = Body(f)
  <2>1. f = [s \in SUBSET D |-> f[s]]  BY <1>3, <1>6 DEF StepFunction
  <2>2. f[{}] = << >>  BY <1>6 DEF StepFunction
  <2> HIDE DEF D
  <2> QED BY <1>7, <2>1, <2>2
<1>9. fold = Body(fold)
  <2> HIDE DEF D
  <2> QED BY <1>8
<1>10. /\ fold[{}] = << >>
       /\ \A s \in SUBSET D : s # {} => fold[s] = With(fold[s \ {Max(s)}], e[Max(s)])
  <2> HIDE DEF fold, D
  <2> QED BY <1>9
<1> HIDE DEF fold
<1>11. ASSUME NEW s \in SUBSET (1..n), s # {}, fold[s \ {Max(s)}] \in V
       PROVE  fold[s] = step[<<Max(s), fold[s \ {Max(s)}]>>]
  <2>1. Max(s) \in 1..n
    <3> HIDE DEF n
    <3> QED BY <1>3, <1>11, GreatestPlace
  <2> DEFINE q == <<Max(s), fold[s \ {Max(s)}]>>
  <2>2. q \in (1..n) \X V  BY <1>11, <2>1
  <2>3. step[q] = With(q[2], e[q[1]])  BY <2>2
  <2> HIDE DEF step
  <2>4. fold[s] = With(fold[s \ {Max(s)}], e[Max(s)])  BY <1>3, <1>10, <1>11
  <2> QED BY <2>3, <2>4
<1>12. Made(fold[1..n], n, V, << >>, step)
  <2> HIDE DEF n, step
  <2>1. Stepwise(fold, n, V, << >>, step)  BY <1>10, <1>11 DEF Stepwise
  <2> QED BY <1>3, <1>4, <1>5, <2>1, StepsUnfold
<1> DEFINE G == {v \in V : Once(v)}
<1>13. << >> \in G  BY <1>5 DEF Once
<1>14. ASSUME NEW k \in 1..n, NEW v \in V \cap G PROVE step[<<k, v>>] \in G
  <2>1. e[k] \in Incidents /\ v \in V /\ Once(v)  BY <1>3
  <2>2. With(v, e[k]) \in V /\ Once(With(v, e[k]))  BY <1>2, <2>1
  <2>3. step[<<k, v>>] = With(v, e[k])
    <3> DEFINE q == <<k, v>>
    <3>1. q \in (1..n) \X V  OBVIOUS
    <3>2. step[q] = With(q[2], e[q[1]])  BY <3>1
    <3> HIDE DEF step
    <3> QED BY <3>2
  <2> QED BY <2>2, <2>3
<1>15. fold[1..n] \in V /\ fold[1..n] \in G
  <2> DEFINE x == fold[1..n]
  <2>1. Made(x, n, V, << >>, step)  BY <1>12
  <2> HIDE DEF n, step, G, x
  <2>2. x \in V /\ x \in G  BY <1>3, <1>13, <1>14, <2>1, StepsKeep
  <2> QED BY <2>2 DEF x
<1> QED BY <1>1, <1>3, <1>15 DEF V

-----------------------------------------------------------------------------
\* The events of one kind.
Alike(events, kind) == Kept(LAMBDA e : e.kind = kind, events)

LEMMA AlikeAre ==
  ASSUME NEW e \in Seq(Incidents), NEW kind
  PROVE  Alike(e, kind) \in Seq(OfKind(kind))
<1> DEFINE S == OfKind(kind)
           n == Len(e)
           q == [k \in DOMAIN e |-> IF e[k].kind = kind THEN <<e[k]>> ELSE << >>]
<1>1. n \in Nat /\ DOMAIN e = 1..n /\ \A k \in 1..n : e[k] \in Incidents  BY PartsOf
<1>2. Alike(e, kind) = FlattenSeq(<< >> \o q)  BY DEF Alike, Kept, Each, Listed
<1>3. ASSUME NEW k \in 1..n PROVE q[k] \in Seq(S)
  <2>1. q[k] = IF e[k].kind = kind THEN <<e[k]>> ELSE << >>  BY <1>1
  <2>2. e[k].kind = kind => e[k] \in S  BY <1>1 DEF OfKind
  <2> HIDE DEF q, S
  <2> QED BY <2>1, <2>2
<1> HIDE DEF S, n
<1>4. q \in [1..n -> Seq(S)]
  <2>1. q = [k \in 1..n |-> q[k]]  BY <1>1
  <2> HIDE DEF q
  <2> QED BY <1>3, <2>1
<1> HIDE DEF q
<1>5. q \in Seq(Seq(S)) /\ Len(q) = n /\ << >> \o q = q  BY <1>1, <1>4, ListOf
<1>6. PICK c : Beginnings(c, q, S, n) /\ FlattenSeq(q) = c[n]  BY <1>5, FlattenIs
<1>7. n \in 0..n  BY <1>1
<1>8. c[n] \in Seq(S)  BY <1>6, <1>7 DEF Beginnings
<1> QED BY <1>2, <1>5, <1>6, <1>8 DEF S

\* Events of another kind do not disturb.
LEMMA SeparateJoins ==
  ASSUME NEW s \in Seq(Incidents), NEW kind, NEW t \in Seq(OfKind(kind)),
         Separate(s), Apart(t), \A i \in 1..Len(s) : s[i].kind # kind
  PROVE  Separate(s \o t)
<1> DEFINE d == s \o t
           m == Len(s)
           n == Len(t)
<1>1. m \in Nat /\ n \in Nat /\ \A i \in 1..m : s[i] \in Incidents  BY PartsOf
<1>2. ASSUME NEW j \in 1..n
      PROVE  t[j].kind = kind /\ t[j].start \in Int /\ t[j].end \in Int /\ t[j].start <= t[j].end
  <2>1. t[j] \in OfKind(kind)  BY PartsOf
  <2>2. t[j] \in Incidents /\ t[j].kind = kind  BY <2>1 DEF OfKind
  <2> QED BY <2>2, IncidentIs
<1>3. Len(d) = m + n /\ (\A i \in 1..m : d[i] = s[i]) /\ (\A i \in 1..n : d[m + i] = t[i])
  <2>1. t \in Seq(Incidents)
    <3>1. t \in [1..n -> OfKind(kind)]  BY PartsOf
    <3>2. t \in [1..n -> Incidents]  BY <3>1 DEF OfKind
    <3> QED BY <1>1, <3>2, ListOf
  <2> QED BY <2>1, Both
<1> HIDE DEF d, m, n
<1>4. ASSUME NEW i \in 1..m + n, NEW j \in 1..m + n, i # j,
             d[i].kind = d[j].kind, d[i].start <= d[j].start
      PROVE  d[j].start > d[i].end + MergeGap + 1
  <2>1. CASE i \in 1..m /\ j \in 1..m
    <3>1. d[i] = s[i] /\ d[j] = s[j]  BY <1>3, <2>1
    <3> QED BY <1>4, <2>1, <3>1 DEF Separate, m
  <2>2. CASE i \in 1..m /\ j \notin 1..m
    <3> DEFINE l == j - m
    <3>1. l \in 1..n /\ j = m + l  BY <1>1, <2>2
    <3> HIDE DEF l
    <3>2. d[j].kind = kind /\ d[i] = s[i]  BY <1>2, <1>3, <2>2, <3>1
    <3>3. s[i].kind # kind  BY <2>2 DEF m
    <3> QED BY <1>4, <3>2, <3>3
  <2>3. CASE i \notin 1..m /\ j \in 1..m
    <3> DEFINE k == i - m
    <3>1. k \in 1..n /\ i = m + k  BY <1>1, <2>3
    <3> HIDE DEF k
    <3>2. d[i].kind = kind /\ d[j] = s[j]  BY <1>2, <1>3, <2>3, <3>1
    <3>3. s[j].kind # kind  BY <2>3 DEF m
    <3> QED BY <1>4, <3>2, <3>3
  <2>4. CASE i \notin 1..m /\ j \notin 1..m
    <3> DEFINE k == i - m
               l == j - m
    <3>1. k \in 1..n /\ l \in 1..n /\ i = m + k /\ j = m + l  BY <1>1, <2>4
    <3> HIDE DEF k, l
    <3>2. d[i] = t[k] /\ d[j] = t[l] /\ k # l  BY <1>3, <1>4, <3>1
    <3>3. k < l => t[l].start > t[k].end + MergeGap + 1  BY <3>1 DEF Apart, n
    <3>4. l < k => t[k].start > t[l].end + MergeGap + 1  BY <3>1 DEF Apart, n
    <3>5. /\ t[k].start \in Int /\ t[k].end \in Int
          /\ t[l].start \in Int /\ t[l].end \in Int /\ t[l].start <= t[l].end
      BY <1>2, <3>1
    <3>6. t[k].start <= t[l].start  BY <1>4, <3>2
    <3>7. ~ (l < k)
      <4> DEFINE a == t[k].start
                 b == t[l].end
                 e == t[l].start
      <4>1. a \in Int /\ b \in Int /\ e \in Int /\ e <= b /\ a <= e /\ MergeGap = 2
        BY <3>5, <3>6 DEF MergeGap
      <4>2. l < k => a > b + MergeGap + 1  BY <3>4
      <4> HIDE DEF a, b, e
      <4> QED BY <4>1, <4>2
    <3>8. k < l
      <4>1. k \in Int /\ l \in Int  BY <3>1
      <4> QED BY <3>2, <3>7, <4>1
    <3> QED BY <3>2, <3>3, <3>8
  <2> QED BY <2>1, <2>2, <2>3, <2>4
<1>5. Separate(d)  BY <1>3, <1>4 DEF Separate
<1> QED BY <1>5 DEF d

\* With as long as it lasts, an event takes as many minutes.
Lasting(e) == [e EXCEPT !.minutes = Most(@, e.end - e.start + 1)]

LEMMA LastingIs ==
  ASSUME NEW e \in Incidents
  PROVE  /\ Lasting(e) \in Incidents /\ Lasting(e).kind = e.kind
         /\ Lasting(e).start = e.start /\ Lasting(e).end = e.end
<1> DEFINE b == Most(e.minutes, e.end - e.start + 1)
           z == [e EXCEPT !.minutes = b]
           R == [type : Types, kind : Kinds, severity : {"warning"}, start : Int, end : Int,
                 minutes : Int, magnitude : Int]
<1>1. b \in Int  BY IncidentIs DEF Most
<1>2. Lasting(e) = z  BY DEF Lasting
<1> HIDE DEF b
<1>3. e \in R /\ e.start <= e.end  BY DEF Incidents
<1>4. z \in R /\ z.start = e.start /\ z.kind = e.kind /\ z.end = e.end  BY <1>1, <1>3
<1> QED BY <1>2, <1>3, <1>4 DEF Incidents

\* merge_boundary_events() separates the events of every kind.
LEMMA MergedIs ==
  ASSUME NEW e \in Seq(Incidents)
  PROVE  MergeBoundaryEvents(e) \in Seq(Incidents) /\ Separate(MergeBoundaryEvents(e))
<1> DEFINE ks == KindsOf(e)
           J == [k \in DOMAIN ks |-> Joined(Alike(e, ks[k]))]
           F == FlattenSeq(<< >> \o J)
           M == [i \in DOMAIN F |-> Lasting(F[i])]
           n == Len(ks)
<1>1. MergeBoundaryEvents(e) = << >> \o M
  BY DEF MergeBoundaryEvents, Each, Listed, KindsOf, Alike, Lasting
<1>2. ks \in Seq(Kinds) /\ Once(ks)  BY KindsAre
<1> HIDE DEF ks
<1>3. n \in Nat /\ DOMAIN ks = 1..n  BY <1>2, PartsOf
<1>4. ASSUME NEW k \in 1..n
      PROVE  J[k] \in Seq(OfKind(ks[k])) /\ Apart(J[k]) /\ J[k] \in Seq(Incidents)
  <2> DEFINE kind == ks[k]
             s == J[k]
  <2>1. J[k] = Joined(Alike(e, kind))  BY <1>3
  <2> HIDE DEF kind
  <2>2. s \in Seq(OfKind(kind)) /\ Apart(s)  BY <2>1, AlikeAre, JoinedIs
  <2> HIDE DEF s
  <2>3. s \in [1..Len(s) -> OfKind(kind)] /\ Len(s) \in Nat  BY <2>2, PartsOf
  <2>4. s \in [1..Len(s) -> Incidents]  BY <2>3 DEF OfKind
  <2>5. s \in Seq(Incidents)  BY <2>3, <2>4, ListOf
  <2> QED BY <2>2, <2>5 DEF s, kind
<1>5. J \in [1..n -> Seq(Incidents)]
  <2>1. J = [k \in 1..n |-> J[k]]  BY <1>3
  <2> HIDE DEF J
  <2> QED BY <1>4, <2>1
<1> HIDE DEF J, n
<1>6. J \in Seq(Seq(Incidents)) /\ Len(J) = n /\ << >> \o J = J  BY <1>3, <1>5, ListOf
<1>7. PICK c : Beginnings(c, J, Incidents, n) /\ FlattenSeq(J) = c[n]  BY <1>6, FlattenIs
<1> DEFINE Good(k) == /\ Separate(c[k])
                      /\ \A i \in 1..Len(c[k]) : \E j \in 1..k : c[k][i].kind = ks[j]
           P == {k \in Nat : k <= n => Good(k)}
<1>8. 0 \in P
  <2>1. c[0] = << >>  BY <1>7 DEF Beginnings
  <2> DEFINE s == c[0]
  <2>2. Len(s) = 0  BY <2>1
  <2>3. Separate(s)  BY <2>2 DEF Separate
  <2> QED BY <2>2, <2>3
<1>9. \A k \in Nat : k \in P => k + 1 \in P
  <2> SUFFICES ASSUME NEW k \in Nat, k \in P PROVE k + 1 \in P  OBVIOUS
  <2> SUFFICES ASSUME k + 1 <= n PROVE Good(k + 1)  OBVIOUS
  <2>1. k + 1 \in 1..n /\ (k + 1) - 1 = k /\ k <= n /\ k \in 0..n  BY <1>3
  <2> DEFINE s == c[k]
             t == J[k + 1]
             kind == ks[k + 1]
             d == s \o t
  <2>2. c[k + 1] = d  BY <1>7, <2>1 DEF Beginnings
  <2>3. s \in Seq(Incidents)  BY <1>7, <2>1 DEF Beginnings
  <2>4. t \in Seq(OfKind(kind)) /\ Apart(t) /\ t \in Seq(Incidents)  BY <1>4, <2>1
  <2>5. Separate(s) /\ \A i \in 1..Len(s) : \E j \in 1..k : s[i].kind = ks[j]  BY <2>1
  <2>6. \A j \in 1..k : ks[j] # kind
    <3>1. \A j \in 1..k : j \in 1..n /\ j # k + 1  BY <1>3, <2>1
    <3> QED BY <1>2, <2>1, <3>1 DEF Once, n
  <2> HIDE DEF P, s, t, kind
  <2>7. \A i \in 1..Len(s) : s[i].kind # kind  BY <2>5, <2>6
  <2>8. Separate(d)  BY <2>3, <2>4, <2>5, <2>7, SeparateJoins
  <2>9. /\ Len(d) = Len(s) + Len(t) /\ \A i \in 1..Len(s) : d[i] = s[i]
        /\ \A i \in 1..Len(t) : d[Len(s) + i] = t[i]
    BY <2>3, <2>4, Both
  <2>10. Len(s) \in Nat /\ Len(t) \in Nat /\ \A i \in 1..Len(t) : t[i] \in OfKind(kind)
    BY <2>3, <2>4, PartsOf
  <2> HIDE DEF d
  <2>11. ASSUME NEW i \in 1..Len(d) PROVE \E j \in 1..(k + 1) : d[i].kind = ks[j]
    <3>1. CASE i \in 1..Len(s)
      <4>1. PICK j \in 1..k : s[i].kind = ks[j]  BY <2>5, <3>1
      <4>2. j \in 1..(k + 1) /\ d[i] = s[i]  BY <2>9, <3>1
      <4> QED BY <4>1, <4>2
    <3>2. CASE i \notin 1..Len(s)
      <4> DEFINE l == i - Len(s)
      <4>1. l \in 1..Len(t) /\ i = Len(s) + l  BY <2>9, <2>10, <3>2
      <4> HIDE DEF l
      <4>2. d[i] = t[l] /\ t[l] \in OfKind(kind)  BY <2>9, <2>10, <4>1
      <4>3. d[i].kind = ks[k + 1]  BY <4>2 DEF OfKind, kind
      <4>4. k + 1 \in 1..(k + 1)  OBVIOUS
      <4> QED BY <4>3, <4>4
    <3> QED BY <3>1, <3>2
  <2> QED BY <2>2, <2>8, <2>11
<1>10. n \in P
  <2> HIDE DEF P
  <2> QED BY <1>3, <1>8, <1>9, Induction
<1>11. F = c[n] /\ F \in Seq(Incidents) /\ Separate(F)
  <2>1. F = c[n]  BY <1>6, <1>7
  <2>2. n \in 0..n /\ n <= n  BY <1>3
  <2>3. c[n] \in Seq(Incidents)  BY <1>7, <2>2 DEF Beginnings
  <2>4. Separate(c[n])  BY <1>10, <2>2
  <2> QED BY <2>1, <2>3, <2>4
<1> HIDE DEF F
<1> DEFINE m == Len(F)
<1>12. m \in Nat /\ DOMAIN F = 1..m /\ \A i \in 1..m : F[i] \in Incidents  BY <1>11, PartsOf
<1>13. \A i \in 1..m : M[i] = Lasting(F[i])  BY <1>12
<1>14. M \in [1..m -> Incidents]
  <2>1. M = [i \in 1..m |-> M[i]]  BY <1>12
  <2>2. ASSUME NEW i \in 1..m PROVE M[i] \in Incidents  BY <1>12, <1>13, LastingIs
  <2> HIDE DEF M, m
  <2> QED BY <2>1, <2>2
<1> HIDE DEF M, m
<1>15. M \in Seq(Incidents) /\ Len(M) = m /\ << >> \o M = M  BY <1>12, <1>14, ListOf
<1>16. \A i \in 1..m : M[i].kind = F[i].kind /\ M[i].start = F[i].start /\ M[i].end = F[i].end
  BY <1>12, <1>13, LastingIs
<1>17. Separate(M)  BY <1>11, <1>15, <1>16 DEF Separate, m
<1> QED BY <1>1, <1>15, <1>17

\* top_events() picks some of the events, none of them twice.
LEMMA TopIs ==
  ASSUME NEW e \in Seq(Incidents), NEW limit \in Nat
  PROVE  /\ TopEvents(e, limit) \in Seq(Incidents)
         /\ Separate(e) => Separate(TopEvents(e, limit))
<1> DEFINE n == Len(e)
           l == Least(limit, n)
           above(x, y) == \/ Score(x) > Score(y)
                          \/ Score(x) = Score(y) /\ x.start > y.start
                          \/ Score(x) = Score(y) /\ x.start = y.start /\ x.end > y.end
           rank(k) == Cardinality({j \in DOMAIN e :
                        above(e[j], e[k]) \/ (~ above(e[k], e[j]) /\ j < k)})
           at(m) == CHOOSE k \in DOMAIN e : rank(k) = m - 1
           f == [m \in 1..l |-> e[at(m)]]
           a == [k \in 1..n |-> Score(e[k])]
           b == [k \in 1..n |-> e[k].start]
           c == [k \in 1..n |-> e[k].end]
<1>1. n \in Nat /\ DOMAIN e = 1..n /\ \A k \in 1..n : e[k] \in Incidents  BY PartsOf
<1>2. \A k \in 1..n : Score(e[k]) \in Int /\ e[k].start \in Int /\ e[k].end \in Int
  BY <1>1, IncidentIs
<1>3. TopEvents(e, limit) = << >> \o f
  BY DEF TopEvents, Ranked, Listed
<1>4. l \in Nat /\ l <= n  BY <1>1 DEF Least
<1>5. a \in [1..n -> Int] /\ b \in [1..n -> Int] /\ c \in [1..n -> Int]  BY <1>2
<1>6. ASSUME NEW k \in 1..n PROVE rank(k) = Place(n, a, b, c, k)
  <2>1. ASSUME NEW j \in 1..n
        PROVE  Before(a, b, c, j, k) <=>
                 (above(e[j], e[k]) \/ (~ above(e[k], e[j]) /\ j < k))
    <3>1. /\ a[j] = Score(e[j]) /\ b[j] = e[j].start /\ c[j] = e[j].end
          /\ a[k] = Score(e[k]) /\ b[k] = e[k].start /\ c[k] = e[k].end
      OBVIOUS
    <3>2. /\ a[j] \in Int /\ b[j] \in Int /\ c[j] \in Int
          /\ a[k] \in Int /\ b[k] \in Int /\ c[k] \in Int
      BY <1>2
    <3> HIDE DEF a, b, c
    <3>3. above(e[j], e[k]) <=> (\/ a[j] > a[k]
                                 \/ a[j] = a[k] /\ b[j] > b[k]
                                 \/ a[j] = a[k] /\ b[j] = b[k] /\ c[j] > c[k])
      BY <3>1
    <3>4. above(e[k], e[j]) <=> (\/ a[k] > a[j]
                                 \/ a[k] = a[j] /\ b[k] > b[j]
                                 \/ a[k] = a[j] /\ b[k] = b[j] /\ c[k] > c[j])
      BY <3>1
    <3> HIDE DEF above
    <3> QED BY <3>2, <3>3, <3>4 DEF Before
  <2> HIDE DEF a, b, c, n
  <2> DEFINE A == {j \in DOMAIN e : above(e[j], e[k]) \/ (~ above(e[k], e[j]) /\ j < k)}
             B == {j \in 1..n : Before(a, b, c, j, k)}
  <2>3. rank(k) = Cardinality(A) /\ Place(n, a, b, c, k) = Cardinality(B)  BY DEF Place
  <2> HIDE DEF above
  <2>2. A = B  BY <1>1, <2>1
  <2> HIDE DEF A, B
  <2> QED BY <2>2, <2>3
<1> HIDE DEF n
<1>7. \A m \in 1..n : \E k \in 1..n : Place(n, a, b, c, k) = m - 1
  <2> HIDE DEF a, b, c
  <2> QED BY <1>1, <1>5, PlacesTaken
<1> HIDE DEF a, b, c, rank, l
<1>8. ASSUME NEW m \in 1..l PROVE at(m) \in 1..n /\ rank(at(m)) = m - 1
  <2>0. m \in 1..n  BY <1>1, <1>4
  <2>1. \E k \in DOMAIN e : rank(k) = m - 1  BY <1>1, <1>6, <1>7, <2>0
  <2>2. at(m) \in DOMAIN e /\ rank(at(m)) = m - 1  BY <2>1
  <2> QED BY <1>1, <2>2
<1> HIDE DEF at
<1>9. f \in [1..l -> Incidents] /\ \A m \in 1..l : f[m] = e[at(m)]  BY <1>1, <1>8
<1> HIDE DEF f
<1>10. f \in Seq(Incidents) /\ Len(f) = l /\ << >> \o f = f  BY <1>4, <1>9, ListOf
<1>11. ASSUME Separate(e), NEW i \in 1..l, NEW j \in 1..l, i # j,
              f[i].kind = f[j].kind, f[i].start <= f[j].start
       PROVE  f[j].start > f[i].end + MergeGap + 1
  <2>1. at(i) # at(j)
    <3> SUFFICES ASSUME at(i) = at(j) PROVE FALSE  OBVIOUS
    <3>1. i - 1 = j - 1  BY <1>8
    <3>2. i \in Int /\ j \in Int  BY <1>4
    <3> QED BY <1>11, <3>1, <3>2
  <2>2. at(i) \in 1..n /\ at(j) \in 1..n  BY <1>8
  <2>3. f[i] = e[at(i)] /\ f[j] = e[at(j)]  BY <1>9
  <2> QED BY <1>11, <2>1, <2>2, <2>3 DEF Separate, n
<1>12. Separate(e) => Separate(f)  BY <1>10, <1>11 DEF Separate
<1> QED BY <1>3, <1>10, <1>12

-----------------------------------------------------------------------------
(* The events of an hour. *)

\* The greatest of numbers, and the least, are numbers.
LEMMA MostIsNumber ==
  ASSUME NEW p \in Seq(Int)
  PROVE  MostOf(p) \in Int
<1>1. Len(p) \in Nat /\ \A k \in 1..Len(p) : p[k] \in Int  BY PartsOf
<1>2. PICK t : Tops(t, p)  BY <1>1, MostUnfolds
<1>3. Len(p) \in 0..Len(p)  BY <1>1
<1>4. t \in [0..Len(p) -> Int] /\ MostOf(p) = t[Len(p)]  BY <1>2 DEF Tops
<1> QED BY <1>3, <1>4

LEMMA LeastIsNumber ==
  ASSUME NEW p \in Seq(Int), Len(p) # 0
  PROVE  LeastOf(p) \in Int
<1> DEFINE D == DOMAIN p
           base == Head(p)
           Body(i) == [s \in SUBSET D |->
                         IF s = {} THEN base ELSE Least(i[s \ {Max(s)}], p[Max(s)])]
           fold == CHOOSE i : i = Body(i)
           n == Len(p)
           step == [q \in (1..n) \X Int |-> Least(q[2], p[q[1]])]
<1>1. LeastOf(p) = fold[D]
  BY DEF LeastOf, FoldLeft, MapThenFoldSet
<1>2. n \in Nat /\ D = 1..n /\ \A k \in 1..n : p[k] \in Int  BY PartsOf
<1>3. base \in Int
  <2>1. 1 \in 1..n  BY <1>2
  <2> QED BY <1>2, <2>1
<1> HIDE DEF base
<1>4. step \in [(1..n) \X Int -> Int]
  <2>1. ASSUME NEW q \in (1..n) \X Int PROVE Least(q[2], p[q[1]]) \in Int
    <3>1. q[2] \in Int /\ p[q[1]] \in Int  BY <1>2
    <3> QED BY <3>1 DEF Least
  <2> QED BY <2>1
<1>5. PICK f : StepFunction(f, n, Int, base, step)
  <2> HIDE DEF n, step
  <2> QED BY <1>2, <1>3, <1>4, StepsExist
<1>6. ASSUME NEW s \in SUBSET D, s # {}
      PROVE  f[s] = Least(f[s \ {Max(s)}], p[Max(s)])
  <2>1. s \in SUBSET (1..n) /\ n \in Nat  BY <1>2
  <2>2. Max(s) \in 1..n
    <3> HIDE DEF n
    <3> QED BY <1>6, <2>1, GreatestPlace
  <2>3. f[s \ {Max(s)}] \in Int  BY <1>5, <2>1 DEF StepFunction
  <2> DEFINE q == <<Max(s), f[s \ {Max(s)}]>>
  <2>4. q \in (1..n) \X Int  BY <2>2, <2>3
  <2>5. step[q] = Least(q[2], p[q[1]])  BY <2>4
  <2> HIDE DEF step
  <2>6. f[s] = step[q]  BY <1>5, <1>6, <2>1 DEF StepFunction
  <2> QED BY <2>5, <2>6
<1>7. f = Body(f)
  <2>1. f = [s \in SUBSET D |-> f[s]]  BY <1>2, <1>5 DEF StepFunction
  <2>2. f[{}] = base  BY <1>5 DEF StepFunction
  <2> HIDE DEF D
  <2> QED BY <1>6, <2>1, <2>2
<1>8. fold = Body(fold)
  <2> HIDE DEF D
  <2> QED BY <1>7
<1>9. /\ fold[{}] = base
      /\ \A s \in SUBSET D : s # {} => fold[s] = Least(fold[s \ {Max(s)}], p[Max(s)])
  <2> HIDE DEF fold, D
  <2> QED BY <1>8
<1> HIDE DEF fold
<1>10. ASSUME NEW s \in SUBSET (1..n), s # {}, fold[s \ {Max(s)}] \in Int
       PROVE  fold[s] = step[<<Max(s), fold[s \ {Max(s)}]>>]
  <2>1. Max(s) \in 1..n
    <3> HIDE DEF n
    <3> QED BY <1>2, <1>10, GreatestPlace
  <2> DEFINE q == <<Max(s), fold[s \ {Max(s)}]>>
  <2>2. q \in (1..n) \X Int  BY <1>10, <2>1
  <2>3. step[q] = Least(q[2], p[q[1]])  BY <2>2
  <2> HIDE DEF step
  <2>4. fold[s] = Least(fold[s \ {Max(s)}], p[Max(s)])  BY <1>2, <1>9, <1>10
  <2> QED BY <2>3, <2>4
<1>11. Made(fold[1..n], n, Int, base, step)
  <2> HIDE DEF n, step
  <2>1. Stepwise(fold, n, Int, base, step)  BY <1>9, <1>10 DEF Stepwise
  <2> QED BY <1>2, <1>3, <1>4, <2>1, StepsUnfold
<1>12. fold[1..n] \in Int
  <2> HIDE DEF n, step
  <2>1. PICK t : Steps(t, n, Int, base, step) /\ fold[1..n] = t[n]  BY <1>11 DEF Made
  <2>2. t \in [0..n -> Int] /\ n \in 0..n  BY <1>2, <2>1 DEF Steps
  <2> QED BY <2>1, <2>2
<1> QED BY <1>1, <1>2, <1>12

\* Records in order.
Ordered(R) == \A j, k \in 1..Len(R) : j < k => R[j].time < R[k].time

\* threshold_windows() makes events, none of which ends before its start.
LEMMA WindowsAre ==
  ASSUME NEW S, \A r \in S : r.time \in Int, NEW R \in Seq(S), Ordered(R),
         NEW hits, NEW interval \in Int, NEW type \in Types, NEW kind \in Kinds,
         NEW magnitudes \in Seq(Int), Len(magnitudes) = Len(R)
  PROVE  ThresholdWindows(R, hits, interval, type, kind, magnitudes) \in Seq(Incidents)
<1> DEFINE n == Len(R)
           places == [k \in DOMAIN R |-> k]
           begins(k) == hits[k] /\ (k = 1 \/ ~hits[k - 1])
           q == [j \in DOMAIN places |-> IF begins(places[j]) THEN <<places[j]>> ELSE << >>]
           first == FlattenSeq(<< >> \o q)
           ends(k, e) == (\A m \in k..e : hits[m]) /\ (e = Len(R) \/ ~hits[e + 1])
           last(k) == CHOOSE e \in k..Len(R) : ends(k, e)
           window(k) == [type |-> type, kind |-> kind, severity |-> "warning",
                         start |-> R[k].time, end |-> R[last(k)].time,
                         minutes |-> (last(k) - k + 1) * interval,
                         magnitude |-> MostOf(SubSeq(magnitudes, k, last(k)))]
           w == [j \in DOMAIN first |-> window(first[j])]
           T == {k \in 1..n : hits[k]}
<1>1. ThresholdWindows(R, hits, interval, type, kind, magnitudes) = << >> \o w
  BY DEF ThresholdWindows, Kept, Each, Listed
<1>2. n \in Nat /\ DOMAIN R = 1..n /\ \A k \in 1..n : R[k] \in S  BY PartsOf
<1>3. first \in Seq(T)
  <2>1. DOMAIN places = 1..n /\ \A j \in 1..n : places[j] = j  BY <1>2
  <2> HIDE DEF places
  <2>2. ASSUME NEW j \in 1..n PROVE q[j] \in Seq(T)
    <3>1. q[j] = IF begins(j) THEN <<j>> ELSE << >>  BY <2>1
    <3>2. begins(j) => j \in T  OBVIOUS
    <3> HIDE DEF q, T, begins
    <3> QED BY <3>1, <3>2
  <2>3. q = [j \in 1..n |-> q[j]]  BY <2>1
  <2> HIDE DEF q, T, n
  <2>4. q \in [1..n -> Seq(T)]  BY <2>2, <2>3
  <2>5. q \in Seq(Seq(T)) /\ Len(q) = n /\ << >> \o q = q  BY <1>2, <2>4, ListOf
  <2>6. PICK c : Beginnings(c, q, T, n) /\ FlattenSeq(q) = c[n]  BY <2>5, FlattenIs
  <2>7. n \in 0..n  BY <1>2
  <2>8. c[n] \in Seq(T)  BY <2>6, <2>7 DEF Beginnings
  <2> QED BY <2>5, <2>6, <2>8
<1>4. ASSUME NEW k \in T PROVE window(k) \in Incidents
  <2>1. k \in 1..n /\ hits[k]  OBVIOUS
  <2> DEFINE E == {e \in k..n : \A m \in k..e : hits[m]}
  <2>2. IsFiniteSet(E) /\ E \subseteq Int /\ k \in E
    <3>1. k \in E  BY <1>2, <2>1
    <3>2. IsFiniteSet(k..n)  BY <1>2, <2>1, FS_Interval
    <3>3. E \subseteq k..n  OBVIOUS
    <3>4. IsFiniteSet(E)
      <4> DEFINE I == k..n
      <4>1. IsFiniteSet(I) /\ E \subseteq I  BY <3>2, <3>3
      <4> HIDE DEF I, E
      <4> QED BY <4>1, FS_Subset
    <3> QED BY <1>2, <2>1, <3>1, <3>4
  <2>3. Max(E) \in E /\ \A y \in E : y <= Max(E)
    <3> HIDE DEF E
    <3>1. E # {}  BY <2>2
    <3> QED BY <2>2, <3>1, LeastAndGreatest
  <2>4. \E e \in k..Len(R) : ends(k, e)
    <3> DEFINE e == Max(E)
    <3>1. e \in k..n /\ \A m \in k..e : hits[m]  BY <2>3
    <3>2. \A y \in E : y <= e  BY <2>3
    <3> HIDE DEF e
    <3>3. e = n \/ ~hits[e + 1]
      <4> SUFFICES ASSUME e # n, hits[e + 1] PROVE FALSE  OBVIOUS
      <4>1. e + 1 \in k..n  BY <1>2, <2>1, <3>1
      <4>2. \A m \in k..(e + 1) : m \in k..e \/ m = e + 1  BY <1>2, <2>1, <3>1
      <4>3. e + 1 \in E  BY <3>1, <4>1, <4>2
      <4>4. e + 1 <= e  BY <3>2, <4>3
      <4> QED BY <1>2, <2>1, <3>1, <4>4
    <3> QED BY <3>1, <3>3
  <2>5. last(k) \in k..n
    <3> HIDE DEF ends
    <3> QED BY <2>4
  <2> HIDE DEF last, E
  <2> DEFINE l == last(k)
             x == (l - k + 1) * interval
             y == MostOf(SubSeq(magnitudes, k, l))
             s == R[k].time
             e == R[l].time
  <2>6. l \in 1..n /\ k <= l /\ k \in Int /\ l \in Int  BY <1>2, <2>1, <2>5
  <2> HIDE DEF l
  <2>7. x \in Int
    <3> DEFINE i == l - k + 1
    <3>1. i \in Int  BY <2>6
    <3> HIDE DEF i
    <3> QED BY <3>1 DEF i
  <2>8. y \in Int
    <3>1. \A i \in k..l : magnitudes[i] \in Int
      <4>1. \A i \in 1..Len(magnitudes) : magnitudes[i] \in Int  BY PartsOf
      <4>2. \A i \in k..l : i \in 1..n  BY <1>2, <2>1, <2>6
      <4> QED BY <4>1, <4>2
    <3>2. SubSeq(magnitudes, k, l) \in Seq(Int)  BY <2>6, <3>1, SubSeqProperties
    <3> QED BY <3>2, MostIsNumber
  <2>9. s \in Int /\ e \in Int /\ s <= e
    <3>1. s \in Int /\ e \in Int  BY <1>2, <2>1, <2>6
    <3>2. k < l => s < e  BY <2>1, <2>6 DEF Ordered
    <3>3. k = l => s = e  OBVIOUS
    <3> HIDE DEF s, e
    <3> QED BY <2>6, <3>1, <3>2, <3>3
  <2>10. window(k) = [type |-> type, kind |-> kind, severity |-> "warning",
                      start |-> s, end |-> e, minutes |-> x, magnitude |-> y]
    BY DEF l
  <2> HIDE DEF x, y, s, e, window
  <2> QED BY <2>7, <2>8, <2>9, <2>10 DEF Incidents
<1> HIDE DEF window, first, T
<1>5. Len(first) \in Nat /\ DOMAIN first = 1..Len(first) /\ \A j \in 1..Len(first) : first[j] \in T
  BY <1>3, PartsOf
<1>6. w \in [1..Len(first) -> Incidents]  BY <1>4, <1>5
<1> HIDE DEF w
<1>7. w \in Seq(Incidents) /\ << >> \o w = w  BY <1>5, <1>6, ListOf
<1> QED BY <1>1, <1>7

\* Events and events are events.
LEMMA MoreEvents ==
  ASSUME NEW s \in Seq(Incidents), NEW t \in Seq(Incidents)
  PROVE  s \o t \in Seq(Incidents)
BY Both

\* Events of lists of events are events.
LEMMA EventsOfLists ==
  ASSUME NEW n \in Nat, NEW q, q = [k \in 1..n |-> q[k]], \A k \in 1..n : q[k] \in Seq(Incidents)
  PROVE  FlattenSeq(<< >> \o q) \in Seq(Incidents)
<1>1. q \in [1..n -> Seq(Incidents)]  OBVIOUS
<1>2. q \in Seq(Seq(Incidents)) /\ Len(q) = n /\ << >> \o q = q  BY <1>1, ListOf
<1>3. PICK c : Beginnings(c, q, Incidents, n) /\ FlattenSeq(q) = c[n]  BY <1>2, FlattenIs
<1>4. n \in 0..n  OBVIOUS
<1>5. c[n] \in Seq(Incidents)  BY <1>3, <1>4 DEF Beginnings
<1> QED BY <1>2, <1>3, <1>5

\* Numbers of records.
LEMMA NumbersOf ==
  ASSUME NEW n \in Nat, NEW f, f = [k \in 1..n |-> f[k]], \A k \in 1..n : f[k] \in Int
  PROVE  /\ << >> \o f \in Seq(Int) /\ Len(<< >> \o f) = n
         /\ \A k \in 1..n : (<< >> \o f)[k] = f[k]
<1>1. f \in [1..n -> Int]  OBVIOUS
<1>2. f \in Seq(Int) /\ Len(f) = n /\ << >> \o f = f  BY <1>1, ListOf
<1> QED BY <1>2

\* The windows HourEvents() puts together.
Hits(R, test) == ThresholdWindows(R, test.hits, Interval[test.d], test.type, test.kind,
                                  test.magnitudes)
RiskTest(R) ==
  [d |-> "risk_score", type |-> "risk_degradation", kind |-> "risk",
   hits |-> << >> \o [k \in DOMAIN R |-> ScoreOr100(R[k]) <= RiskWarningMax],
   magnitudes |-> << >> \o [k \in DOMAIN R |-> (100 - ScoreOr100(R[k])) \div 2]]
HeatTest(R) ==
  [d |-> "factory_state", type |-> "sensor_threshold_exceeded", kind |-> "temperature",
   hits |-> << >> \o [k \in DOMAIN R |-> IsHot(R[k])],
   magnitudes |-> << >> \o [k \in DOMAIN R |-> R[k].temperature - TemperatureWarning]]
SpikeTest(R, field) ==
  [d |-> "factory_state", type |-> "ai_score_spike", kind |-> field,
   hits |-> << >> \o [k \in DOMAIN R |-> R[k][field] >= AiSpike],
   magnitudes |-> << >> \o [k \in DOMAIN R |-> R[k][field]]]
NodeTest(R) ==
  [d |-> "infra_state", type |-> "node_not_ready", kind |-> "nodes",
   hits |-> << >> \o [k \in DOMAIN R |-> NotReady(R[k]) > 0],
   magnitudes |-> << >> \o [k \in DOMAIN R |-> 5 * NotReady(R[k])]]
PodTest(R) ==
  [d |-> "infra_state", type |-> "workload_unhealthy", kind |-> "pods",
   hits |-> << >> \o [k \in DOMAIN R |-> PodsDown(R[k]) > 0],
   magnitudes |-> << >> \o [k \in DOMAIN R |-> 5 * PodsDown(R[k])]]

\* A test of records in order makes events.
LEMMA TestMakesEvents ==
  ASSUME NEW S, \A r \in S : r.time \in Int, NEW R \in Seq(S), Ordered(R),
         NEW test, Interval[test.d] \in Int, test.type \in Types, test.kind \in Kinds,
         test.magnitudes \in Seq(Int), Len(test.magnitudes) = Len(R)
  PROVE  Hits(R, test) \in Seq(Incidents)
<1> DEFINE m == test.magnitudes
           i == Interval[test.d]
           t == test.type
           k == test.kind
           h == test.hits
<1>1. m \in Seq(Int) /\ Len(m) = Len(R) /\ i \in Int /\ t \in Types /\ k \in Kinds  OBVIOUS
<1> HIDE DEF m, i, t, k, h
<1>2. ThresholdWindows(R, h, i, t, k, m) \in Seq(Incidents)  BY <1>1, WindowsAre
<1> QED BY <1>2 DEF Hits, m, i, t, k, h

\* What HourEvents() ranks.
EventsOf(records, spikes, restarts) ==
  Hits(records["risk_score"], RiskTest(records["risk_score"]))
  \o Hits(records["factory_state"], HeatTest(records["factory_state"]))
  \o spikes
  \o Hits(records["infra_state"], NodeTest(records["infra_state"]))
  \o Hits(records["infra_state"], PodTest(records["infra_state"]))
  \o RestartEvent(records["infra_state"], restarts)

LEMMA HourEventsIs ==
  ASSUME NEW records, NEW state, NEW infra
  PROVE  HourEvents(records, state, infra)
           = TopEvents(EventsOf(records, state.spikes, infra.restarts), MaxHourlyEvents)
BY DEF HourEvents, EventsOf, Hits, RiskTest, HeatTest, NodeTest, PodTest, Each, Listed

\* spike_events(): one list for every score of the AI.
LEMMA SpikeEventsIs ==
  ASSUME NEW R
  PROVE  SpikeEvents(R)
           = FlattenSeq(<< >> \o [k \in DOMAIN AiScores |->
                           Hits(R, SpikeTest(R, AiScores[k]))])
BY DEF SpikeEvents, Hits, SpikeTest, Each, Listed

\* What an hour's events are made of.
LEMMA HourEventsOf ==
  ASSUME NEW F, NEW h, NEW R,
         R = [factory_state |-> HourRecords(F, "factory_state", h),
              risk_score |-> HourRecords(F, "risk_score", h),
              infra_state |-> HourRecords(F, "infra_state", h),
              state_snapshot |-> HourRecords(F, "state_snapshot", h)]
  PROVE  FactoryHour(F, h).events
           = TopEvents(EventsOf(R, SpikeEvents(R["factory_state"]),
                                RestartDelta(R["infra_state"])), MaxHourlyEvents)
<1>1. FactoryHour(F, h).events
        = HourEvents(R, FactoryStateSummary(R["factory_state"]), InfraSummary(R["infra_state"]))
  BY DEF FactoryHour
<1>2. /\ FactoryStateSummary(R["factory_state"]).spikes = SpikeEvents(R["factory_state"])
      /\ InfraSummary(R["infra_state"]).restarts = RestartDelta(R["infra_state"])
  BY DEF FactoryStateSummary, InfraSummary
<1> QED BY <1>1, <1>2, HourEventsIs

\* The numbers of an hour's records.
LEMMA NumbersOfRecords ==
  ASSUME NEW S, NEW R \in Seq(S), NEW f, f = [k \in DOMAIN R |-> f[k]],
         \A k \in 1..Len(R) : f[k] \in Int
  PROVE  << >> \o f \in Seq(Int) /\ Len(<< >> \o f) = Len(R)
<1> DEFINE n == Len(R)
<1>1. n \in Nat /\ DOMAIN R = 1..n  BY PartsOf
<1>2. f = [k \in 1..n |-> f[k]] /\ \A k \in 1..n : f[k] \in Int  BY <1>1
<1> HIDE DEF n
<1>3. << >> \o f \in Seq(Int) /\ Len(<< >> \o f) = n  BY <1>1, <1>2, NumbersOf
<1> QED BY <1>3 DEF n

\* Restarts are an event at the last record.
LEMMA RestartEventIs ==
  ASSUME NEW S, NEW R \in Seq(S), \A r \in S : r.time \in Int /\ r.restarts \in Int
  PROVE  RestartEvent(R, RestartDelta(R)) \in Seq(Incidents)
<1> DEFINE n == Len(R)
           d == RestartDelta(R)
           f == [k \in DOMAIN R |-> R[k].restarts]
           c == << >> \o f
           e == [type |-> "workload_unhealthy", kind |-> "restarts", severity |-> "warning",
                 start |-> Last(R).time, end |-> Last(R).time,
                 minutes |-> 0, magnitude |-> 5 * d]
<1>1. n \in Nat /\ \A k \in 1..n : R[k] \in S  BY PartsOf
<1>2. CASE d = 0
  <2>1. RestartEvent(R, d) = << >>  BY <1>2 DEF RestartEvent
  <2> QED BY <2>1
<1>3. CASE d # 0
  <2>1. ~ (n < 2) /\ d = MostOf(c) - LeastOf(c)
    BY <1>3 DEF RestartDelta, Each, Listed
  <2>2. c \in Seq(Int) /\ Len(c) = n
    <3>1. \A k \in 1..n : f[k] \in Int
      <4>1. DOMAIN R = 1..n  BY PartsOf
      <4> QED BY <1>1, <4>1
    <3>2. f = [k \in DOMAIN R |-> f[k]]  OBVIOUS
    <3> HIDE DEF f
    <3> QED BY <3>1, <3>2, NumbersOfRecords
  <2> HIDE DEF c, d
  <2>3. MostOf(c) \in Int /\ LeastOf(c) \in Int
    <3>1. Len(c) # 0  BY <1>1, <2>1, <2>2
    <3> QED BY <2>2, <3>1, MostIsNumber, LeastIsNumber
  <2>4. d \in Int  BY <2>1, <2>3
  <2>5. Last(R).time \in Int
    <3>1. n \in 1..n  BY <1>1, <2>1
    <3>2. R[n] \in S  BY <1>1, <3>1
    <3> QED BY <3>2 DEF Last
  <2> DEFINE t == Last(R).time
             m == 5 * d
  <2>6. t \in Int /\ m \in Int  BY <2>4, <2>5
  <2>7. e = [type |-> "workload_unhealthy", kind |-> "restarts", severity |-> "warning",
             start |-> t, end |-> t, minutes |-> 0, magnitude |-> m]
    OBVIOUS
  <2>8. RestartEvent(R, d) = <<e>>  BY <1>3 DEF RestartEvent
  <2> HIDE DEF e, t, m
  <2>9. e \in Incidents
    <3>1. "workload_unhealthy" \in Types /\ "restarts" \in Kinds  BY DEF Types, Kinds
    <3> QED BY <2>6, <2>7, <3>1 DEF Incidents
  <2>10. <<e>> \in Seq(Incidents)  BY <2>9
  <2> QED BY <2>8, <2>10 DEF d
<1> QED BY <1>2, <1>3 DEF d

\* An hour's records of one dataset.
LEMMA RecordsInOrder ==
  ASSUME NEW F, Stored(F), NEW d, NEW h
  PROVE  /\ HourRecords(F, d, h) \in Seq(InHour(F, d, h))
         /\ Ordered(HourRecords(F, d, h))
         /\ \A r \in InHour(F, d, h) : r.time \in Int /\ r \in Of(F, d)
<1>1. \A r \in F : r.time \in Int  BY ReportAssumption DEF Stored, ReportAssumption
<1>2. \A r \in InHour(F, d, h) : r.time \in Int /\ r \in Of(F, d)  BY <1>1 DEF InHour, Of
<1> QED BY <1>2, HourRecordsAre DEF Ordered

\* An hour's events are events.
LEMMA HourEventsAre ==
  ASSUME NEW F, Stored(F), WellFormed("factory", F), NEW h
  PROVE  FactoryHour(F, h).events \in Seq(Incidents)
<1> DEFINE S(d) == InHour(F, d, h)
           R(d) == HourRecords(F, d, h)
<1>1. ASSUME NEW d
      PROVE  /\ R(d) \in Seq(S(d)) /\ Ordered(R(d)) /\ DOMAIN R(d) = 1..Len(R(d))
             /\ \A r \in S(d) : r.time \in Int /\ r \in Of(F, d)
             /\ \A k \in 1..Len(R(d)) : R(d)[k] \in Of(F, d)
  <2>1. /\ R(d) \in Seq(S(d)) /\ Ordered(R(d))
        /\ \A r \in S(d) : r.time \in Int /\ r \in Of(F, d)
    BY RecordsInOrder
  <2> HIDE DEF R, S
  <2>2. DOMAIN R(d) = 1..Len(R(d)) /\ \A k \in 1..Len(R(d)) : R(d)[k] \in S(d)  BY <2>1, PartsOf
  <2> QED BY <2>1, <2>2
<1>2. Interval["risk_score"] \in Int /\ Interval["factory_state"] \in Int /\ Interval["infra_state"] \in Int
  BY DatasetNames, FactoryAssumption DEF FactoryAssumption
<1>3. ASSUME NEW d, NEW test, Interval[test.d] \in Int, test.type \in Types, test.kind \in Kinds,
             NEW f, test.magnitudes = << >> \o f, f = [k \in DOMAIN R(d) |-> f[k]],
             \A k \in 1..Len(R(d)) : f[k] \in Int
      PROVE  Hits(R(d), test) \in Seq(Incidents)
  <2>1. R(d) \in Seq(S(d)) /\ Ordered(R(d)) /\ \A r \in S(d) : r.time \in Int  BY <1>1
  <2> HIDE DEF R, S
  <2>2. test.magnitudes \in Seq(Int) /\ Len(test.magnitudes) = Len(R(d))
    BY <1>3, <2>1, NumbersOfRecords
  <2> QED BY <1>3, <2>1, <2>2, TestMakesEvents
<1>4. /\ \A r \in Of(F, "risk_score") : r.score \in Nat
      /\ \A r \in Of(F, "factory_state") :
           r.temperature \in Int /\ \A field \in ToSet(AiScores) : r[field] \in Int
      /\ \A r \in Of(F, "infra_state") :
           {r.nodesTotal, r.nodesReady, r.podsTotal, r.podsReady, r.restarts} \subseteq Int
  BY DEF WellFormed
<1> HIDE DEF R, S
<1>5. Hits(R("risk_score"), RiskTest(R("risk_score"))) \in Seq(Incidents)
  <2> DEFINE X == R("risk_score")
             test == RiskTest(X)
             f == [k \in DOMAIN X |-> (100 - ScoreOr100(X[k])) \div 2]
  <2>1. /\ test.d = "risk_score" /\ test.type \in Types /\ test.kind \in Kinds
        /\ test.magnitudes = << >> \o f
    BY DEF RiskTest, Types, Kinds
  <2>2. ASSUME NEW k \in 1..Len(X) PROVE f[k] \in Int
    <3>1. X[k].score \in Int  BY <1>1, <1>4
    <3>2. ScoreOr100(X[k]) \in Int  BY <3>1 DEF ScoreOr100
    <3>3. f[k] = (100 - ScoreOr100(X[k])) \div 2  BY <1>1
    <3> QED BY <3>2, <3>3
  <2>3. f = [k \in DOMAIN X |-> f[k]]  OBVIOUS
  <2> HIDE DEF f, test
  <2> QED BY <1>2, <1>3, <2>1, <2>2, <2>3 DEF test
<1>6. Hits(R("factory_state"), HeatTest(R("factory_state"))) \in Seq(Incidents)
  <2> DEFINE X == R("factory_state")
             test == HeatTest(X)
             f == [k \in DOMAIN X |-> X[k].temperature - TemperatureWarning]
  <2>1. /\ test.d = "factory_state" /\ test.type \in Types /\ test.kind \in Kinds
        /\ test.magnitudes = << >> \o f
    BY DEF HeatTest, Types, Kinds
  <2>2. ASSUME NEW k \in 1..Len(X) PROVE f[k] \in Int
    <3>1. X[k].temperature \in Int  BY <1>1, <1>4
    <3>2. f[k] = X[k].temperature - TemperatureWarning  BY <1>1
    <3> QED BY <3>1, <3>2 DEF TemperatureWarning
  <2>3. f = [k \in DOMAIN X |-> f[k]]  OBVIOUS
  <2> HIDE DEF f, test
  <2> QED BY <1>2, <1>3, <2>1, <2>2, <2>3 DEF test
<1>7. ASSUME NEW field \in ToSet(AiScores)
      PROVE  Hits(R("factory_state"), SpikeTest(R("factory_state"), field)) \in Seq(Incidents)
  <2> DEFINE X == R("factory_state")
             test == SpikeTest(X, field)
             f == [k \in DOMAIN X |-> X[k][field]]
  <2>1. /\ test.d = "factory_state" /\ test.type \in Types /\ test.kind \in Kinds
        /\ test.magnitudes = << >> \o f
    BY DEF SpikeTest, Types, Kinds
  <2>2. ASSUME NEW k \in 1..Len(X) PROVE f[k] \in Int
    <3>1. X[k][field] \in Int  BY <1>1, <1>4
    <3>2. f[k] = X[k][field]  BY <1>1
    <3> QED BY <3>1, <3>2
  <2>3. f = [k \in DOMAIN X |-> f[k]]  OBVIOUS
  <2> HIDE DEF f, test
  <2> QED BY <1>2, <1>3, <2>1, <2>2, <2>3 DEF test
<1>8. Hits(R("infra_state"), NodeTest(R("infra_state"))) \in Seq(Incidents)
  <2> DEFINE X == R("infra_state")
             test == NodeTest(X)
             f == [k \in DOMAIN X |-> 5 * NotReady(X[k])]
  <2>1. /\ test.d = "infra_state" /\ test.type \in Types /\ test.kind \in Kinds
        /\ test.magnitudes = << >> \o f
    BY DEF NodeTest, Types, Kinds
  <2>2. ASSUME NEW k \in 1..Len(X) PROVE f[k] \in Int
    <3>1. X[k].nodesTotal \in Int /\ X[k].nodesReady \in Int  BY <1>1, <1>4
    <3>2. NotReady(X[k]) \in Int  BY <3>1 DEF NotReady, Most
    <3>3. f[k] = 5 * NotReady(X[k])  BY <1>1
    <3> QED BY <3>2, <3>3
  <2>3. f = [k \in DOMAIN X |-> f[k]]  OBVIOUS
  <2> HIDE DEF f, test
  <2> QED BY <1>2, <1>3, <2>1, <2>2, <2>3 DEF test
<1>9. Hits(R("infra_state"), PodTest(R("infra_state"))) \in Seq(Incidents)
  <2> DEFINE X == R("infra_state")
             test == PodTest(X)
             f == [k \in DOMAIN X |-> 5 * PodsDown(X[k])]
  <2>1. /\ test.d = "infra_state" /\ test.type \in Types /\ test.kind \in Kinds
        /\ test.magnitudes = << >> \o f
    BY DEF PodTest, Types, Kinds
  <2>2. ASSUME NEW k \in 1..Len(X) PROVE f[k] \in Int
    <3>1. X[k].podsTotal \in Int /\ X[k].podsReady \in Int  BY <1>1, <1>4
    <3>2. PodsDown(X[k]) \in Int  BY <3>1 DEF PodsDown, Most
    <3>3. f[k] = 5 * PodsDown(X[k])  BY <1>1
    <3> QED BY <3>2, <3>3
  <2>3. f = [k \in DOMAIN X |-> f[k]]  OBVIOUS
  <2> HIDE DEF f, test
  <2> QED BY <1>2, <1>3, <2>1, <2>2, <2>3 DEF test
<1>10. RestartEvent(R("infra_state"), RestartDelta(R("infra_state"))) \in Seq(Incidents)
  <2> DEFINE X == R("infra_state")
             Z == S("infra_state")
  <2>1. X \in Seq(Z) /\ \A r \in Z : r.time \in Int /\ r.restarts \in Int  BY <1>1, <1>4
  <2> HIDE DEF X, Z
  <2>2. RestartEvent(X, RestartDelta(X)) \in Seq(Incidents)  BY <2>1, RestartEventIs
  <2> QED BY <2>2 DEF X
<1>11. SpikeEvents(R("factory_state")) \in Seq(Incidents)
  <2> DEFINE X == R("factory_state")
             q == [k \in DOMAIN AiScores |-> Hits(X, SpikeTest(X, AiScores[k]))]
  <2>1. SpikeEvents(X) = FlattenSeq(<< >> \o q)  BY SpikeEventsIs
  <2>2. DOMAIN AiScores = 1..3  BY DEF AiScores
  <2>3. ASSUME NEW k \in 1..3 PROVE q[k] \in Seq(Incidents)
    <3>1. AiScores[k] \in ToSet(AiScores)  BY <2>2 DEF ToSet
    <3>2. q[k] = Hits(X, SpikeTest(X, AiScores[k]))  BY <2>2
    <3> QED BY <1>7, <3>1, <3>2
  <2>4. q = [k \in 1..3 |-> q[k]] /\ 3 \in Nat  BY <2>2
  <2> HIDE DEF q
  <2>5. FlattenSeq(<< >> \o q) \in Seq(Incidents)  BY <2>3, <2>4, EventsOfLists
  <2> QED BY <2>1, <2>5
<1> DEFINE records == [factory_state |-> HourRecords(F, "factory_state", h),
              risk_score |-> HourRecords(F, "risk_score", h),
              infra_state |-> HourRecords(F, "infra_state", h),
              state_snapshot |-> HourRecords(F, "state_snapshot", h)]
           e == EventsOf(records, SpikeEvents(records["factory_state"]),
                         RestartDelta(records["infra_state"]))
<1>12. FactoryHour(F, h).events = TopEvents(e, MaxHourlyEvents)  BY HourEventsOf
<1>13. /\ records["factory_state"] = R("factory_state") /\ records["risk_score"] = R("risk_score")
       /\ records["infra_state"] = R("infra_state")
  BY DEF R
<1> HIDE DEF records
<1>14. e \in Seq(Incidents)
  <2> DEFINE a == Hits(R("risk_score"), RiskTest(R("risk_score")))
             b == Hits(R("factory_state"), HeatTest(R("factory_state")))
             c == SpikeEvents(R("factory_state"))
             d == Hits(R("infra_state"), NodeTest(R("infra_state")))
             f == Hits(R("infra_state"), PodTest(R("infra_state")))
             g == RestartEvent(R("infra_state"), RestartDelta(R("infra_state")))
  <2>1. e = a \o b \o c \o d \o f \o g  BY <1>13 DEF EventsOf
  <2>2. /\ a \in Seq(Incidents) /\ b \in Seq(Incidents) /\ c \in Seq(Incidents)
        /\ d \in Seq(Incidents) /\ f \in Seq(Incidents) /\ g \in Seq(Incidents)
    BY <1>5, <1>6, <1>8, <1>9, <1>10, <1>11
  <2> HIDE DEF a, b, c, d, f, g, e
  <2>3. a \o b \in Seq(Incidents)  BY <2>2, MoreEvents
  <2>4. a \o b \o c \in Seq(Incidents)  BY <2>2, <2>3, MoreEvents
  <2>5. a \o b \o c \o d \in Seq(Incidents)  BY <2>2, <2>4, MoreEvents
  <2>6. a \o b \o c \o d \o f \in Seq(Incidents)  BY <2>2, <2>5, MoreEvents
  <2>7. a \o b \o c \o d \o f \o g \in Seq(Incidents)  BY <2>2, <2>6, MoreEvents
  <2> QED BY <2>1, <2>7
<1> HIDE DEF e
<1>15. MaxHourlyEvents \in Nat  BY FactoryAssumption DEF FactoryAssumption
<1> QED BY <1>12, <1>14, <1>15, TopIs

\* The events of a day, of whatever each hour has read.
LEMMA DayEventsAre ==
  ASSUME NEW F, \A h \in HourSet : Stored(F[h]) /\ WellFormed("factory", F[h])
  PROVE  /\ MergeDaily("factory", DayOf("factory", F)).events \in Seq(Incidents)
         /\ Separate(MergeDaily("factory", DayOf("factory", F)).events)
<1> DEFINE hours == DayOf("factory", F)
           q == [k \in DOMAIN hours |-> hours[k].events]
           e == FlattenSeq(<< >> \o q)
           m == MergeBoundaryEvents(e)
<1>1. MergeDaily("factory", hours).events = TopEvents(m, MaxEvents)
  <2> HIDE DEF hours
  <2> QED BY DEF MergeDaily, MergeFactoryDaily, Each, Listed
<1>2. Hours \in Nat /\ MaxEvents \in Nat  BY ReportAssumption DEF ReportAssumption
<1>3. DOMAIN hours = 1..Hours  BY DEF DayOf
<1>4. ASSUME NEW k \in 1..Hours PROVE q[k] \in Seq(Incidents)
  <2>1. k - 1 \in HourSet  BY <1>2 DEF HourSet
  <2>2. hours[k] = FactoryHour(F[k - 1], k - 1)  BY DEF DayOf, Hour
  <2>3. FactoryHour(F[k - 1], k - 1).events \in Seq(Incidents)  BY <2>1, HourEventsAre
  <2>4. q[k] = hours[k].events  BY <1>3
  <2> QED BY <2>2, <2>3, <2>4
<1>5. q = [k \in 1..Hours |-> q[k]]  BY <1>3
<1> HIDE DEF q
<1>6. e \in Seq(Incidents)  BY <1>2, <1>4, <1>5, EventsOfLists
<1> HIDE DEF e
<1>7. m \in Seq(Incidents) /\ Separate(m)  BY <1>6, MergedIs
<1> HIDE DEF m
<1>8. TopEvents(m, MaxEvents) \in Seq(Incidents) /\ Separate(TopEvents(m, MaxEvents))
  BY <1>2, <1>7, TopIs
<1> QED BY <1>1, <1>8

\* One incident is one event of the day although it goes on over an hour's end.
THEOREM IncidentsAreUnited == Spec => []IncidentsUnited
<1>1. IInv => IncidentsUnited
  <2> SUFFICES ASSUME IInv, Fresh("factory"),
                      NEW j \in DOMAIN context["factory"].events,
                      NEW k \in DOMAIN context["factory"].events,
                      j # k, context["factory"].events[j].kind = context["factory"].events[k].kind,
                      context["factory"].events[j].start <= context["factory"].events[k].start
               PROVE  context["factory"].events[k].start
                        > context["factory"].events[j].end + MergeGap + 1
    BY DEF IncidentsUnited
  <2>1. "factory" \in Targets  BY DEF Targets
  <2>2. PICK F : /\ context["factory"] = MergeDaily("factory", DayOf("factory", F))
                 /\ \A h \in HourSet : Stored(F[h]) /\ WellFormed("factory", F[h])
    BY <2>1, FreshContext
  <2> DEFINE events == context["factory"].events
  <2>3. events \in Seq(Incidents) /\ Separate(events)  BY <2>2, DayEventsAre
  <2>4. j \in DOMAIN events /\ k \in DOMAIN events /\ events[j].kind = events[k].kind
        /\ events[j].start <= events[k].start
    OBVIOUS
  <2> HIDE DEF events
  <2>5. DOMAIN events = 1..Len(events)  BY <2>3, PartsOf
  <2>6. events[k].start > events[j].end + MergeGap + 1  BY <2>3, <2>4, <2>5 DEF Separate
  <2> QED BY <2>6 DEF events
<1> QED BY <1>1, ReportInvariant, PTL

=============================================================================
