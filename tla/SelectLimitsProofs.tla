--------------------------- MODULE SelectLimitsProofs ---------------------------
(***************************************************************************)
(* SelectLimits is correct for every list of Limits.  The library's        *)
(* induction theorems take an operator as a parameter; here an induction   *)
(* takes the set of the counterexamples instead, which has a minimal (or a *)
(* greatest) member: Minimal and Greatest.  By it a sum over a finite set  *)
(* is what one expects (SumEmpty, SumType, SumRemove), the recursion of    *)
(* selectLimits has a solution (SelectDef), and that solution is a best    *)
(* combination from every index on (SelectLimitsIsBest).                   *)
(***************************************************************************)
EXTENDS SelectLimits, FiniteSetTheorems, TLAPS

-----------------------------------------------------------------------------
(* Sums over finite sets.  SumFunctionOnSet takes the members of a set in the order *)
(* of CHOOSE: the sums of the subsets of S are the function that solves IsSum.      *)

Pick(s) == CHOOSE x \in s : TRUE

IsSum(f, S, g) ==
    g = [s \in SUBSET S |-> IF s = {} THEN 0 ELSE f[Pick(s)] + g[s \ {Pick(s)}]]

Sums(f, S) == CHOOSE g : IsSum(f, S, g)

\* The definition of SumFunctionOnSet, unfolded.
LEMMA SumIsSolution ==
    ASSUME NEW f, NEW S
    PROVE  SumFunctionOnSet(f, S) = Sums(f, S)[S]
BY DEF SumFunctionOnSet, FoldFunctionOnSet, MapThenFoldSet, Sums, IsSum, Pick

\* What is picked from a nonempty set is a member of it.
LEMMA PickIn == ASSUME NEW s, s # {} PROVE Pick(s) \in s
BY DEF Pick

\* A nonempty set of subsets of a finite set has a member that is minimal for
\* inclusion: induction on finite sets, by the set of the counterexamples.
LEMMA Minimal ==
    ASSUME NEW S, IsFiniteSet(S), NEW B \in SUBSET (SUBSET S), B # {}
    PROVE  \E T \in B : \A U \in SUBSET T : U # T => U \notin B
<1>1. IsWellFoundedOn(StrictSubsetOrdering(S), SUBSET S)
    BY FS_StrictSubsetOrderingWellFounded, FS_FiniteSubsetsOfFinite
<1>2. PICK T \in B : \A U \in B : ~(<<U, T>> \in StrictSubsetOrdering(S))
    BY <1>1, WFMin
<1>. QED
    BY <1>2 DEF StrictSubsetOrdering

\* Two solutions of IsSum agree on the finite sets on which they are defined.
LEMMA SumUnique ==
    ASSUME NEW f, NEW T, NEW U, NEW g, NEW h, IsSum(f, T, g), IsSum(f, U, h),
           NEW S, IsFiniteSet(S), S \subseteq T, S \subseteq U
    PROVE  g[S] = h[S]
<1> DEFINE B == {s \in SUBSET S : g[s] # h[s]}
<1>1. SUFFICES ASSUME B # {} PROVE FALSE
    OBVIOUS
<1>b. B \in SUBSET (SUBSET S)
    OBVIOUS
<1>2. PICK s \in B : \A u \in SUBSET s : u # s => u \notin B
  <2>. HIDE DEF B
  <2>. QED
    BY <1>1, <1>b, Minimal
<1>3. /\ g[s] = IF s = {} THEN 0 ELSE f[Pick(s)] + g[s \ {Pick(s)}]
      /\ h[s] = IF s = {} THEN 0 ELSE f[Pick(s)] + h[s \ {Pick(s)}]
    BY DEF IsSum
<1>4. s # {} => g[s \ {Pick(s)}] = h[s \ {Pick(s)}]
    BY <1>2, PickIn
<1>. QED
    BY <1>3, <1>4

\* IsSum has a solution on the subsets of every finite set.
LEMMA SumExists ==
    ASSUME NEW f, NEW S, IsFiniteSet(S)
    PROVE  IsSum(f, S, Sums(f, S))
<1> DEFINE B == {T \in SUBSET S : ~IsSum(f, T, Sums(f, T))}
<1>1. SUFFICES ASSUME B # {} PROVE FALSE
    OBVIOUS
<1>b. B \in SUBSET (SUBSET S)
    OBVIOUS
<1>2. PICK T \in B : \A u \in SUBSET T : u # T => u \notin B
  <2>. HIDE DEF B
  <2>. QED
    BY <1>1, <1>b, Minimal
<1> DEFINE Rest(s) == s \ {Pick(s)}
           G == [s \in SUBSET T |-> IF s = {} THEN 0 ELSE f[Pick(s)] + Sums(f, Rest(s))[Rest(s)]]
<1>3. ASSUME NEW u \in SUBSET T, u # T PROVE G[u] = Sums(f, u)[u]
  <2>1. IsSum(f, u, Sums(f, u))
    BY <1>2, <1>3
  <2>2. Sums(f, u)[u] = IF u = {} THEN 0 ELSE f[Pick(u)] + Sums(f, u)[Rest(u)]
    BY <2>1 DEF IsSum
  <2>3. ASSUME u # {} PROVE Sums(f, u)[Rest(u)] = Sums(f, Rest(u))[Rest(u)]
    <3>1. IsSum(f, Rest(u), Sums(f, Rest(u)))
      BY <1>2, <1>3, <2>3, PickIn
    <3>2. IsFiniteSet(Rest(u))
      BY FS_Subset
    <3>. QED
      BY <2>1, <3>1, <3>2, SumUnique
  <2>. QED
    BY <2>2, <2>3
<1>4. \A s \in SUBSET T : s # {} => G[Rest(s)] = Sums(f, Rest(s))[Rest(s)]
    BY <1>3, PickIn
<1>5. IsSum(f, T, G)
    BY <1>4 DEF IsSum
<1>6. IsSum(f, T, Sums(f, T))
    BY <1>5 DEF Sums
<1>. QED
    BY <1>6

\* A sum is that of the member picked first and of the rest.
LEMMA SumDef ==
    ASSUME NEW f, NEW S, IsFiniteSet(S), S # {}
    PROVE  SumFunctionOnSet(f, S) = f[Pick(S)] + SumFunctionOnSet(f, S \ {Pick(S)})
<1>1. IsFiniteSet(S \ {Pick(S)})
    BY FS_Subset
<1>2. IsSum(f, S, Sums(f, S)) /\ IsSum(f, S \ {Pick(S)}, Sums(f, S \ {Pick(S)}))
    BY <1>1, SumExists
<1>3. Sums(f, S)[S] = f[Pick(S)] + Sums(f, S)[S \ {Pick(S)}]
    BY <1>2 DEF IsSum
<1>4. Sums(f, S)[S \ {Pick(S)}] = Sums(f, S \ {Pick(S)})[S \ {Pick(S)}]
    BY <1>1, <1>2, SumUnique
<1>. QED
    BY <1>3, <1>4, SumIsSolution

\* The sum of nothing is 0.
LEMMA SumEmpty == ASSUME NEW f PROVE SumFunctionOnSet(f, {}) = 0
<1>1. IsSum(f, {}, Sums(f, {}))
    BY SumExists, FS_EmptySet
<1>. QED
    BY <1>1, SumIsSolution DEF IsSum

\* A sum of natural numbers is a natural number.
LEMMA SumType ==
    ASSUME NEW f, NEW S, IsFiniteSet(S), \A x \in S : f[x] \in Nat
    PROVE  SumFunctionOnSet(f, S) \in Nat
<1> DEFINE B == {T \in SUBSET S : SumFunctionOnSet(f, T) \notin Nat}
<1>1. SUFFICES ASSUME B # {} PROVE FALSE
    OBVIOUS
<1>b. B \in SUBSET (SUBSET S)
    OBVIOUS
<1>2. PICK T \in B : \A u \in SUBSET T : u # T => u \notin B
  <2>. HIDE DEF B
  <2>. QED
    BY <1>1, <1>b, Minimal
<1>3. T # {} /\ IsFiniteSet(T)
  <2>1. SumFunctionOnSet(f, T) \notin Nat /\ 0 \in Nat
    BY <1>2
  <2>2. T # {}
    BY <2>1, SumEmpty
  <2>. QED
    BY <1>2, <2>2, FS_Subset
<1>4. SumFunctionOnSet(f, T \ {Pick(T)}) \in Nat
    BY <1>2, <1>3, PickIn
<1>5. f[Pick(T)] \in Nat
    BY <1>3, PickIn
<1>. QED
    BY <1>3, <1>4, <1>5, SumDef

\* Any member may be taken out of a sum first: the order does not matter.
LEMMA SumRemove ==
    ASSUME NEW f, NEW S, IsFiniteSet(S), \A x \in S : f[x] \in Nat, NEW z \in S
    PROVE  SumFunctionOnSet(f, S) = f[z] + SumFunctionOnSet(f, S \ {z})
<1> DEFINE Sum(T) == SumFunctionOnSet(f, T)
           B == {T \in SUBSET S : \E x \in T : Sum(T) # f[x] + Sum(T \ {x})}
<1>1. SUFFICES ASSUME B # {} PROVE FALSE
    OBVIOUS
<1>b. B \in SUBSET (SUBSET S)
    OBVIOUS
<1>2. PICK T \in B : \A u \in SUBSET T : u # T => u \notin B
  <2>. HIDE DEF B
  <2>. QED
    BY <1>1, <1>b, Minimal
<1>3. PICK x \in T : Sum(T) # f[x] + Sum(T \ {x})
    BY <1>2
<1> DEFINE y == Pick(T)
<1>4. \A U \in SUBSET T : IsFiniteSet(U)
    BY <1>2, FS_Subset
<1>5. \A U \in SUBSET T : Sum(U) \in Nat
    BY <1>2, <1>4, SumType
<1>6. y \in T /\ f[y] \in Nat /\ f[x] \in Nat
    BY <1>2, <1>3, PickIn
<1>7. Sum(T) = f[y] + Sum(T \ {y})
    BY <1>3, <1>4, SumDef
<1>8. y # x
    BY <1>3, <1>7
<1>9. Sum(T \ {y}) = f[x] + Sum((T \ {y}) \ {x})
  <2>1. T \ {y} \in SUBSET T /\ T \ {y} # T /\ x \in T \ {y} /\ T \ {y} \in SUBSET S
    BY <1>2, <1>3, <1>6, <1>8
  <2>. QED
    BY <1>2, <2>1
<1>10. Sum(T \ {x}) = f[y] + Sum((T \ {x}) \ {y})
  <2>1. T \ {x} \in SUBSET T /\ T \ {x} # T /\ y \in T \ {x} /\ T \ {x} \in SUBSET S
    BY <1>2, <1>3, <1>6, <1>8
  <2>. QED
    BY <1>2, <2>1
<1>11. (T \ {y}) \ {x} = (T \ {x}) \ {y} /\ (T \ {y}) \ {x} \in SUBSET T
    OBVIOUS
<1>12. Sum((T \ {y}) \ {x}) \in Nat
    BY <1>5, <1>11
<1>13. Sum((T \ {y}) \ {x}) = Sum((T \ {x}) \ {y})
    BY <1>11
<1>. HIDE DEF Sum
<1>. QED
    BY <1>3, <1>6, <1>7, <1>9, <1>10, <1>12, <1>13

-----------------------------------------------------------------------------
(* Numbers and intervals. *)

\* An amount of Width bits has at least one value.
LEMMA PowerIsPositive == 2^Width \in Nat \ {0}
<1>1. IsFiniteSet(1 .. Width) /\ Cardinality(1 .. Width) = Width
    BY FS_Interval, WidthAssumption
<1>2. IsFiniteSet(SUBSET (1 .. Width)) /\ Cardinality(SUBSET (1 .. Width)) = 2^Width
    BY <1>1, FS_SUBSET
<1>3. {} \in SUBSET (1 .. Width)
    OBVIOUS
<1>. QED
    BY <1>2, <1>3, FS_CardinalityType, FS_EmptySet

\* The difference of amounts does not wrap around when it is an amount.
LEMMA NoWrap ==
    ASSUME NEW m \in Nat \ {0}, NEW x \in 0 .. m - 1
    PROVE  x % m = x
OBVIOUS

\* A nonempty set of indices has a greatest one: induction on the index.
LEMMA Greatest ==
    ASSUME NEW n \in Nat, NEW B \in SUBSET (0 .. n), B # {}
    PROVE  \E i \in B : \A j \in B : j <= i
<1> DEFINE C == {i .. n : i \in B}
<1>1. C \in SUBSET (SUBSET (0 .. n)) /\ C # {}
  <2>1. \A i \in B : i .. n \in SUBSET (0 .. n)
    OBVIOUS
  <2>2. C \in SUBSET (SUBSET (0 .. n))
    BY <2>1
  <2>3. C # {}
    OBVIOUS
  <2>. QED
    BY <2>2, <2>3
<1>2. IsFiniteSet(0 .. n)
    BY FS_Interval
<1>3. PICK T \in C : \A U \in SUBSET T : U # T => U \notin C
  <2>. HIDE DEF C
  <2>. QED
    BY <1>1, <1>2, Minimal
<1>4. PICK i \in B : T = i .. n
    OBVIOUS
<1>5. ASSUME NEW j \in B, ~(j <= i) PROVE FALSE
  <2>1. j .. n \in SUBSET T /\ j .. n # T /\ j .. n \in C
    BY <1>4, <1>5
  <2>. QED
    BY <1>3, <2>1
<1>. QED
    BY <1>5

-----------------------------------------------------------------------------
(* The recursion of selectLimits. *)

Level(ls, n, g, i) ==
    [r \in Resources |-> IF i = n THEN {} ELSE longestFrom(ls[i], i, n, g[i + 1], r)]

\* g satisfies the recursive definition from index i on.
IsSelection(ls, n, i, g) == g = [k \in i .. n |-> Level(ls, n, g, k)]

\* The recursion, from the last index down, has a solution: what select denotes.
LEMMA SelectionExists ==
    ASSUME NEW ls, NEW n \in Nat
    PROVE  IsSelection(ls, n, 0, select(ls, n))
<1> DEFINE B == {i \in 0 .. n : ~ \E g : IsSelection(ls, n, i, g)}
<1>1. B = {}
  <2>1. SUFFICES ASSUME B # {} PROVE FALSE
    OBVIOUS
  <2>b. B \in SUBSET (0 .. n)
    OBVIOUS
  <2>2. PICK i \in B : \A j \in B : j <= i
    <3>. HIDE DEF B
    <3>. QED
      BY <2>1, <2>b, Greatest
  <2>3. CASE i = n
    <3> DEFINE none == [k \in n .. n |-> [r \in Resources |-> {}]]
    <3>1. \A k \in n .. n : Level(ls, n, none, k) = [r \in Resources |-> {}]
      BY DEF Level
    <3>2. IsSelection(ls, n, n, none)
      BY <3>1 DEF IsSelection
    <3>. QED
      BY <2>2, <2>3, <3>2
  <2>4. CASE i # n
    <3>1. i \in 0 .. n - 1 /\ i + 1 \in 0 .. n /\ i + 1 \notin B
      BY <2>2, <2>4
    <3>2. PICK g : IsSelection(ls, n, i + 1, g)
      BY <3>1
    <3> DEFINE h == [k \in i .. n |-> IF k = i THEN Level(ls, n, g, i) ELSE g[k]]
    <3>3. \A k \in i .. n : k # n => h[k + 1] = g[k + 1]
      BY <3>1
    <3>4. \A k \in i .. n : Level(ls, n, h, k) = Level(ls, n, g, k)
      BY <3>3 DEF Level
    <3>5. \A k \in i .. n : k # i => k \in i + 1 .. n
      BY <3>1
    <3>6. \A k \in i .. n : k # i => g[k] = Level(ls, n, g, k)
      BY <3>2, <3>5 DEF IsSelection
    <3>7. \A k \in i .. n : h[k] = Level(ls, n, h, k)
      BY <3>4, <3>6
    <3>8. IsSelection(ls, n, i, h)
      BY <3>7 DEF IsSelection
    <3>. QED
      BY <2>2, <3>8
  <2>. QED
    BY <2>3, <2>4
<1>2. 0 \in 0 .. n
    OBVIOUS
<1>3. PICK g : IsSelection(ls, n, 0, g)
    BY <1>1, <1>2
<1>4. select(ls, n) = CHOOSE f : IsSelection(ls, n, 0, f)
    BY DEF select, IsSelection, Level
<1>. QED
    BY <1>3, <1>4

\* The function select satisfies the equation that defines it: selectLimits returns,
\* for every index and all resources, what its body computes from its recursive calls.
LEMMA SelectDef ==
    ASSUME NEW ls, NEW n \in Nat, NEW i \in 0 .. n, NEW r \in Resources
    PROVE  select(ls, n)[i][r] =
             IF i = n THEN {} ELSE longestFrom(ls[i], i, n, select(ls, n)[i + 1], r)
<1>1. IsSelection(ls, n, 0, select(ls, n))
    BY SelectionExists
<1>2. select(ls, n)[i] = Level(ls, n, select(ls, n), i)
    BY <1>1 DEF IsSelection
<1>. QED
    BY <1>2 DEF Level

-----------------------------------------------------------------------------
(* selectLimits finds a best combination of the Limits i to n - 1. *)

Lists(n) == [0 .. n - 1 -> [Dims -> Requests]]

\* What the Limits of S request of a resource, and whether that is available.
Requested(ls, S, d) == SumFunctionOnSet([i \in DOMAIN ls |-> ls[i][d]], S)
FitIn(ls, S, r)     == \A d \in Dims : Requested(ls, S, d) <= r[d]

Best(ls, n, i, r, S) ==
    /\ S \in SUBSET (i .. n - 1)
    /\ FitIn(ls, S, r)
    /\ \A U \in SUBSET (i .. n - 1) : FitIn(ls, U, r) => Cardinality(U) <= Cardinality(S)

\* What no Limit requests is 0, and a Limit adds its request to that of the others.
LEMMA RequestedFacts ==
    ASSUME NEW n \in Nat, NEW ls \in Lists(n), NEW S \in SUBSET (0 .. n - 1), NEW d \in Dims
    PROVE  /\ Requested(ls, S, d) \in Nat
           /\ Requested(ls, {}, d) = 0
           /\ \A i \in S : Requested(ls, S, d) = ls[i][d] + Requested(ls, S \ {i}, d)
<1> DEFINE f == [i \in DOMAIN ls |-> ls[i][d]]
<1>1. Amounts \subseteq Nat
    BY PowerIsPositive DEF Amounts
<1>2. \A i \in 0 .. n - 1 : ls[i][d] \in Nat
    BY <1>1, RequestsAssumption DEF Lists
<1>3. DOMAIN ls = 0 .. n - 1
    BY DEF Lists
<1>4. \A i \in S : f[i] \in Nat /\ f[i] = ls[i][d]
    BY <1>2, <1>3
<1>5. IsFiniteSet(S)
  <2>1. IsFiniteSet(0 .. n - 1)
    BY FS_Interval
  <2>. QED
    BY <2>1, FS_Subset
<1>. HIDE DEF f
<1>6. SumFunctionOnSet(f, S) \in Nat
    BY <1>4, <1>5, SumType
<1>7. SumFunctionOnSet(f, {}) = 0
    BY SumEmpty
<1>8. \A i \in S : SumFunctionOnSet(f, S) = f[i] + SumFunctionOnSet(f, S \ {i})
    BY <1>4, <1>5, SumRemove
<1>. QED
    BY <1>4, <1>6, <1>7, <1>8 DEF f, Requested

\* The uint32 subtraction of reducedResources is exact where the Limit fits.
LEMMA ReducedFacts ==
    ASSUME NEW r \in Resources, NEW limit \in [Dims -> Requests], limitFitsResources(limit, r)
    PROVE  /\ reducedResources(limit, r) \in Resources
           /\ \A d \in Dims : reducedResources(limit, r)[d] = r[d] - limit[d]
<1>1. \A d \in Dims : r[d] \in 0 .. 2^Width - 1 /\ limit[d] \in 0 .. 2^Width - 1 /\ limit[d] <= r[d]
    BY RequestsAssumption DEF Resources, Amounts, limitFitsResources
<1>2. \A d \in Dims : r[d] - limit[d] \in 0 .. 2^Width - 1
    BY <1>1, PowerIsPositive
<1>3. \A d \in Dims : (r[d] - limit[d]) % 2^Width = r[d] - limit[d]
    BY <1>2, PowerIsPositive, NoWrap
<1>. QED
    BY <1>2, <1>3 DEF Resources, Amounts, reducedResources

\* The step of the induction: what is best from index i + 1 on, for all resources,
\* makes what longestFrom returns best from index i on.
LEMMA LongestIsBest ==
    ASSUME NEW n \in Nat, NEW ls \in Lists(n), NEW i \in 0 .. n - 1, NEW next,
           \A r \in Resources : Best(ls, n, i + 1, r, next[r]),
           NEW r \in Resources
    PROVE  Best(ls, n, i, r, longestFrom(ls[i], i, n, next, r))
<1> DEFINE limit == ls[i]
           left == reducedResources(limit, r)
           with == IF limitFitsResources(limit, r) THEN {i} \cup next[left] ELSE {}
           without == IF Cardinality(with) < n - i THEN next[r] ELSE {}
           result == longestFrom(limit, i, n, next, r)
<1>1. result = IF Cardinality(with) > Cardinality(without) THEN with ELSE without
    BY DEF longestFrom, Longest
<1>2. limit \in [Dims -> Requests]
    BY DEF Lists
<1>3. /\ \A S \in SUBSET (i .. n - 1) : IsFiniteSet(S) /\ Cardinality(S) \in 0 .. n - i
      /\ \A S \in SUBSET (i .. n - 1) : S \in SUBSET (0 .. n - 1)
  <2>1. IsFiniteSet(i .. n - 1) /\ Cardinality(i .. n - 1) = n - i
    BY FS_Interval
  <2>2. ASSUME NEW S \in SUBSET (i .. n - 1) PROVE IsFiniteSet(S) /\ Cardinality(S) \in 0 .. n - i
    <3>1. IsFiniteSet(S) /\ Cardinality(S) <= Cardinality(i .. n - 1)
      BY ONLY <2>1, <2>2, FS_Subset
    <3>2. Cardinality(S) \in Nat
      BY ONLY <3>1, FS_CardinalityType
    <3>. QED
      BY <2>1, <3>1, <3>2
  <2>3. ASSUME NEW S \in SUBSET (i .. n - 1) PROVE S \in SUBSET (0 .. n - 1)
    OBVIOUS
  <2>. QED
    BY <2>2, <2>3
<1>4. \A d \in Dims : r[d] \in Nat /\ limit[d] \in Nat
  <2>1. Amounts \subseteq Nat
    BY PowerIsPositive DEF Amounts
  <2>. QED
    BY <1>2, <2>1, RequestsAssumption DEF Resources
<1>5. next[r] \in SUBSET (i .. n - 1) /\ FitIn(ls, next[r], r) /\ i \notin next[r]
    BY DEF Best
<1>6. {} \in SUBSET (i .. n - 1) /\ FitIn(ls, {}, r) /\ Cardinality({}) = 0
  <2>1. {} \in SUBSET (0 .. n - 1)
    OBVIOUS
  <2>2. \A d \in Dims : Requested(ls, {}, d) = 0
    BY <2>1, RequestedFacts
  <2>. QED
    BY <1>4, <2>2, FS_EmptySet DEF FitIn
<1>7. ASSUME limitFitsResources(limit, r)
      PROVE  /\ {i} \cup next[left] \in SUBSET (i .. n - 1)
             /\ FitIn(ls, {i} \cup next[left], r)
             /\ Cardinality({i} \cup next[left]) = Cardinality(next[left]) + 1
  <2>1. left \in Resources /\ \A d \in Dims : left[d] = r[d] - limit[d]
    BY <1>2, <1>7, ReducedFacts
  <2>2. next[left] \in SUBSET (i + 1 .. n - 1) /\ FitIn(ls, next[left], left)
    BY <2>1 DEF Best
  <2>3. /\ {i} \cup next[left] \in SUBSET (i .. n - 1)
        /\ i \in {i} \cup next[left]
        /\ ({i} \cup next[left]) \ {i} = next[left]
        /\ next[left] \in SUBSET (i .. n - 1) /\ i \notin next[left]
    BY <2>2
  <2>4. ASSUME NEW d \in Dims PROVE Requested(ls, {i} \cup next[left], d) <= r[d]
    <3>1. Requested(ls, {i} \cup next[left], d) = limit[d] + Requested(ls, next[left], d)
      <4> DEFINE W == {i} \cup next[left]
      <4>1. W \in SUBSET (0 .. n - 1) /\ i \in W /\ W \ {i} = next[left]
        BY <1>3, <2>3
      <4>2. \A j \in W : Requested(ls, W, d) = ls[j][d] + Requested(ls, W \ {j}, d)
        <5>1. W \in SUBSET (0 .. n - 1) /\ n \in Nat /\ ls \in Lists(n) /\ d \in Dims
          BY <4>1
        <5>. HIDE DEF W, limit, left, with, without, result
        <5>. QED
          BY ONLY <5>1, RequestedFacts
      <4>. QED
        BY <4>1, <4>2 DEF W
    <3>2. Requested(ls, next[left], d) <= r[d] - limit[d]
      BY <2>1, <2>2 DEF FitIn
    <3>3. Requested(ls, next[left], d) \in Nat
      BY <1>3, <2>3, RequestedFacts
    <3>. QED
      BY <1>4, <3>1, <3>2, <3>3
  <2>5. Cardinality({i} \cup next[left]) = Cardinality(next[left]) + 1
    BY <1>3, <2>3, FS_AddElement
  <2>. QED
    BY <2>3, <2>4, <2>5 DEF FitIn
<1>8. with \in SUBSET (i .. n - 1) /\ FitIn(ls, with, r)
    BY <1>6, <1>7
<1>9. without \in SUBSET (i .. n - 1) /\ FitIn(ls, without, r)
    BY <1>5, <1>6
<1>10. ASSUME NEW U \in SUBSET (i .. n - 1), FitIn(ls, U, r), i \in U
       PROVE  Cardinality(U) <= Cardinality(with)
  <2> DEFINE V == U \ {i}
  <2>1. U \in SUBSET (0 .. n - 1) /\ V \in SUBSET (0 .. n - 1) /\ V \in SUBSET (i + 1 .. n - 1)
    BY <1>3
  <2>2. ASSUME NEW d \in Dims
        PROVE  /\ Requested(ls, U, d) = limit[d] + Requested(ls, V, d)
               /\ Requested(ls, V, d) \in Nat /\ Requested(ls, U, d) <= r[d]
    <3>1. n \in Nat /\ ls \in Lists(n) /\ d \in Dims /\ i \in U
      BY <1>10
    <3>2. Requested(ls, U, d) = ls[i][d] + Requested(ls, U \ {i}, d) /\ Requested(ls, V, d) \in Nat
      BY ONLY <2>1, <3>1, RequestedFacts
    <3>. QED
      BY <1>10, <3>2 DEF FitIn
  <2>. HIDE DEF V
  <2>3. limitFitsResources(limit, r)
    BY <1>4, <2>2 DEF limitFitsResources
  <2>4. left \in Resources /\ \A d \in Dims : left[d] = r[d] - limit[d]
    BY <1>2, <2>3, ReducedFacts
  <2>5. \A d \in Dims : Requested(ls, V, d) <= left[d]
    BY <1>4, <2>2, <2>4
  <2>6. Cardinality(V) <= Cardinality(next[left])
    BY <2>1, <2>4, <2>5 DEF Best, FitIn
  <2>7. Cardinality(V) = Cardinality(U) - 1
    BY <1>3, <1>10, FS_RemoveElement DEF V
  <2>8. Cardinality(with) = Cardinality(next[left]) + 1
    BY <1>7, <2>3
  <2>9. V \in SUBSET (i .. n - 1) /\ next[left] \in SUBSET (i .. n - 1)
    BY <2>1, <2>4 DEF Best
  <2>10. Cardinality(U) \in Int /\ Cardinality(V) \in Int /\ Cardinality(next[left]) \in Int
    BY <1>3, <2>9
  <2>. QED
    BY <2>6, <2>7, <2>8, <2>10
<1>11. ASSUME NEW U \in SUBSET (i .. n - 1), FitIn(ls, U, r), i \notin U
       PROVE  Cardinality(U) <= Cardinality(next[r])
  <2>1. U \in SUBSET (i + 1 .. n - 1)
    BY <1>11
  <2>. QED
    BY <1>11, <2>1 DEF Best
<1>12. Cardinality(with) \in 0 .. n - i /\ Cardinality(without) \in 0 .. n - i
    BY <1>3, <1>8, <1>9
<1>13. ASSUME NEW U \in SUBSET (i .. n - 1), FitIn(ls, U, r)
       PROVE  Cardinality(U) <= Cardinality(with) \/ Cardinality(U) <= Cardinality(without)
  <2>1. CASE i \in U
    BY <1>10, <1>13, <2>1
  <2>2. CASE i \notin U /\ Cardinality(with) < n - i
    BY <1>11, <1>13, <2>2
  <2>3. CASE ~(Cardinality(with) < n - i)
    <3>1. Cardinality(U) \in 0 .. n - i
      BY <1>3
    <3>. QED
      BY <1>12, <2>3, <3>1
  <2>. QED
    BY <2>1, <2>2, <2>3
<1>. HIDE DEF with, without
<1>14. ASSUME NEW U \in SUBSET (i .. n - 1), FitIn(ls, U, r)
       PROVE  Cardinality(U) <= Cardinality(result)
  <2>1. Cardinality(U) \in 0 .. n - i
    BY <1>3
  <2>. QED
    BY <1>1, <1>12, <1>13, <1>14, <2>1
<1>. QED
    BY <1>1, <1>8, <1>9, <1>14 DEF Best

\* selectLimits with the resources r, from the index i on, returns a combination that
\* fits and that no combination of more Limits exceeds: by induction from the last
\* index down, for all resources at once.
THEOREM SelectLimitsIsBest ==
    ASSUME NEW n \in Nat, NEW ls \in Lists(n), NEW i \in 0 .. n, NEW r \in Resources
    PROVE  Best(ls, n, i, r, select(ls, n)[i][r])
<1> DEFINE Good(k) == \A q \in Resources : Best(ls, n, k, q, select(ls, n)[k][q])
           B == {k \in 0 .. n : ~Good(k)}
<1>1. SUFFICES ASSUME B # {} PROVE FALSE
    OBVIOUS
<1>b. B \in SUBSET (0 .. n)
    OBVIOUS
<1>2. PICK k \in B : \A j \in B : j <= k
  <2>. HIDE DEF B
  <2>. QED
    BY <1>1, <1>b, Greatest
<1>3. PICK q \in Resources : ~Best(ls, n, k, q, select(ls, n)[k][q])
    BY <1>2
<1>4. CASE k = n
  <2>1. select(ls, n)[k][q] = {}
    BY <1>2, <1>4, SelectDef
  <2>2. {} \in SUBSET (0 .. n - 1) /\ n .. n - 1 = {}
    OBVIOUS
  <2>3. \A d \in Dims : Requested(ls, {}, d) = 0
    BY <2>2, RequestedFacts
  <2>4. \A d \in Dims : q[d] \in Nat
    BY PowerIsPositive DEF Resources, Amounts
  <2>5. FitIn(ls, {}, q)
    BY <2>3, <2>4 DEF FitIn
  <2>6. \A U \in SUBSET (n .. n - 1) : Cardinality(U) <= Cardinality({})
    <3>1. \A U \in SUBSET (n .. n - 1) : U = {}
      BY <2>2
    <3>2. Cardinality({}) = 0 /\ 0 <= 0
      BY FS_EmptySet
    <3>. QED
      BY <3>1, <3>2
  <2>7. Best(ls, n, n, q, {})
    BY <2>2, <2>5, <2>6 DEF Best
  <2>. QED
    BY <1>3, <1>4, <2>1, <2>7
<1>5. CASE k # n
  <2>1. k \in 0 .. n - 1 /\ k + 1 \in 0 .. n /\ k + 1 \notin B
    BY <1>2, <1>5
  <2>2. Good(k + 1)
    BY <2>1
  <2> DEFINE next == select(ls, n)[k + 1]
  <2>3. \A p \in Resources : Best(ls, n, k + 1, p, next[p])
    BY <2>2
  <2>4. select(ls, n)[k][q] = longestFrom(ls[k], k, n, next, q)
    BY <1>2, <1>5, SelectDef
  <2>. HIDE DEF next
  <2>5. Best(ls, n, k, q, longestFrom(ls[k], k, n, next, q))
    BY <2>1, <2>3, LongestIsBest
  <2>. QED
    BY <1>3, <2>4, <2>5
<1>. QED
    BY <1>4, <1>5

-----------------------------------------------------------------------------
(* The call. *)

\* The arguments are of their types, and the result of a call is that of selectLimits.
IInv ==
    /\ limits \in Lists(Size) /\ Size \in Nat
    /\ res \in Resources
    /\ done => selected = select(limits, Size)[0][res]

\* IInv holds in every state: what is returned is select's value at index 0.
LEMMA Invariant == Spec => []IInv
<1>1. Init => IInv
  <2>1. SUFFICES ASSUME Init PROVE IInv
    OBVIOUS
  <2>2. PICK n \in 0 .. MaxLimits : limits \in Lists(n)
    <3>1. \E n \in 0 .. MaxLimits : limits \in [0 .. n - 1 -> [Dims -> Requests]]
      BY <2>1 DEF Init
    <3>. QED
      BY ONLY <3>1 DEF Lists
  <2>3. n \in Nat
    BY LimitsAssumption
  <2>4. DOMAIN limits = 0 .. n - 1
    BY <2>2 DEF Lists
  <2>5. Size = n
    BY <2>3, <2>4, FS_Interval DEF Size
  <2>. QED
    BY <2>1, <2>2, <2>3, <2>5 DEF Init, IInv
<1>2. IInv /\ [Call]_vars => IInv'
    BY DEF IInv, Call, vars, Size
<1>. QED
    BY <1>1, <1>2, PTL DEF Spec

\* What a call has returned is a best combination of all Limits.
LEMMA SelectedBest == ASSUME IInv, done PROVE Best(limits, Size, 0, res, selected)
<1>1. 0 \in 0 .. Size
    BY DEF IInv
<1>. QED
    BY <1>1, SelectLimitsIsBest DEF IInv

\* What SelectLimits returns is a set of indices of the Limits, and what they request
\* as a whole, without wrapping around, is available: for any number of kinds of
\* resources, any width, and any Limits.
THEOREM SelectionFits == Spec => []SelectedFits
<1>1. IInv => SelectedFits
  <2>1. SUFFICES ASSUME IInv, done PROVE selected \subseteq DOMAIN limits /\ Fits(selected)
    BY DEF SelectedFits
  <2>2. Best(limits, Size, 0, res, selected)
    BY <2>1, SelectedBest
  <2>. QED
    BY <2>1, <2>2 DEF Best, FitIn, Requested, Fits, IInv, Lists
<1>. QED
    BY <1>1, Invariant, PTL

\* No combination of more Containers fits: neither the preference for the current
\* Limit, nor the branch that is cut when the combination with it is as long as it
\* can be, loses a longer one.
THEOREM SelectionIsBest == Spec => []SelectedIsBest
<1>1. IInv => SelectedIsBest
  <2>1. SUFFICES ASSUME IInv, done, NEW S \in SUBSET DOMAIN limits, Fits(S)
                 PROVE  Cardinality(S) <= Cardinality(selected)
    BY DEF SelectedIsBest
  <2>2. Best(limits, Size, 0, res, selected)
    BY <2>1, SelectedBest
  <2>3. S \in SUBSET (0 .. Size - 1) /\ FitIn(limits, S, res)
    BY <2>1 DEF IInv, Lists, Fits, FitIn, Requested
  <2>. QED
    BY <2>2, <2>3 DEF Best
<1>. QED
    BY <1>1, Invariant, PTL

=============================================================================
