-------------------------------- MODULE Sums --------------------------------
(***************************************************************************)
(* Sums over finite sets, for the theorems about money.  The operator is   *)
(* SumFunctionOnSet of module Functions: a recursive function on the       *)
(* subsets of S that takes one chosen element out at a time.  A recursive  *)
(* function is the CHOOSE of its equation, so that one exists comes first; *)
(* then that any element may be taken out, which is all the others need.   *)
(***************************************************************************)
EXTENDS Integers, Functions, FiniteSetTheorems, WellFoundedInduction, TLAPS

Pick(s) == CHOOSE x \in s : TRUE

\* The equation of the recursive function in SumFunctionOnSet.
Recursion(f, S, h) ==
  h = [s \in SUBSET S |-> IF s = {} THEN 0 ELSE f[Pick(s)] + h[s \ {Pick(s)}]]

-----------------------------------------------------------------------------
(***************************************************************************)
(* Induction over the subsets of a finite set.                             *)
(***************************************************************************)

\* A collection that has every set all of whose smaller subsets it has, has them all.
LEMMA SubsetInduction ==
  ASSUME NEW S, IsFiniteSet(S), NEW G,
         \A T \in SUBSET S : (\A U \in SUBSET T : U # T => U \in G) => T \in G
  PROVE  SUBSET S \subseteq G
<1>. DEFINE B == (SUBSET S) \ G
<1>1. IsWellFoundedOn(StrictSubsetOrdering(S), SUBSET S)
  BY FS_StrictSubsetOrderingWellFounded, FS_FiniteSubsetsOfFinite
<1>2. ASSUME B # {}  PROVE FALSE
  <2>1. PICK T \in B : \A U \in B : ~ (<<U, T>> \in StrictSubsetOrdering(S))
    <3>. HIDE DEF B
    <3>1. B \subseteq SUBSET S  BY DEF B
    <3>. QED  BY <1>1, <1>2, <3>1, WFMin
  <2>2. \A U \in SUBSET T : U # T => U \in G
    BY <2>1 DEF StrictSubsetOrdering
  <2>. QED  BY <2>2
<1>. QED  BY <1>2

\* What is chosen from a set is in it.
LEMMA PickIn ==
  ASSUME NEW s, s # {}
  PROVE  Pick(s) \in s
BY DEF Pick

-----------------------------------------------------------------------------
(***************************************************************************)
(* The recursion defines one function.                                     *)
(***************************************************************************)

\* Two functions that meet the equation agree where both are defined.
LEMMA Agreement ==
  ASSUME NEW f, NEW S, NEW T, NEW V, IsFiniteSet(V), V \subseteq S \cap T, NEW g, NEW h,
         Recursion(f, S, g), Recursion(f, T, h)
  PROVE  \A s \in SUBSET V : g[s] = h[s]
<1>. DEFINE G == {s \in SUBSET V : g[s] = h[s]}
<1>1. ASSUME NEW s \in SUBSET V, \A u \in SUBSET s : u # s => u \in G
      PROVE  s \in G
  <2>1. CASE s = {}
    BY <2>1 DEF Recursion
  <2>2. CASE s # {}
    <3>1. Pick(s) \in s
      BY <2>2, PickIn
    <3>2. s \ {Pick(s)} \in G
      BY <1>1, <3>1
    <3>3. /\ g[s] = f[Pick(s)] + g[s \ {Pick(s)}]
          /\ h[s] = f[Pick(s)] + h[s \ {Pick(s)}]
      BY <2>2 DEF Recursion
    <3>. QED  BY <3>2, <3>3
  <2>. QED  BY <2>1, <2>2
<1>2. SUBSET V \subseteq G
  <2>. HIDE DEF G
  <2>. QED  BY <1>1, SubsetInduction
<1>. QED  BY <1>2

\* There is a function that meets it.
LEMMA Existence ==
  ASSUME NEW f, NEW S, IsFiniteSet(S)
  PROVE  \E h : Recursion(f, S, h)
<1>. DEFINE G == {T \in SUBSET S : \E h : Recursion(f, T, h)}
<1>1. ASSUME NEW T \in SUBSET S, \A U \in SUBSET T : U # T => U \in G
      PROVE  T \in G
  <2>. DEFINE H(u)   == CHOOSE h : Recursion(f, u, h)
              Low(s) == s \ {Pick(s)}
              h == [s \in SUBSET T |-> IF s = {} THEN 0 ELSE f[Pick(s)] + H(Low(s))[Low(s)]]
  <2>1. \A u \in SUBSET T : u # T => Recursion(f, u, H(u))
    BY <1>1
  <2>2. \A s \in SUBSET T : s # {} => Low(s) \in SUBSET T /\ Low(s) # T
    BY PickIn
  <2>3. ASSUME NEW u \in SUBSET T, u # T
        PROVE  h[u] = H(u)[u]
    <3>1. Recursion(f, u, H(u))
      BY <2>1, <2>3
    <3>2. CASE u = {}
      <4>1. H(u)[u] = 0
        BY <3>1, <3>2 DEF Recursion
      <4>. QED  BY <3>2, <4>1
    <3>3. CASE u # {}
      <4>1. H(u)[u] = f[Pick(u)] + H(u)[Low(u)]
        <5>. HIDE DEF H
        <5>. QED  BY <3>1, <3>3 DEF Recursion
      <4>2. Recursion(f, Low(u), H(Low(u)))
        BY <2>1, <2>2, <3>3
      <4>3. IsFiniteSet(Low(u)) /\ Low(u) \subseteq u \cap Low(u)
        BY FS_Subset
      <4>4. H(u)[Low(u)] = H(Low(u))[Low(u)]
        <5>. HIDE DEF H, Low
        <5>1. \A s \in SUBSET Low(u) : H(u)[s] = H(Low(u))[s]
          BY <3>1, <4>2, <4>3, Agreement
        <5>. QED  BY <5>1
      <4>. QED  BY <3>3, <4>1, <4>4
    <3>. QED  BY <3>2, <3>3
  <2>4. Recursion(f, T, h)
    <3>1. \A s \in SUBSET T : s # {} => h[Low(s)] = H(Low(s))[Low(s)]
      BY <2>2, <2>3
    <3>2. PICK h0 : h0 = h  OBVIOUS
    <3>. HIDE DEF H
    <3>3. \A s \in SUBSET T : s # {} => h0[s \ {Pick(s)}] = H(s \ {Pick(s)})[s \ {Pick(s)}]
      <4>. HIDE DEF h
      <4>. QED  BY <3>1, <3>2
    <3>4. h0 = [s \in SUBSET T |-> IF s = {} THEN 0 ELSE f[Pick(s)] + h0[s \ {Pick(s)}]]
      BY <3>2, <3>3
    <3>5. Recursion(f, T, h0)
      BY <3>4 DEF Recursion
    <3>. QED  BY <3>2, <3>5
  <2>. QED  BY <2>4
<1>2. SUBSET S \subseteq G
  <2>. HIDE DEF G
  <2>. QED  BY <1>1, SubsetInduction
<1>. QED  BY <1>2

-----------------------------------------------------------------------------
(***************************************************************************)
(* Sums.                                                                   *)
(***************************************************************************)

\* The sum is the value at S of a function that meets the equation.
LEMMA SumMeetsRecursion ==
  ASSUME NEW f, NEW S, IsFiniteSet(S)
  PROVE  \E h : Recursion(f, S, h) /\ SumFunctionOnSet(f, S) = h[S]
<1>. DEFINE h == CHOOSE g : Recursion(f, S, g)
<1>1. Recursion(f, S, h)
  BY Existence
<1>2. SumFunctionOnSet(f, S) = h[S]
  BY DEF SumFunctionOnSet, FoldFunctionOnSet, MapThenFoldSet, Recursion, Pick
<1>. QED  BY <1>1, <1>2

\* An empty sum.
LEMMA SumOfNone ==
  ASSUME NEW f
  PROVE  SumFunctionOnSet(f, {}) = 0
<1>1. IsFiniteSet({})
  BY FS_EmptySet
<1>. QED  BY <1>1, SumMeetsRecursion DEF Recursion

\* The element that is chosen.
LEMMA SumTakesPick ==
  ASSUME NEW f, NEW S, IsFiniteSet(S), S # {}
  PROVE  SumFunctionOnSet(f, S) = f[Pick(S)] + SumFunctionOnSet(f, S \ {Pick(S)})
<1>. DEFINE T == S \ {Pick(S)}
<1>1. IsFiniteSet(T) /\ T \subseteq S \cap T
  BY FS_Subset
<1>2. PICK g : Recursion(f, S, g) /\ SumFunctionOnSet(f, S) = g[S]
  BY SumMeetsRecursion
<1>3. PICK h : Recursion(f, T, h) /\ SumFunctionOnSet(f, T) = h[T]
  BY <1>1, SumMeetsRecursion
<1>4. g[S] = f[Pick(S)] + g[T]
  BY <1>2 DEF Recursion
<1>5. g[T] = h[T]
  <2>. HIDE DEF T
  <2>1. \A s \in SUBSET T : g[s] = h[s]
    BY <1>1, <1>2, <1>3, Agreement
  <2>. QED  BY <2>1
<1>. QED  BY <1>2, <1>3, <1>4, <1>5

\* A sum of integers.
LEMMA SumIsInteger ==
  ASSUME NEW f, NEW S, IsFiniteSet(S), \A x \in S : f[x] \in Int
  PROVE  SumFunctionOnSet(f, S) \in Int
<1>. DEFINE G == {T \in SUBSET S : SumFunctionOnSet(f, T) \in Int}
<1>1. ASSUME NEW T \in SUBSET S, \A U \in SUBSET T : U # T => U \in G
      PROVE  T \in G
  <2>1. CASE T = {}
    BY <2>1, SumOfNone
  <2>2. CASE T # {}
    <3>1. Pick(T) \in T /\ IsFiniteSet(T)
      BY <2>2, PickIn, FS_Subset
    <3>2. T \ {Pick(T)} \in G
      BY <1>1, <3>1
    <3>. QED  BY <2>2, <3>1, <3>2, SumTakesPick
  <2>. QED  BY <2>1, <2>2
<1>2. SUBSET S \subseteq G
  <2>. HIDE DEF G
  <2>. QED  BY <1>1, SubsetInduction
<1>. QED  BY <1>2

\* Any element may be taken out first.
LEMMA SumTakesAny ==
  ASSUME NEW f, NEW S, IsFiniteSet(S), \A y \in S : f[y] \in Int, NEW x \in S
  PROVE  SumFunctionOnSet(f, S) = f[x] + SumFunctionOnSet(f, S \ {x})
<1>. DEFINE Sum(T) == SumFunctionOnSet(f, T)
            G == {T \in SUBSET S : \A y \in T : Sum(T) = f[y] + Sum(T \ {y})}
<1>1. ASSUME NEW T \in SUBSET S
      PROVE  IsFiniteSet(T) /\ Sum(T) \in Int
  BY <1>1, FS_Subset, SumIsInteger
<1>2. ASSUME NEW T \in SUBSET S, \A U \in SUBSET T : U # T => U \in G, NEW y \in T
      PROVE  Sum(T) = f[y] + Sum(T \ {y})
  <2>. DEFINE z == Pick(T)
  <2>1. z \in T
    BY PickIn
  <2>2. Sum(T) = f[z] + Sum(T \ {z})
    BY <1>1, SumTakesPick
  <2>3. CASE y = z
    BY <2>2, <2>3
  <2>4. CASE y # z
    <3>1. T \ {z} \in G /\ T \ {y} \in G
      BY <1>2, <2>1
    <3>2. /\ Sum(T \ {z}) = f[y] + Sum((T \ {z}) \ {y})
          /\ Sum(T \ {y}) = f[z] + Sum((T \ {y}) \ {z})
      BY <2>1, <2>4, <3>1
    <3>3. (T \ {z}) \ {y} = (T \ {y}) \ {z}
      OBVIOUS
    <3>4. PICK rest \in Int, a \in Int, b \in Int :
            rest = Sum((T \ {y}) \ {z}) /\ a = f[y] /\ b = f[z]
      BY <1>1, <2>1
    <3>5. Sum(T \ {z}) = a + rest /\ Sum(T \ {y}) = b + rest
      BY <3>2, <3>3, <3>4
    <3>6. Sum(T) = b + (a + rest)
      BY <2>2, <3>4, <3>5
    <3>. QED  BY <3>4, <3>5, <3>6
  <2>. QED  BY <2>3, <2>4
<1>3. SUBSET S \subseteq G
  <2>1. ASSUME NEW T \in SUBSET S, \A U \in SUBSET T : U # T => U \in G
        PROVE  T \in G
    BY <1>2, <2>1
  <2>. HIDE DEF G
  <2>. QED  BY <2>1, SubsetInduction
<1>. QED  BY <1>3

\* A function that is equal on the set has the same sum.
LEMMA SumOfEqual ==
  ASSUME NEW f, NEW g, NEW S, IsFiniteSet(S), \A y \in S : f[y] \in Int /\ g[y] = f[y]
  PROVE  SumFunctionOnSet(g, S) = SumFunctionOnSet(f, S)
<1>. DEFINE G == {T \in SUBSET S : SumFunctionOnSet(g, T) = SumFunctionOnSet(f, T)}
<1>1. ASSUME NEW T \in SUBSET S, \A U \in SUBSET T : U # T => U \in G
      PROVE  T \in G
  <2>1. CASE T = {}
    BY <2>1, SumOfNone
  <2>2. CASE T # {}
    <3>1. Pick(T) \in T /\ IsFiniteSet(T)
      BY <2>2, PickIn, FS_Subset
    <3>2. T \ {Pick(T)} \in G
      BY <1>1, <3>1
    <3>. QED  BY <2>2, <3>1, <3>2, SumTakesPick
  <2>. QED  BY <2>1, <2>2
<1>2. SUBSET S \subseteq G
  <2>. HIDE DEF G
  <2>. QED  BY <1>1, SubsetInduction
<1>. QED  BY <1>2

\* A sum changes by what one of its terms changes.
LEMMA SumOfChange ==
  ASSUME NEW f, NEW g, NEW S, IsFiniteSet(S), NEW x \in S,
         \A y \in S : f[y] \in Int /\ g[y] \in Int /\ (y # x => g[y] = f[y])
  PROVE  SumFunctionOnSet(g, S) = SumFunctionOnSet(f, S) + g[x] - f[x]
<1>1. IsFiniteSet(S \ {x})
  BY FS_Subset
<1>2. SumFunctionOnSet(g, S \ {x}) = SumFunctionOnSet(f, S \ {x})
  BY <1>1, SumOfEqual
<1>3. SumFunctionOnSet(f, S \ {x}) \in Int
  BY <1>1, SumIsInteger
<1>4. /\ SumFunctionOnSet(f, S) = f[x] + SumFunctionOnSet(f, S \ {x})
      /\ SumFunctionOnSet(g, S) = g[x] + SumFunctionOnSet(g, S \ {x})
  BY SumTakesAny
<1>. QED  BY <1>2, <1>3, <1>4

\* A sum of zeros.
LEMMA SumOfZeros ==
  ASSUME NEW f, NEW S, IsFiniteSet(S), \A y \in S : f[y] = 0
  PROVE  SumFunctionOnSet(f, S) = 0
<1>. DEFINE G == {T \in SUBSET S : SumFunctionOnSet(f, T) = 0}
<1>1. ASSUME NEW T \in SUBSET S, \A U \in SUBSET T : U # T => U \in G
      PROVE  T \in G
  <2>1. CASE T = {}
    BY <2>1, SumOfNone
  <2>2. CASE T # {}
    <3>1. Pick(T) \in T /\ IsFiniteSet(T)
      BY <2>2, PickIn, FS_Subset
    <3>2. T \ {Pick(T)} \in G
      BY <1>1, <3>1
    <3>. QED  BY <2>2, <3>1, <3>2, SumTakesPick
  <2>. QED  BY <2>1, <2>2
<1>2. SUBSET S \subseteq G
  <2>. HIDE DEF G
  <2>. QED  BY <1>1, SubsetInduction
<1>. QED  BY <1>2

\* A sum of natural numbers.
LEMMA SumIsNatural ==
  ASSUME NEW f, NEW S, IsFiniteSet(S), \A y \in S : f[y] \in Nat
  PROVE  SumFunctionOnSet(f, S) \in Nat
<1>. DEFINE G == {T \in SUBSET S : SumFunctionOnSet(f, T) \in Nat}
<1>1. ASSUME NEW T \in SUBSET S, \A U \in SUBSET T : U # T => U \in G
      PROVE  T \in G
  <2>1. CASE T = {}
    BY <2>1, SumOfNone
  <2>2. CASE T # {}
    <3>1. Pick(T) \in T /\ IsFiniteSet(T)
      BY <2>2, PickIn, FS_Subset
    <3>2. T \ {Pick(T)} \in G
      BY <1>1, <3>1
    <3>. QED  BY <2>2, <3>1, <3>2, SumTakesPick
  <2>. QED  BY <2>1, <2>2
<1>2. SUBSET S \subseteq G
  <2>. HIDE DEF G
  <2>. QED  BY <1>1, SubsetInduction
<1>. QED  BY <1>2

-----------------------------------------------------------------------------
(***************************************************************************)
(* The same for all values of a function.                                  *)
(***************************************************************************)

\* A total is a number.
LEMMA TotalIsInteger ==
  ASSUME NEW S, IsFiniteSet(S), NEW f \in [S -> Int]
  PROVE  SumFunction(f) \in Int
<1>1. DOMAIN f = S /\ \A y \in S : f[y] \in Int
  OBVIOUS
<1>. QED  BY <1>1, SumIsInteger DEF SumFunction

\* A total of natural numbers is one.
LEMMA TotalIsNatural ==
  ASSUME NEW S, IsFiniteSet(S), NEW f \in [S -> Nat]
  PROVE  SumFunction(f) \in Nat
<1>1. DOMAIN f = S /\ \A y \in S : f[y] \in Nat
  OBVIOUS
<1>. QED  BY <1>1, SumIsNatural DEF SumFunction

\* Where everything is zero so is the total.
LEMMA TotalOfZeros ==
  ASSUME NEW S, IsFiniteSet(S)
  PROVE  SumFunction([y \in S |-> 0]) = 0
<1>. DEFINE f == [y \in S |-> 0]
<1>1. DOMAIN f = S /\ \A y \in S : f[y] = 0
  OBVIOUS
<1>. HIDE DEF f
<1>2. SumFunction(f) = 0
  BY <1>1, SumOfZeros DEF SumFunction
<1>. QED  BY <1>2 DEF f

\* A total changes by what the value of one argument changes.
LEMMA TotalChange ==
  ASSUME NEW S, IsFiniteSet(S), NEW f \in [S -> Int], NEW x \in S, NEW d \in Int, NEW g,
         DOMAIN g = S, g[x] = f[x] + d, \A y \in S : y # x => g[y] = f[y]
  PROVE  SumFunction(g) = SumFunction(f) + d
<1>1. DOMAIN f = S /\ \A y \in S : f[y] \in Int /\ g[y] \in Int /\ (y # x => g[y] = f[y])
  OBVIOUS
<1>2. SumFunctionOnSet(f, S) \in Int
  BY <1>1, SumIsInteger
<1>3. SumFunctionOnSet(g, S) = SumFunctionOnSet(f, S) + g[x] - f[x]
  BY <1>1, SumOfChange
<1>. QED  BY <1>1, <1>2, <1>3 DEF SumFunction
=============================================================================
