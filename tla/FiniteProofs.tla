------------------------------ MODULE FiniteProofs ------------------------------
(***************************************************************************)
(* Finite sets that are counted, ordered, summed up and multiplied: the    *)
(* facts about the community modules' folds, which are recursive           *)
(* functions, by induction on the size of a set.                           *)
(***************************************************************************)
EXTENDS FiniteOrders, Integers, Sequences, FiniteSetsExt, Functions,
        FiniteSetTheorems, SequenceTheorems, WellFoundedInduction, TLAPS

(***************************************************************************)
(* Finite total orders.                                                    *)
(***************************************************************************)

\* before[x] are the elements before x in a strict total order of S.
IsOrder(S, before) ==
    /\ before \in [S -> SUBSET S]
    /\ \A x \in S : x \notin before[x]
    /\ \A x, y \in S : x # y => x \in before[y] \/ y \in before[x]
    /\ \A x, y, z \in S : x \in before[y] /\ y \in before[z] => x \in before[z]

\* The numbers of elements before each of n elements are 0 to n - 1.
LEMMA PlacesNumberAnOrder ==
    ASSUME NEW S, IsFiniteSet(S), NEW before, IsOrder(S, before)
    PROVE  /\ Cardinality(S) \in Nat
           /\ \A x \in S : Cardinality(before[x]) \in 0..(Cardinality(S) - 1)
           /\ \A x, y \in S :
                x \in before[y] <=> Cardinality(before[x]) < Cardinality(before[y])
           /\ \A x, y \in S : Cardinality(before[x]) = Cardinality(before[y]) => x = y
           /\ \A k \in 0..(Cardinality(S) - 1) :
                \E x \in S : Cardinality(before[x]) = k
<1> DEFINE n == Cardinality(S)
           place == [x \in S |-> Cardinality(before[x])]
<1>1. n \in Nat
  BY FS_CardinalityType
<1>2. ASSUME NEW x \in S
      PROVE  IsFiniteSet(before[x]) /\ Cardinality(before[x]) \in 0..(n - 1)
  <2>1. before[x] \in SUBSET S /\ before[x] # S
    BY DEF IsOrder
  <2>2. IsFiniteSet(before[x]) /\ Cardinality(before[x]) <= n /\ Cardinality(before[x]) # n
    BY <2>1, FS_Subset
  <2>3. Cardinality(before[x]) \in Nat
    BY <2>2, FS_CardinalityType
  <2> QED BY <1>1, <2>2, <2>3
<1>3. ASSUME NEW x \in S, NEW y \in S, x \in before[y]
      PROVE  Cardinality(before[x]) < Cardinality(before[y])
  <2>1. before[x] \in SUBSET S /\ before[x] \subseteq before[y]
    BY <1>3 DEF IsOrder
  <2>2. before[x] # before[y]
    BY <1>3 DEF IsOrder
  <2>3. /\ Cardinality(before[x]) <= Cardinality(before[y])
        /\ Cardinality(before[x]) # Cardinality(before[y])
    BY <1>2, <2>1, <2>2, FS_Subset
  <2> QED BY <1>1, <1>2, <2>3
<1>4. ASSUME NEW x \in S, NEW y \in S, x # y
      PROVE  \/ Cardinality(before[x]) < Cardinality(before[y])
             \/ Cardinality(before[y]) < Cardinality(before[x])
  BY <1>3, <1>4 DEF IsOrder
<1>5. \A x, y \in S : Cardinality(before[x]) = Cardinality(before[y]) => x = y
  BY <1>1, <1>2, <1>4
<1>6. ASSUME NEW x \in S, NEW y \in S, Cardinality(before[x]) < Cardinality(before[y])
      PROVE  x \in before[y]
  <2>1. x # y /\ y \notin before[x]
    BY <1>1, <1>2, <1>3, <1>6
  <2> QED BY <2>1 DEF IsOrder
<1>7. \A k \in 0..(n - 1) : \E x \in S : Cardinality(before[x]) = k
  <2>1. place \in [S -> 0..(n - 1)]
    BY <1>2
  <2>2. \A x, y \in S : place[x] = place[y] => x = y
    BY <1>5
  <2>3. IsFiniteSet(0..(n - 1)) /\ Cardinality(0..(n - 1)) = n
    BY <1>1, FS_Interval
  <2> HIDE DEF place, n
  <2>4. place \in Injection(S, 0..(n - 1))
    BY <2>1, <2>2 DEF Injection, IsInjective
  <2>5. place \in Surjection(S, 0..(n - 1))
    BY <2>3, <2>4, FS_Injection DEF n
  <2>6. \A k \in 0..(n - 1) : \E x \in S : place[x] = k
    BY <2>5 DEF Surjection
  <2> QED BY <2>6 DEF place
<1> QED BY <1>1, <1>2, <1>3, <1>5, <1>6, <1>7

\* InOrder enumerates a finite set in its order.
LEMMA InOrderEnumerates ==
    ASSUME NEW S, IsFiniteSet(S), NEW before, IsOrder(S, before)
    PROVE  /\ Cardinality(S) \in Nat
           /\ InOrder(before) \in [1..Cardinality(S) -> S]
           /\ \A x \in S : /\ Cardinality(before[x]) + 1 \in 1..Cardinality(S)
                           /\ InOrder(before)[Cardinality(before[x]) + 1] = x
           /\ \A i, j \in 1..Cardinality(S) :
                /\ InOrder(before)[i] \in before[InOrder(before)[j]] <=> i < j
                /\ InOrder(before)[i] = InOrder(before)[j] => i = j
<1> DEFINE n == Cardinality(S)
           order == InOrder(before)
<1>1. /\ n \in Nat
      /\ \A x \in S : Cardinality(before[x]) \in 0..(n - 1)
      /\ \A x, y \in S :
            x \in before[y] <=> Cardinality(before[x]) < Cardinality(before[y])
      /\ \A x, y \in S : Cardinality(before[x]) = Cardinality(before[y]) => x = y
      /\ \A k \in 0..(n - 1) : \E x \in S : Cardinality(before[x]) = k
  BY PlacesNumberAnOrder
<1>2. DOMAIN before = S
  BY DEF IsOrder
<1> HIDE DEF n
<1>3. order = [i \in 1..n |-> CHOOSE x \in S : Cardinality(before[x]) = i - 1]
  BY <1>2 DEF InOrder, n
<1> HIDE DEF order
<1>4. ASSUME NEW i \in 1..n
      PROVE  order[i] \in S /\ Cardinality(before[order[i]]) = i - 1
  <2>1. i - 1 \in 0..(n - 1)
    BY <1>1
  <2>2. \E x \in S : Cardinality(before[x]) = i - 1
    BY <1>1, <2>1
  <2> QED BY <1>3, <2>2
<1>5. order \in [1..n -> S]
  BY <1>3, <1>4
<1>6. ASSUME NEW x \in S
      PROVE  /\ Cardinality(before[x]) + 1 \in 1..n
             /\ order[Cardinality(before[x]) + 1] = x
  <2>1. PICK i \in 1..n : i = Cardinality(before[x]) + 1
    BY <1>1
  <2>2. Cardinality(before[order[i]]) = Cardinality(before[x])
    BY <1>1, <1>4, <2>1
  <2> QED BY <1>1, <1>4, <2>1, <2>2
<1>7. \A i, j \in 1..n : order[i] \in before[order[j]] <=> i < j
  BY <1>1, <1>4
<1>8. \A i, j \in 1..n : order[i] = order[j] => i = j
  BY <1>1, <1>4
<1> QED BY <1>1, <1>5, <1>6, <1>7, <1>8 DEF order, n

\* p rearranges 1..n.
Permutes(p, n) ==
    /\ p \in [1..n -> 1..n]
    /\ \A i, j \in 1..n : p[i] = p[j] => i = j
    /\ \A j \in 1..n : \E i \in 1..n : p[i] = j

\* Of 1..n it is a permutation.
LEMMA InOrderPermutes ==
    ASSUME NEW n \in Nat, NEW before, IsOrder(1..n, before)
    PROVE  /\ Permutes(InOrder(before), n)
           /\ \A i \in 1..n : /\ Cardinality(before[i]) + 1 \in 1..n
                             /\ InOrder(before)[Cardinality(before[i]) + 1] = i
<1>1. IsFiniteSet(1..n) /\ Cardinality(1..n) = n
  BY FS_Interval
<1> DEFINE S == 1..n
<1> HIDE DEF S
<1>2. IsFiniteSet(S) /\ IsOrder(S, before) /\ Cardinality(S) = n
  BY <1>1 DEF S
<1>3. /\ InOrder(before) \in [1..n -> S]
      /\ \A x \in S : /\ Cardinality(before[x]) + 1 \in 1..n
                      /\ InOrder(before)[Cardinality(before[x]) + 1] = x
      /\ \A i, j \in 1..n : InOrder(before)[i] = InOrder(before)[j] => i = j
  BY <1>2, InOrderEnumerates
<1> QED BY <1>3 DEF Permutes, S

\* The least and the greatest of finitely many numbers are among them.
LEMMA ExtremesExist ==
    ASSUME NEW S \in SUBSET Nat, IsFiniteSet(S), S # {}
    PROVE  /\ Min(S) \in S /\ \A x \in S : Min(S) <= x
           /\ Max(S) \in S /\ \A x \in S : x <= Max(S)
<1> DEFINE before == [x \in S |-> {y \in S : y < x}]
           n == Cardinality(S)
<1>1. IsOrder(S, before)
  <2>1. before \in [S -> SUBSET S]
    OBVIOUS
  <2>2. \A x, y \in S : x \in before[y] <=> x < y
    OBVIOUS
  <2> HIDE DEF before
  <2> QED BY <2>1, <2>2 DEF IsOrder
<1>2. n \in Nat /\ n # 0
  BY FS_CardinalityType, FS_EmptySet
<1> HIDE DEF before
<1>3. /\ InOrder(before) \in [1..n -> S]
      /\ \A x \in S : /\ Cardinality(before[x]) + 1 \in 1..n
                      /\ InOrder(before)[Cardinality(before[x]) + 1] = x
      /\ \A i, j \in 1..n : InOrder(before)[i] \in before[InOrder(before)[j]] <=> i < j
  BY <1>1, InOrderEnumerates
<1> HIDE DEF n
<1> DEFINE order == InOrder(before)
<1> HIDE DEF order
<1>4. /\ \A k \in 1..n : order[k] \in Nat /\ order[k] \in S
      /\ \A i, j \in 1..n : order[i] < order[j] <=> i < j
  BY <1>3 DEF before, order
<1>5. \E x \in S : \A y \in S : x <= y
  <2>1. 1 \in 1..n
    BY <1>2
  <2>2. \A k \in 1..n : order[1] <= order[k]
    BY <1>2, <1>4, <2>1
  <2>3. \A x \in S : order[1] <= x
    BY <1>3, <2>2 DEF order
  <2> QED BY <1>4, <2>1, <2>3
<1>6. \E x \in S : \A y \in S : x >= y
  <2>1. n \in 1..n
    BY <1>2
  <2>2. \A k \in 1..n : order[n] >= order[k]
    BY <1>2, <1>4, <2>1
  <2>3. \A x \in S : order[n] >= x
    BY <1>3, <2>2 DEF order
  <2> QED BY <1>4, <2>1, <2>3
<1>7. Min(S) \in S /\ \A x \in S : Min(S) <= x
  BY <1>5 DEF Min
<1>8. Max(S) \in S /\ \A x \in S : x <= Max(S)
  BY <1>6 DEF Max
<1> QED BY <1>7, <1>8

(***************************************************************************)
(* Induction.                                                              *)
(***************************************************************************)

\* A set of natural numbers that holds 0 and with every number the next holds
\* them all.
LEMMA EveryNatural ==
    ASSUME NEW S \in SUBSET Nat, 0 \in S, \A n \in S : n + 1 \in S
    PROVE  S = Nat
<1> SUFFICES ASSUME Nat \ S # {}
             PROVE  FALSE
  OBVIOUS
<1> DEFINE less == OpToRel(<, Nat)
<1>1. \A x, y \in Nat : <<x, y>> \in less <=> x < y
  BY DEF OpToRel
<1>2. IsWellFoundedOn(less, Nat)
  BY NatLessThanWellFounded
<1> HIDE DEF less
<1>3. PICK m \in Nat \ S : \A n \in Nat \ S : ~(<<n, m>> \in less)
  BY <1>2, WFMin
<1>4. m # 0 /\ m - 1 \in Nat /\ m - 1 < m
  OBVIOUS
<1>5. m - 1 \in S
  BY <1>1, <1>3, <1>4
<1> QED BY <1>4, <1>5

\* A collection of subsets of a finite set that holds the empty one, and with
\* every one of them the next greater, holds the whole set.
LEMMA EveryFiniteSet ==
    ASSUME NEW S, IsFiniteSet(S), NEW P \in SUBSET (SUBSET S), {} \in P,
           \A T \in P : \A x \in S \ T : T \cup {x} \in P
    PROVE  S \in P
<1> DEFINE sizes == {n \in Nat : \A T \in SUBSET S : Cardinality(T) = n => T \in P}
<1>1. \A T \in SUBSET S : IsFiniteSet(T) /\ Cardinality(T) \in Nat
  BY FS_Subset, FS_CardinalityType
<1>2. 0 \in sizes
  BY <1>1, FS_EmptySet
<1>3. ASSUME NEW n \in sizes
      PROVE  n + 1 \in sizes
  <2> SUFFICES ASSUME NEW T \in SUBSET S, Cardinality(T) = n + 1
               PROVE  T \in P
    OBVIOUS
  <2>1. IsFiniteSet(T) /\ T # {}
    BY <1>1, FS_EmptySet
  <2>2. PICK x \in T : TRUE
    BY <2>1
  <2>3. Cardinality(T \ {x}) = n
    <3>1. Cardinality(T \ {x}) = Cardinality(T) - 1
      BY <2>1, <2>2, FS_RemoveElement
    <3>2. n \in Nat
      OBVIOUS
    <3> QED BY <3>1, <3>2
  <2>4. T \ {x} \in P /\ x \in S \ (T \ {x}) /\ T = (T \ {x}) \cup {x}
    BY <2>2, <2>3
  <2> QED BY <2>4
<1> HIDE DEF sizes
<1>4. sizes = Nat
  BY <1>2, <1>3, EveryNatural DEF sizes
<1>5. Cardinality(S) \in sizes
  BY <1>1, <1>4
<1> QED BY <1>5 DEF sizes

(***************************************************************************)
(* Folds over the subsets of a finite set.                                 *)
(***************************************************************************)

\* What a fold combines the result for the rest of a set with.
First(s) == CHOOSE x \in s : TRUE

\* The results of a fold of numbers, for every subset of S.
IsFold(op, base, S, f) ==
    /\ f \in [SUBSET S -> Nat]
    /\ f[{}] = base
    /\ \A s \in SUBSET S : s # {} => f[s] = op[First(s)][f[s \ {First(s)}]]

\* The element a fold takes first is an element.
LEMMA FirstIsElement == \A s : s # {} => First(s) \in s
BY DEF First

\* Without its first element a set is smaller.
LEMMA RestIsSmaller ==
    ASSUME NEW s, IsFiniteSet(s), s # {}
    PROVE  /\ First(s) \in s
           /\ IsFiniteSet(s \ {First(s)})
           /\ Cardinality(s) \in Nat /\ Cardinality(s) # 0
           /\ Cardinality(s \ {First(s)}) = Cardinality(s) - 1
BY FirstIsElement, FS_RemoveElement, FS_CardinalityType, FS_EmptySet

\* A fold over a finite set exists: there is no least set without one.
LEMMA FoldExists ==
    ASSUME NEW S, IsFiniteSet(S), NEW op \in [S -> [Nat -> Nat]], NEW base \in Nat
    PROVE  \E f : IsFold(op, base, S, f)
<1> DEFINE small(n) == {s \in SUBSET S : Cardinality(s) <= n}
           Folds(n, f) ==
                /\ f \in [small(n) -> Nat]
                /\ f[{}] = base
                /\ \A s \in small(n) : s # {} => f[s] = op[First(s)][f[s \ {First(s)}]]
           sizes == {n \in Nat : \E f : Folds(n, f)}
<1>1. \A s \in SUBSET S : IsFiniteSet(s) /\ Cardinality(s) \in Nat
  BY FS_Subset, FS_CardinalityType
<1>2. Cardinality({}) = 0 /\ \A s \in SUBSET S : Cardinality(s) = 0 => s = {}
  BY <1>1, FS_EmptySet
<1>3. \A s \in SUBSET S : s # {} => /\ First(s) \in S
                                    /\ s \ {First(s)} \in SUBSET S
                                    /\ Cardinality(s \ {First(s)}) = Cardinality(s) - 1
  BY <1>1, RestIsSmaller
<1>4. 0 \in sizes
  <2> DEFINE f == [s \in small(0) |-> base]
  <2>1. \A s \in small(0) : s = {}
    BY <1>1, <1>2
  <2>2. {} \in small(0)
    BY <1>2
  <2>3. Folds(0, f)
    BY <2>1, <2>2
  <2> QED BY <2>3
<1>5. ASSUME NEW n \in sizes
      PROVE  n + 1 \in sizes
  <2>1. n \in Nat /\ n + 1 \in Nat
    OBVIOUS
  <2>2. PICK f : Folds(n, f)
    OBVIOUS
  <2> DEFINE g == [s \in small(n + 1) |->
                    IF s = {} THEN base ELSE op[First(s)][f[s \ {First(s)}]]]
  <2>3. \A s \in small(n + 1) : s # {} => s \ {First(s)} \in small(n)
    <3> SUFFICES ASSUME NEW s \in SUBSET S, Cardinality(s) <= n + 1, s # {}
                 PROVE  /\ s \ {First(s)} \in SUBSET S
                        /\ Cardinality(s \ {First(s)}) <= n
      OBVIOUS
    <3>1. Cardinality(s) \in Nat
      BY <1>1
    <3>2. /\ s \ {First(s)} \in SUBSET S
          /\ Cardinality(s \ {First(s)}) = Cardinality(s) - 1
      BY <1>3
    <3>3. \A k, m \in Nat : k <= m + 1 => k - 1 <= m
      OBVIOUS
    <3> QED BY <2>1, <3>1, <3>2, <3>3
  <2>4. {} \in small(n + 1) /\ {} \in small(n)
    BY <1>2, <2>1
  <2>5. \A s \in small(n) : s \in small(n + 1)
    BY <1>1, <2>1
  <2>6. g \in [small(n + 1) -> Nat]
    <3>1. \A s \in small(n + 1) : s # {} => First(s) \in S /\ f[s \ {First(s)}] \in Nat
      BY <1>3, <2>2, <2>3
    <3> QED BY <3>1
  <2>7. \A s \in small(n) : g[s] = f[s]
    BY <2>2, <2>5
  <2>8. \A s \in small(n + 1) : s # {} => g[s] = op[First(s)][g[s \ {First(s)}]]
    BY <2>3, <2>7
  <2>9. Folds(n + 1, g)
    BY <2>4, <2>6, <2>8
  <2> HIDE DEF g, Folds
  <2> QED BY <2>1, <2>9
<1> HIDE DEF sizes
<1>6. sizes = Nat
  <2>1. sizes \in SUBSET Nat
    BY DEF sizes
  <2> QED BY <1>4, <1>5, <2>1, EveryNatural
<1>7. Cardinality(S) \in sizes
  BY <1>1, <1>6
<1>8. PICK f : Folds(Cardinality(S), f)
  BY <1>7 DEF sizes
<1>9. small(Cardinality(S)) = SUBSET S
  BY FS_Subset
<1> QED BY <1>8, <1>9 DEF IsFold

(***************************************************************************)
(* Sums.                                                                   *)
(***************************************************************************)

\* A function to numbers on a finite set.
IsTally(fun, S) == IsFiniteSet(S) /\ \A x \in S : fun[x] \in Nat

\* What SumFunctionOnSet sums up, one element after another.
IsSum(fun, S, g) ==
    g = [s \in SUBSET S |-> IF s = {} THEN 0 ELSE fun[First(s)] + g[s \ {First(s)}]]

\* The sum of the community module is what some function that unfolds like it
\* yields.
LEMMA SumUnfolds ==
    ASSUME NEW fun, NEW S, \E g : IsSum(fun, S, g)
    PROVE  \E g : IsSum(fun, S, g) /\ SumFunctionOnSet(fun, S) = g[S]
BY DEF IsSum, First, SumFunctionOnSet, FoldFunctionOnSet, MapThenFoldSet

Adding(fun, S) == [x \in S |-> [v \in Nat |-> fun[x] + v]]

\* The sum is the fold with addition.
LEMMA SumIsFold ==
    ASSUME NEW fun, NEW S, IsTally(fun, S), NEW f, IsFold(Adding(fun, S), 0, S, f)
    PROVE  SumFunctionOnSet(fun, S) = f[S]
<1>1. \A s \in SUBSET S :
        /\ IsFiniteSet(s) /\ Cardinality(s) \in Nat
        /\ s # {} => /\ First(s) \in S /\ s \ {First(s)} \in SUBSET S
                     /\ Cardinality(s) # 0
                     /\ Cardinality(s \ {First(s)}) = Cardinality(s) - 1
  BY FS_Subset, FS_CardinalityType, RestIsSmaller DEF IsTally
<1>2. \A s \in SUBSET S : s # {} => f[s] = fun[First(s)] + f[s \ {First(s)}]
  <2> TAKE s \in SUBSET S
  <2> HAVE s # {}
  <2>1. f[s] = Adding(fun, S)[First(s)][f[s \ {First(s)}]]
    BY DEF IsFold
  <2>2. f[s \ {First(s)}] \in Nat /\ First(s) \in S
    BY <1>1 DEF IsFold
  <2> QED BY <2>1, <2>2 DEF Adding
<1>3. IsSum(fun, S, f)
  <2>1. f[{}] = 0 /\ f \in [SUBSET S -> Nat]
    BY DEF IsFold
  <2> QED BY <1>2, <2>1 DEF IsSum
<1>4. PICK g : IsSum(fun, S, g) /\ SumFunctionOnSet(fun, S) = g[S]
  BY <1>3, SumUnfolds
<1>5. /\ g[{}] = 0
      /\ \A s \in SUBSET S : s # {} => g[s] = fun[First(s)] + g[s \ {First(s)}]
  BY <1>4 DEF IsSum
<1> DEFINE sizes == {n \in Nat : \A s \in SUBSET S : Cardinality(s) = n => g[s] = f[s]}
<1>6. 0 \in sizes
  <2>1. \A s \in SUBSET S : Cardinality(s) = 0 => s = {}
    BY <1>1
  <2> QED BY <1>5, <2>1 DEF IsFold
<1>7. ASSUME NEW n \in sizes
      PROVE  n + 1 \in sizes
  <2> SUFFICES ASSUME NEW s \in SUBSET S, Cardinality(s) = n + 1
               PROVE  g[s] = f[s]
    OBVIOUS
  <2>1. n \in Nat /\ s # {}
    BY FS_EmptySet
  <2>2. s \ {First(s)} \in SUBSET S /\ Cardinality(s \ {First(s)}) = n
    BY <1>1, <2>1
  <2>3. g[s \ {First(s)}] = f[s \ {First(s)}]
    BY <2>2
  <2> QED BY <1>2, <1>5, <2>1, <2>3
<1> HIDE DEF sizes
<1>8. sizes = Nat
  <2>1. sizes \in SUBSET Nat
    BY DEF sizes
  <2> QED BY <1>6, <1>7, <2>1, EveryNatural
<1>9. Cardinality(S) \in sizes
  BY <1>1, <1>8
<1> QED BY <1>4, <1>9 DEF sizes

\* A fold of a set is one of each of its subsets.
LEMMA FoldOfSubset ==
    ASSUME NEW S, IsFiniteSet(S), NEW T \in SUBSET S, NEW op, NEW base, NEW f,
           IsFold(op, base, S, f)
    PROVE  IsFold(op, base, T, [s \in SUBSET T |-> f[s]])
<1> DEFINE g == [s \in SUBSET T |-> f[s]]
<1>1. \A s \in SUBSET T : s \in SUBSET S /\ (s # {} => s \ {First(s)} \in SUBSET T)
  OBVIOUS
<1>2. \A s \in SUBSET T : g[s] = f[s] /\ f[s] \in Nat
  BY <1>1 DEF IsFold
<1>3. g \in [SUBSET T -> Nat] /\ g[{}] = base
  BY <1>2 DEF IsFold
<1>4. \A s \in SUBSET T : s # {} => g[s] = op[First(s)][g[s \ {First(s)}]]
  BY <1>1, <1>2 DEF IsFold
<1> QED BY <1>3, <1>4 DEF IsFold

\* The same operation on fewer elements.
LEMMA FoldOfSubTally ==
    ASSUME NEW fun, NEW S, IsTally(fun, S), NEW T \in SUBSET S, NEW f,
           IsFold(Adding(fun, S), 0, S, f)
    PROVE  /\ IsTally(fun, T)
           /\ IsFold(Adding(fun, T), 0, T, [s \in SUBSET T |-> f[s]])
<1>1. IsTally(fun, T)
  BY FS_Subset DEF IsTally
<1> DEFINE g == [s \in SUBSET T |-> f[s]]
<1>2. IsFold(Adding(fun, S), 0, T, g)
  BY FoldOfSubset DEF IsTally
<1> HIDE DEF g
<1>3. ASSUME NEW s \in SUBSET T, s # {}
      PROVE  g[s] = Adding(fun, T)[First(s)][g[s \ {First(s)}]]
  <2>1. g[s] = Adding(fun, S)[First(s)][g[s \ {First(s)}]]
    BY <1>2, <1>3 DEF IsFold
  <2>2. First(s) \in T
    BY <1>3, FirstIsElement
  <2>3. Adding(fun, S)[First(s)] = Adding(fun, T)[First(s)]
    BY <2>2 DEF Adding
  <2> QED BY <2>1, <2>3
<1>4. IsFold(Adding(fun, T), 0, T, g)
  BY <1>2, <1>3 DEF IsFold
<1> QED BY <1>1, <1>4 DEF g

\* What a sum is of no element, and of one element and the rest.
LEMMA SumFacts ==
    ASSUME NEW fun, NEW S, IsTally(fun, S)
    PROVE  /\ SumFunctionOnSet(fun, {}) = 0
           /\ \A T \in SUBSET S : SumFunctionOnSet(fun, T) \in Nat
           /\ \A T \in SUBSET S : T # {} =>
                SumFunctionOnSet(fun, T)
                    = fun[First(T)] + SumFunctionOnSet(fun, T \ {First(T)})
<1>1. PICK f : IsFold(Adding(fun, S), 0, S, f)
  <2>1. Adding(fun, S) \in [S -> [Nat -> Nat]]
    BY DEF Adding, IsTally
  <2> QED BY <2>1, FoldExists DEF IsTally
<1>2. ASSUME NEW T \in SUBSET S
      PROVE  SumFunctionOnSet(fun, T) = f[T]
  <2>1. /\ IsTally(fun, T)
        /\ IsFold(Adding(fun, T), 0, T, [s \in SUBSET T |-> f[s]])
    BY <1>1, FoldOfSubTally
  <2> DEFINE g == [s \in SUBSET T |-> f[s]]
  <2>2. g[T] = f[T]
    OBVIOUS
  <2> HIDE DEF g
  <2>3. SumFunctionOnSet(fun, T) = g[T]
    BY <2>1, SumIsFold DEF g
  <2> QED BY <2>2, <2>3
<1>3. \A T \in SUBSET S : f[T] \in Nat
  BY <1>1 DEF IsFold
<1>4. {} \in SUBSET S /\ f[{}] = 0
  BY <1>1 DEF IsFold
<1>5. ASSUME NEW T \in SUBSET S, T # {}
      PROVE  f[T] = fun[First(T)] + f[T \ {First(T)}]
  <2>1. First(T) \in S /\ T \ {First(T)} \in SUBSET S
    BY <1>5, FirstIsElement
  <2>2. f[T] = Adding(fun, S)[First(T)][f[T \ {First(T)}]]
    BY <1>1, <1>5 DEF IsFold
  <2> QED BY <1>3, <2>1, <2>2 DEF Adding
<1>6. \A T \in SUBSET S : T \ {First(T)} \in SUBSET S
  OBVIOUS
<1> QED BY <1>2, <1>3, <1>4, <1>5, <1>6

\* The order in which elements are added does not matter.
LEMMA SumWith ==
    ASSUME NEW fun, NEW S, IsTally(fun, S), NEW x \in S
    PROVE  SumFunctionOnSet(fun, S) = fun[x] + SumFunctionOnSet(fun, S \ {x})
<1> DEFINE sum(T) == SumFunctionOnSet(fun, T)
           sizes == {n \in Nat : \A T \in SUBSET S : Cardinality(T) = n =>
                                    \A y \in T : sum(T) = fun[y] + sum(T \ {y})}
<1>1. \A T \in SUBSET S : /\ IsFiniteSet(T) /\ Cardinality(T) \in Nat
                          /\ T # {} => First(T) \in T
                          /\ \A y \in T : Cardinality(T \ {y}) = Cardinality(T) - 1
  BY FS_Subset, FS_CardinalityType, FS_RemoveElement, FirstIsElement DEF IsTally
<1>2. /\ \A T \in SUBSET S : sum(T) \in Nat
      /\ \A T \in SUBSET S : T # {} => sum(T) = fun[First(T)] + sum(T \ {First(T)})
  BY SumFacts
<1>3. \A y \in S : fun[y] \in Nat
  BY DEF IsTally
<1> HIDE DEF sum
<1>4. 0 \in sizes
  <2>1. \A T \in SUBSET S : Cardinality(T) = 0 => T = {}
    BY <1>1, FS_EmptySet
  <2> QED BY <2>1
<1>5. ASSUME NEW n \in sizes
      PROVE  n + 1 \in sizes
  <2> SUFFICES ASSUME NEW T \in SUBSET S, Cardinality(T) = n + 1, NEW y \in T
               PROVE  sum(T) = fun[y] + sum(T \ {y})
    OBVIOUS
  <2> DEFINE z == First(T)
  <2>1. z \in T /\ sum(T) = fun[z] + sum(T \ {z})
    BY <1>1, <1>2
  <2> HIDE DEF z
  <2>2. CASE y = z
    BY <2>1, <2>2
  <2>3. CASE y # z
    <3>1. /\ T \ {z} \in SUBSET S /\ y \in T \ {z}
          /\ T \ {y} \in SUBSET S /\ z \in T \ {y}
          /\ (T \ {z}) \ {y} = (T \ {y}) \ {z}
      BY <2>1, <2>3
    <3>2. Cardinality(T \ {z}) = n /\ Cardinality(T \ {y}) = n
      <4>1. n \in Nat
        OBVIOUS
      <4>2. Cardinality(T \ {z}) = Cardinality(T) - 1 /\ Cardinality(T \ {y}) = Cardinality(T) - 1
        BY <1>1, <2>1
      <4> QED BY <4>1, <4>2
    <3>3. /\ sum(T \ {z}) = fun[y] + sum((T \ {z}) \ {y})
          /\ sum(T \ {y}) = fun[z] + sum((T \ {y}) \ {z})
      BY <3>1, <3>2
    <3> DEFINE rest == (T \ {y}) \ {z}
    <3>4. rest \in SUBSET S
      OBVIOUS
    <3> HIDE DEF rest
    <3>5. fun[y] \in Nat /\ fun[z] \in Nat /\ sum(rest) \in Nat
      BY <1>2, <1>3, <2>1, <3>4
    <3>6. sum(T) = fun[z] + (fun[y] + sum(rest)) /\ sum(T \ {y}) = fun[z] + sum(rest)
      BY <2>1, <3>1, <3>3 DEF rest
    <3> QED BY <3>5, <3>6
  <2> QED BY <2>2, <2>3
<1> HIDE DEF sizes
<1>6. sizes = Nat
  <2>1. sizes \in SUBSET Nat
    BY DEF sizes
  <2> QED BY <1>4, <1>5, <2>1, EveryNatural
<1>7. Cardinality(S) \in sizes
  BY <1>1, <1>6
<1> QED BY <1>7 DEF sizes, sum

\* A set with one more element sums up to as much more.
LEMMA SumOfMore ==
    ASSUME NEW fun, NEW S, IsTally(fun, S), NEW T \in SUBSET S, NEW x \in S \ T
    PROVE  SumFunctionOnSet(fun, T \cup {x}) = fun[x] + SumFunctionOnSet(fun, T)
<1> DEFINE U == T \cup {x}
<1>1. IsTally(fun, U)
  BY FS_Subset DEF IsTally
<1>2. x \in U /\ U \ {x} = T
  OBVIOUS
<1> HIDE DEF U
<1>3. SumFunctionOnSet(fun, U) = fun[x] + SumFunctionOnSet(fun, U \ {x})
  BY <1>1, <1>2, SumWith
<1> QED BY <1>2, <1>3 DEF U

\* A sum is at least each of its terms.
LEMMA SumIsAtLeast ==
    ASSUME NEW fun, NEW S, IsTally(fun, S), NEW x \in S
    PROVE  /\ SumFunctionOnSet(fun, S) \in Nat
           /\ fun[x] <= SumFunctionOnSet(fun, S)
<1>1. SumFunctionOnSet(fun, S) = fun[x] + SumFunctionOnSet(fun, S \ {x})
  BY SumWith
<1>2. /\ SumFunctionOnSet(fun, S) \in Nat /\ SumFunctionOnSet(fun, S \ {x}) \in Nat
      /\ fun[x] \in Nat
  BY SumFacts DEF IsTally
<1> QED BY <1>1, <1>2

\* The sum of one element.
LEMMA SumOfOne ==
    ASSUME NEW fun, NEW x, fun[x] \in Nat
    PROVE  SumFunctionOnSet(fun, {x}) = fun[x]
<1>1. IsTally(fun, {x})
  BY FS_Singleton DEF IsTally
<1>2. {x} \ {x} = {} /\ x \in {x}
  OBVIOUS
<1>3. SumFunctionOnSet(fun, {x}) = fun[x] + SumFunctionOnSet(fun, {x} \ {x})
  BY <1>1, <1>2, SumWith
<1>4. SumFunctionOnSet(fun, {}) = 0
  BY <1>1, SumFacts
<1> QED BY <1>2, <1>3, <1>4

\* A term at a time no greater, no greater in sum.
LEMMA SumIsMonotone ==
    ASSUME NEW fun, NEW other, NEW S, IsTally(fun, S), IsTally(other, S),
           \A x \in S : fun[x] <= other[x]
    PROVE  SumFunctionOnSet(fun, S) <= SumFunctionOnSet(other, S)
<1> DEFINE P == {T \in SUBSET S :
                    SumFunctionOnSet(fun, T) <= SumFunctionOnSet(other, T)}
<1>1. /\ SumFunctionOnSet(fun, {}) = 0 /\ SumFunctionOnSet(other, {}) = 0
      /\ \A T \in SUBSET S : /\ SumFunctionOnSet(fun, T) \in Nat
                             /\ SumFunctionOnSet(other, T) \in Nat
  BY SumFacts
<1>2. P \in SUBSET (SUBSET S) /\ {} \in P
  BY <1>1
<1>3. ASSUME NEW T \in P, NEW x \in S \ T
      PROVE  T \cup {x} \in P
  <2>1. /\ SumFunctionOnSet(fun, T \cup {x}) = fun[x] + SumFunctionOnSet(fun, T)
        /\ SumFunctionOnSet(other, T \cup {x}) = other[x] + SumFunctionOnSet(other, T)
    BY SumOfMore
  <2>2. /\ SumFunctionOnSet(fun, T) \in Nat /\ SumFunctionOnSet(other, T) \in Nat
        /\ SumFunctionOnSet(fun, T) <= SumFunctionOnSet(other, T)
        /\ fun[x] \in Nat /\ other[x] \in Nat /\ fun[x] <= other[x]
    BY <1>1 DEF IsTally
  <2>3. SumFunctionOnSet(fun, T \cup {x}) <= SumFunctionOnSet(other, T \cup {x})
    BY <2>1, <2>2
  <2> QED BY <2>3
<1> HIDE DEF P
<1>4. S \in P
  BY <1>2, <1>3, EveryFiniteSet DEF IsTally
<1> QED BY <1>4 DEF P

\* Equal terms have equal sums.
LEMMA SumOfEquals ==
    ASSUME NEW fun, NEW other, NEW S, IsTally(fun, S), \A x \in S : fun[x] = other[x]
    PROVE  SumFunctionOnSet(fun, S) = SumFunctionOnSet(other, S)
<1>1. IsTally(other, S)
  BY DEF IsTally
<1>2. \A x \in S : fun[x] <= other[x] /\ other[x] <= fun[x]
  BY DEF IsTally
<1>3. /\ SumFunctionOnSet(fun, S) <= SumFunctionOnSet(other, S)
      /\ SumFunctionOnSet(other, S) <= SumFunctionOnSet(fun, S)
  BY <1>1, <1>2, SumIsMonotone
<1>4. SumFunctionOnSet(fun, S) \in Nat /\ SumFunctionOnSet(other, S) \in Nat
  BY <1>1, SumFacts
<1> QED BY <1>3, <1>4

\* The same number for some elements and none for the others.
LEMMA SumOfConstant ==
    ASSUME NEW S, NEW A \in SUBSET S, NEW k \in Nat, NEW fun, IsTally(fun, S),
           \A x \in S : fun[x] = IF x \in A THEN k ELSE 0
    PROVE  /\ Cardinality(A) \in Nat
           /\ SumFunctionOnSet(fun, S) = k * Cardinality(A)
<1> DEFINE P == {T \in SUBSET S :
                    SumFunctionOnSet(fun, T) = k * Cardinality(A \cap T)}
<1>1. \A T \in SUBSET S : /\ IsFiniteSet(A \cap T)
                          /\ Cardinality(A \cap T) \in Nat
                          /\ SumFunctionOnSet(fun, T) \in Nat
  BY SumFacts, FS_Subset, FS_CardinalityType DEF IsTally
<1>2. P \in SUBSET (SUBSET S) /\ {} \in P
  <2>1. SumFunctionOnSet(fun, {}) = 0
    BY SumFacts
  <2>2. A \cap {} = {} /\ Cardinality({}) = 0
    BY FS_EmptySet
  <2> QED BY <2>1, <2>2
<1>3. ASSUME NEW T \in P, NEW x \in S \ T
      PROVE  T \cup {x} \in P
  <2>1. SumFunctionOnSet(fun, T \cup {x}) = fun[x] + SumFunctionOnSet(fun, T)
    BY SumOfMore
  <2> DEFINE c == Cardinality(A \cap T)
  <2>2. c \in Nat /\ SumFunctionOnSet(fun, T) = k * c
    BY <1>1
  <2>3. CASE x \in A
    <3>1. A \cap (T \cup {x}) = (A \cap T) \cup {x} /\ x \notin A \cap T
      BY <2>3
    <3>2. Cardinality(A \cap (T \cup {x})) = c + 1
      BY <1>1, <3>1, FS_AddElement
    <3> HIDE DEF c
    <3>3. k * (c + 1) = k + k * c
      BY <2>2
    <3> QED BY <2>1, <2>2, <2>3, <3>2, <3>3
  <2>4. CASE x \notin A
    <3>1. A \cap (T \cup {x}) = A \cap T
      BY <2>4
    <3>2. SumFunctionOnSet(fun, T \cup {x}) = SumFunctionOnSet(fun, T)
      BY <1>1, <2>1, <2>4
    <3> QED BY <2>2, <3>1, <3>2
  <2> QED BY <2>3, <2>4
<1> HIDE DEF P
<1>4. S \in P
  BY <1>2, <1>3, EveryFiniteSet DEF IsTally
<1>5. A \cap S = A
  OBVIOUS
<1> QED BY <1>1, <1>4, <1>5 DEF P

\* A finite set is counted kind by kind.
CountsKinds(fun, kinds, kind, A) ==
    \A c \in kinds : fun[c] = Cardinality({x \in A : kind[x] = c})

\* How many there are of each kind sums up to how many there are.
LEMMA SumOfKinds ==
    ASSUME NEW A, IsFiniteSet(A), NEW kinds, IsFiniteSet(kinds),
           NEW kind, \A x \in A : kind[x] \in kinds, NEW fun,
           CountsKinds(fun, kinds, kind, A)
    PROVE  /\ IsTally(fun, kinds)
           /\ SumFunctionOnSet(fun, kinds) = Cardinality(A)
<1> DEFINE of(T) == {x \in A : kind[x] \in T}
           P == {T \in SUBSET kinds : SumFunctionOnSet(fun, T) = Cardinality(of(T))}
<1> USE DEF CountsKinds
<1>1. \A T : of(T) \in SUBSET A /\ IsFiniteSet(of(T)) /\ Cardinality(of(T)) \in Nat
  BY FS_Subset, FS_CardinalityType
<1>2. IsTally(fun, kinds)
  <2> SUFFICES ASSUME NEW c \in kinds PROVE fun[c] \in Nat
    BY DEF IsTally
  <2>1. {x \in A : kind[x] = c} \in SUBSET A
    OBVIOUS
  <2> QED BY <2>1, FS_Subset, FS_CardinalityType
<1>3. P \in SUBSET (SUBSET kinds) /\ {} \in P
  <2>1. SumFunctionOnSet(fun, {}) = 0
    BY <1>2, SumFacts
  <2>2. of({}) = {} /\ Cardinality({}) = 0
    BY FS_EmptySet
  <2> QED BY <2>1, <2>2
<1>4. ASSUME NEW T \in P, NEW c \in kinds \ T
      PROVE  T \cup {c} \in P
  <2>1. SumFunctionOnSet(fun, T \cup {c}) = fun[c] + SumFunctionOnSet(fun, T)
    BY <1>2, SumOfMore
  <2>2. fun[c] = Cardinality(of({c}))
    <3>1. of({c}) = {x \in A : kind[x] = c}
      OBVIOUS
    <3> QED BY <3>1
  <2>3. of(T \cup {c}) = of(T) \cup of({c}) /\ of(T) \cap of({c}) = {}
    OBVIOUS
  <2>4. SumFunctionOnSet(fun, T) = Cardinality(of(T))
    OBVIOUS
  <2>5. /\ IsFiniteSet(of(T)) /\ IsFiniteSet(of({c}))
        /\ Cardinality(of(T)) \in Nat /\ Cardinality(of({c})) \in Nat
    BY <1>1
  <2> HIDE DEF of, P
  <2>6. Cardinality(of(T) \cup of({c})) = Cardinality(of(T)) + Cardinality(of({c}))
                                            - Cardinality(of(T) \cap of({c}))
    BY <2>5, FS_Union
  <2>7. Cardinality(of(T) \cup of({c})) = Cardinality(of(T)) + Cardinality(of({c}))
    <3>1. Cardinality(of(T) \cap of({c})) = 0
      BY <2>3, FS_EmptySet
    <3>2. \A a, b \in Nat : a + b - 0 = a + b
      OBVIOUS
    <3> QED BY <2>5, <2>6, <3>1, <3>2
  <2>8. SumFunctionOnSet(fun, T \cup {c}) = Cardinality(of(T \cup {c}))
    <3>1. Cardinality(of(T \cup {c})) = Cardinality(of(T)) + Cardinality(of({c}))
      BY <2>3, <2>7
    <3>2. \A a, b \in Nat : a + b = b + a
      OBVIOUS
    <3> QED BY <2>1, <2>2, <2>4, <2>5, <3>1, <3>2
  <2> QED BY <2>8 DEF P
<1>5. of(kinds) = A
  OBVIOUS
<1> HIDE DEF P, of
<1>6. kinds \in P
  BY <1>3, <1>4, EveryFiniteSet
<1> QED BY <1>2, <1>5, <1>6 DEF P

(***************************************************************************)
(* Products.                                                               *)
(***************************************************************************)

IsProduct(S, g) ==
    g = [s \in SUBSET S |-> IF s = {} THEN 1 ELSE First(s) * g[s \ {First(s)}]]

\* The product of the community module is what some function that unfolds like it
\* yields.
LEMMA ProductUnfolds ==
    ASSUME NEW S, \E g : IsProduct(S, g)
    PROVE  \E g : IsProduct(S, g) /\ ProductSet(S) = g[S]
BY DEF IsProduct, First, ProductSet, FoldSet, MapThenFoldSet

Multiplying(S) == [x \in S |-> [v \in Nat |-> x * v]]

\* The product is the fold with multiplication.
LEMMA ProductIsFold ==
    ASSUME NEW S \in SUBSET Nat, IsFiniteSet(S), NEW f, IsFold(Multiplying(S), 1, S, f)
    PROVE  ProductSet(S) = f[S]
<1>1. \A s \in SUBSET S :
        /\ IsFiniteSet(s) /\ Cardinality(s) \in Nat
        /\ s # {} => /\ First(s) \in S /\ s \ {First(s)} \in SUBSET S
                     /\ Cardinality(s) # 0
                     /\ Cardinality(s \ {First(s)}) = Cardinality(s) - 1
  BY FS_Subset, FS_CardinalityType, RestIsSmaller
<1>2. \A s \in SUBSET S : s # {} => f[s] = First(s) * f[s \ {First(s)}]
  <2> TAKE s \in SUBSET S
  <2> HAVE s # {}
  <2>1. f[s] = Multiplying(S)[First(s)][f[s \ {First(s)}]]
    BY DEF IsFold
  <2>2. f[s \ {First(s)}] \in Nat /\ First(s) \in S
    BY <1>1 DEF IsFold
  <2> QED BY <2>1, <2>2 DEF Multiplying
<1>3. IsProduct(S, f)
  <2>1. f[{}] = 1 /\ f \in [SUBSET S -> Nat]
    BY DEF IsFold
  <2> QED BY <1>2, <2>1 DEF IsProduct
<1>4. PICK g : IsProduct(S, g) /\ ProductSet(S) = g[S]
  BY <1>3, ProductUnfolds
<1>5. /\ g[{}] = 1
      /\ \A s \in SUBSET S : s # {} => g[s] = First(s) * g[s \ {First(s)}]
  BY <1>4 DEF IsProduct
<1> DEFINE sizes == {n \in Nat : \A s \in SUBSET S : Cardinality(s) = n => g[s] = f[s]}
<1>6. 0 \in sizes
  <2>1. \A s \in SUBSET S : Cardinality(s) = 0 => s = {}
    BY <1>1
  <2> QED BY <1>5, <2>1 DEF IsFold
<1>7. ASSUME NEW n \in sizes
      PROVE  n + 1 \in sizes
  <2> SUFFICES ASSUME NEW s \in SUBSET S, Cardinality(s) = n + 1
               PROVE  g[s] = f[s]
    OBVIOUS
  <2>1. n \in Nat /\ s # {}
    BY FS_EmptySet
  <2>2. s \ {First(s)} \in SUBSET S /\ Cardinality(s \ {First(s)}) = n
    BY <1>1, <2>1
  <2>3. g[s \ {First(s)}] = f[s \ {First(s)}]
    BY <2>2
  <2>4. g[s] = First(s) * g[s \ {First(s)}] /\ f[s] = First(s) * f[s \ {First(s)}]
    BY <1>2, <1>5, <2>1
  <2> QED BY <2>3, <2>4
<1> HIDE DEF sizes
<1>8. sizes = Nat
  <2>1. sizes \in SUBSET Nat
    BY DEF sizes
  <2> QED BY <1>6, <1>7, <2>1, EveryNatural
<1>9. Cardinality(S) \in sizes
  BY <1>1, <1>8
<1> QED BY <1>4, <1>9 DEF sizes

\* The same operation on fewer factors.
LEMMA FoldOfSubProduct ==
    ASSUME NEW S, IsFiniteSet(S), NEW T \in SUBSET S, NEW f,
           IsFold(Multiplying(S), 1, S, f)
    PROVE  IsFold(Multiplying(T), 1, T, [s \in SUBSET T |-> f[s]])
<1> DEFINE g == [s \in SUBSET T |-> f[s]]
<1>1. IsFold(Multiplying(S), 1, T, g)
  BY FoldOfSubset
<1> HIDE DEF g
<1>2. ASSUME NEW s \in SUBSET T, s # {}
      PROVE  g[s] = Multiplying(T)[First(s)][g[s \ {First(s)}]]
  <2>1. g[s] = Multiplying(S)[First(s)][g[s \ {First(s)}]]
    BY <1>1, <1>2 DEF IsFold
  <2>2. First(s) \in T
    BY <1>2, FirstIsElement
  <2>3. Multiplying(S)[First(s)] = Multiplying(T)[First(s)]
    BY <2>2 DEF Multiplying
  <2> QED BY <2>1, <2>3
<1>3. IsFold(Multiplying(T), 1, T, g)
  BY <1>1, <1>2 DEF IsFold
<1> QED BY <1>3 DEF g

\* What a product is of no element, and of one element and the rest.
LEMMA ProductFacts ==
    ASSUME NEW S \in SUBSET Nat, IsFiniteSet(S)
    PROVE  /\ ProductSet({}) = 1
           /\ \A T \in SUBSET S : ProductSet(T) \in Nat
           /\ \A T \in SUBSET S : T # {} =>
                ProductSet(T) = First(T) * ProductSet(T \ {First(T)})
<1>1. PICK f : IsFold(Multiplying(S), 1, S, f)
  <2>1. Multiplying(S) \in [S -> [Nat -> Nat]]
    BY DEF Multiplying
  <2>2. 1 \in Nat
    OBVIOUS
  <2> QED BY <2>1, <2>2, FoldExists
<1>2. ASSUME NEW T \in SUBSET S
      PROVE  ProductSet(T) = f[T]
  <2> DEFINE g == [s \in SUBSET T |-> f[s]]
  <2>1. /\ T \in SUBSET Nat /\ IsFiniteSet(T)
        /\ IsFold(Multiplying(T), 1, T, [s \in SUBSET T |-> f[s]])
    <3>1. IsFiniteSet(T)
      BY FS_Subset
    <3>2. IsFold(Multiplying(T), 1, T, [s \in SUBSET T |-> f[s]])
      <4>1. IsFiniteSet(S) /\ T \in SUBSET S
        OBVIOUS
      <4> QED BY ONLY <1>1, <4>1, FoldOfSubProduct
    <3> QED BY <3>1, <3>2
  <2>2. g[T] = f[T]
    OBVIOUS
  <2> HIDE DEF g
  <2>3. ProductSet(T) = g[T]
    BY <2>1, ProductIsFold DEF g
  <2> QED BY <2>2, <2>3
<1>3. \A T \in SUBSET S : f[T] \in Nat
  BY <1>1 DEF IsFold
<1>4. {} \in SUBSET S /\ f[{}] = 1
  BY <1>1 DEF IsFold
<1>5. ASSUME NEW T \in SUBSET S, T # {}
      PROVE  f[T] = First(T) * f[T \ {First(T)}]
  <2>1. First(T) \in S /\ T \ {First(T)} \in SUBSET S
    BY <1>5, FirstIsElement
  <2>2. f[T] = Multiplying(S)[First(T)][f[T \ {First(T)}]]
    BY <1>1, <1>5 DEF IsFold
  <2> QED BY <1>3, <2>1, <2>2 DEF Multiplying
<1>6. \A T \in SUBSET S : T \ {First(T)} \in SUBSET S
  OBVIOUS
<1>7. ASSUME NEW T \in SUBSET S, T # {}
      PROVE  ProductSet(T) = First(T) * ProductSet(T \ {First(T)})
  <2>1. ProductSet(T) = f[T] /\ ProductSet(T \ {First(T)}) = f[T \ {First(T)}]
    BY <1>2, <1>6
  <2> QED BY <1>5, <1>7, <2>1
<1>8. /\ ProductSet({}) = 1
      /\ \A T \in SUBSET S : ProductSet(T) \in Nat
  BY <1>2, <1>3, <1>4
<1> QED BY <1>7, <1>8

\* A product is a multiple of each of its factors.
LEMMA ProductWith ==
    ASSUME NEW S \in SUBSET Nat, IsFiniteSet(S), NEW x \in S
    PROVE  ProductSet(S) = x * ProductSet(S \ {x})
<1> DEFINE product(T) == ProductSet(T)
           sizes == {n \in Nat : \A T \in SUBSET S : Cardinality(T) = n =>
                                    \A y \in T : product(T) = y * product(T \ {y})}
<1>1. \A T \in SUBSET S : /\ IsFiniteSet(T) /\ Cardinality(T) \in Nat
                          /\ T # {} => First(T) \in T
                          /\ \A y \in T : Cardinality(T \ {y}) = Cardinality(T) - 1
  BY FS_Subset, FS_CardinalityType, FS_RemoveElement, FirstIsElement
<1>2. /\ \A T \in SUBSET S : product(T) \in Nat
      /\ \A T \in SUBSET S : T # {} => product(T) = First(T) * product(T \ {First(T)})
  BY ProductFacts
<1> HIDE DEF product
<1>3. 0 \in sizes
  <2>1. \A T \in SUBSET S : Cardinality(T) = 0 => T = {}
    BY <1>1, FS_EmptySet
  <2> QED BY <2>1
<1>4. ASSUME NEW n \in sizes
      PROVE  n + 1 \in sizes
  <2> SUFFICES ASSUME NEW T \in SUBSET S, Cardinality(T) = n + 1, NEW y \in T
               PROVE  product(T) = y * product(T \ {y})
    OBVIOUS
  <2> DEFINE z == First(T)
  <2>1. z \in T /\ product(T) = z * product(T \ {z})
    BY <1>1, <1>2
  <2> HIDE DEF z
  <2>2. CASE y = z
    BY <2>1, <2>2
  <2>3. CASE y # z
    <3>1. /\ T \ {z} \in SUBSET S /\ y \in T \ {z}
          /\ T \ {y} \in SUBSET S /\ z \in T \ {y}
          /\ (T \ {z}) \ {y} = (T \ {y}) \ {z}
      BY <2>1, <2>3
    <3>2. Cardinality(T \ {z}) = n /\ Cardinality(T \ {y}) = n
      <4>1. n \in Nat
        OBVIOUS
      <4>2. Cardinality(T \ {z}) = Cardinality(T) - 1 /\ Cardinality(T \ {y}) = Cardinality(T) - 1
        BY <1>1, <2>1
      <4> QED BY <4>1, <4>2
    <3>3. /\ product(T \ {z}) = y * product((T \ {z}) \ {y})
          /\ product(T \ {y}) = z * product((T \ {y}) \ {z})
      BY <3>1, <3>2
    <3> DEFINE rest == (T \ {y}) \ {z}
    <3>4. rest \in SUBSET S
      OBVIOUS
    <3> HIDE DEF rest
    <3>5. y \in Nat /\ z \in Nat /\ product(rest) \in Nat
      BY <1>2, <2>1, <3>4
    <3>6. product(T) = z * (y * product(rest)) /\ product(T \ {y}) = z * product(rest)
      BY <2>1, <3>1, <3>3 DEF rest
    <3>7. \A a, b, c \in Nat : a * (b * c) = b * (a * c)
      OBVIOUS
    <3> QED BY <3>5, <3>6, <3>7
  <2> QED BY <2>2, <2>3
<1> HIDE DEF sizes
<1>5. sizes = Nat
  <2>1. sizes \in SUBSET Nat
    BY DEF sizes
  <2> QED BY <1>3, <1>4, <2>1, EveryNatural
<1>6. Cardinality(S) \in sizes
  BY <1>1, <1>5
<1> QED BY <1>6 DEF sizes, product

\* Positive factors have a positive product, of which each is a divisor.
LEMMA ProductIsDivisible ==
    ASSUME NEW S \in SUBSET (Nat \ {0}), IsFiniteSet(S)
    PROVE  /\ ProductSet(S) \in Nat \ {0}
           /\ \A x \in S : \E q \in Nat \ {0} :
                ProductSet(S) = x * q /\ ProductSet(S) \div x = q
<1> DEFINE P == {T \in SUBSET S : ProductSet(T) # 0}
<1>1. /\ S \in SUBSET Nat /\ ProductSet({}) = 1
      /\ \A T \in SUBSET S : ProductSet(T) \in Nat
  BY ProductFacts
<1>2. P \in SUBSET (SUBSET S) /\ {} \in P
  BY <1>1
<1>3. \A a, b \in Nat \ {0} : a * b # 0
  OBVIOUS
<1>4. ASSUME NEW T \in P, NEW x \in S \ T
      PROVE  T \cup {x} \in P
  <2> DEFINE U == T \cup {x}
  <2>1. U \in SUBSET S /\ U \in SUBSET Nat /\ x \in U /\ U \ {x} = T
    BY <1>1
  <2> HIDE DEF U
  <2>2. ProductSet(U) = x * ProductSet(T)
    <3>1. IsFiniteSet(U)
      BY <2>1, FS_Subset
    <3> QED BY <2>1, <3>1, ProductWith
  <2>3. x \in Nat \ {0} /\ ProductSet(T) \in Nat \ {0}
    BY <1>1
  <2>4. ProductSet(U) # 0
    BY <1>3, <2>2, <2>3
  <2> QED BY <2>4 DEF U
<1> HIDE DEF P
<1>5. S \in P
  BY <1>2, <1>4, EveryFiniteSet
<1>6. ProductSet(S) \in Nat \ {0}
  BY <1>1, <1>5 DEF P
<1>7. ASSUME NEW x \in S
      PROVE  \E q \in Nat \ {0} : ProductSet(S) = x * q /\ ProductSet(S) \div x = q
  <2> DEFINE q == ProductSet(S \ {x})
  <2>1. q \in Nat /\ x \in Nat \ {0}
    BY <1>1
  <2>2. ProductSet(S) = x * q
    BY <1>1, ProductWith
  <2> HIDE DEF q
  <2>3. q # 0
    BY <1>6, <2>1, <2>2
  <2>4. \A a \in Nat \ {0}, b \in Nat : (a * b) \div a = b
    OBVIOUS
  <2> QED BY <2>1, <2>2, <2>3, <2>4
<1> QED BY <1>6, <1>7

(***************************************************************************)
(* Sequences.                                                              *)
(***************************************************************************)

\* A function on 1..n is a sequence of length n.
LEMMA FunctionIsSeq ==
    ASSUME NEW T, NEW n \in Nat, NEW f \in [1..n -> T]
    PROVE  f \in Seq(T) /\ Len(f) = n
<1>1. f \in Seq(T)
  BY SeqDef
<1>2. Len(f) \in Nat /\ 1..n = 1..Len(f)
  BY <1>1, LenProperties
<1>3. \A x, y \in Nat : 1..x = 1..y => x <= y
  <2> SUFFICES ASSUME NEW x \in Nat, NEW y \in Nat, 1..x = 1..y, x > y
               PROVE  FALSE
    OBVIOUS
  <2>1. x \in 1..x /\ x \notin 1..y
    OBVIOUS
  <2> QED BY <2>1
<1>4. n <= Len(f) /\ Len(f) <= n
  BY <1>2, <1>3
<1> QED BY <1>1, <1>2, <1>4

\* A sequence has no more elements than places.
LEMMA RangeIsFinite ==
    ASSUME NEW n \in Nat, NEW s, DOMAIN s = 1..n
    PROVE  /\ IsFiniteSet(Range(s)) /\ Cardinality(Range(s)) \in Nat
           /\ Cardinality(Range(s)) <= n
<1> DEFINE all == Range(s)
           place == [x \in all |-> CHOOSE i \in 1..n : s[i] = x]
<1>1. \A x \in all : place[x] \in 1..n /\ s[place[x]] = x
  BY DEF Range
<1>2. IsFiniteSet(1..n) /\ Cardinality(1..n) = n
  BY FS_Interval
<1> HIDE DEF all
<1>3. place \in Injection(all, 1..n)
  BY <1>1 DEF Injection, IsInjective
<1>4. IsFiniteSet(all) /\ Cardinality(all) <= Cardinality(1..n)
  BY <1>2, <1>3, FS_Injection
<1>5. Cardinality(all) \in Nat
  BY <1>4, FS_CardinalityType
<1> QED BY <1>2, <1>4, <1>5 DEF all

\* All elements of a sequence that are among all of its elements.
LEMMA AmongAll ==
    ASSUME NEW n \in Nat, NEW s, s = [i \in 1..n |-> s[i]], NEW set, Range(s) \subseteq set
    PROVE  Among(s, set) = s
<1> DEFINE places == {i \in DOMAIN s : s[i] \in set}
           before == [i \in places |-> {j \in places : j < i}]
           order == InOrder(before)
<1>1. places = 1..n
  BY DEF Range
<1>2. before = [i \in 1..n |-> {j \in 1..n : j < i}]
  BY <1>1
<1> HIDE DEF before
<1>3. IsOrder(1..n, before)
  <2>1. \A x, y \in 1..n : x \in before[y] <=> x < y
    BY <1>2
  <2>2. before \in [1..n -> SUBSET (1..n)]
    BY <1>2
  <2> QED BY <2>1, <2>2 DEF IsOrder
<1>4. \A i \in 1..n : Cardinality(before[i]) = i - 1
  <2> TAKE i \in 1..n
  <2>1. before[i] = 1..(i - 1)
    BY <1>2
  <2>2. i - 1 \in Int /\ 1 \in Int /\ (1 > i - 1 => i - 1 = 0) /\ i - 1 - 1 + 1 = i - 1
    OBVIOUS
  <2> QED BY <2>1, <2>2, FS_Interval
<1>5. Among(s, set) = [i \in DOMAIN order |-> s[order[i]]]
  BY DEF Among, before
<1> HIDE DEF places, order
<1>6. order \in [1..n -> 1..n]
      /\ \A i \in 1..n : order[Cardinality(before[i]) + 1] = i
  BY <1>3, InOrderPermutes DEF order, Permutes
<1>7. \A i \in 1..n : order[i] = i
  BY <1>4, <1>6
<1> QED BY <1>5, <1>6, <1>7

\* The first m elements of a sequence.
LEMMA PrefixFacts ==
    ASSUME NEW S, NEW s \in Seq(S), NEW m \in Nat, m <= Len(s)
    PROVE  /\ SubSeq(s, 1, m) \in Seq(S) /\ Len(SubSeq(s, 1, m)) = m
           /\ DOMAIN SubSeq(s, 1, m) = 1..m
           /\ \A i \in 1..m : SubSeq(s, 1, m)[i] = s[i]
<1>1. Len(s) \in Nat /\ \A i \in 1..Len(s) : s[i] \in S
  BY LenProperties, ElementOfSeq
<1>2. /\ 1 \in 1..(Len(s) + 1) /\ m \in (1 - 1)..Len(s)
      /\ m - 1 + 1 = m /\ \A i \in 1..m : 1 + i - 1 = i
  BY <1>1
<1>3. \A i \in 1..m : s[i] \in S
  BY <1>1
<1> DEFINE t == SubSeq(s, 1, m)
<1>4. /\ t \in Seq(S) /\ Len(t) = m - 1 + 1
      /\ \A i \in 1..(m - 1 + 1) : t[i] = s[1 + i - 1]
  BY <1>2, <1>3, SubSeqProperties
<1> HIDE DEF t
<1>5. DOMAIN t = 1..m
  BY <1>2, <1>4, LenProperties
<1> QED BY <1>2, <1>4, <1>5 DEF t

\* The smaller of two numbers.
LEMMA MinOfTwo ==
    ASSUME NEW a \in Nat, NEW b \in Nat
    PROVE  /\ Min({a, b}) \in Nat
           /\ Min({a, b}) <= a /\ Min({a, b}) <= b
           /\ Min({a, b}) = a \/ Min({a, b}) = b
<1>1. IsFiniteSet({a, b})
  <2>1. IsFiniteSet({a})
    BY FS_Singleton
  <2>2. IsFiniteSet({a} \cup {b})
    BY <2>1, FS_AddElement
  <2>3. {a, b} = {a} \cup {b}
    OBVIOUS
  <2> QED BY <2>2, <2>3
<1>2. {a, b} \in SUBSET Nat /\ {a, b} # {}
  OBVIOUS
<1>3. Min({a, b}) \in {a, b} /\ \A x \in {a, b} : Min({a, b}) <= x
  BY <1>1, <1>2, ExtremesExist
<1> QED BY <1>3

\* A set of places that holds every place before one of its own is an initial
\* segment.
LEMMA InitialSegment ==
    ASSUME NEW n \in Nat, NEW P \in SUBSET (1..n),
           \A j \in P : \A i \in 1..n : i < j => i \in P
    PROVE  P = 1..Cardinality(P) /\ Cardinality(P) \in 0..n
<1>1. IsFiniteSet(1..n)
  BY FS_Interval
<1>2. IsFiniteSet(P)
  BY <1>1, FS_Subset
<1>3. CASE P = {}
  <2>1. Cardinality(P) = 0 /\ 1..0 = {}
    BY <1>3, FS_EmptySet
  <2> QED BY <1>3, <2>1
<1>4. CASE P # {}
  <2> DEFINE m == Max(P)
  <2>1. P \in SUBSET Nat
    OBVIOUS
  <2>2. m \in P /\ \A x \in P : x <= m
    BY <1>2, <1>4, <2>1, ExtremesExist
  <2> HIDE DEF m
  <2>3. m \in Nat /\ m <= n /\ m >= 1
    BY <2>2
  <2>4. P = 1..m
    <3>1. \A i \in 1..m : i \in P
      <4> TAKE i \in 1..m
      <4>1. i \in 1..n /\ (i = m \/ i < m)
        BY <2>3
      <4> QED BY <2>2, <4>1
    <3>2. \A i \in P : i \in 1..m
      BY <2>2, <2>3
    <3> QED BY <3>1, <3>2
  <2>5. Cardinality(1..m) = m
    BY <2>3, FS_Interval
  <2> QED BY <2>3, <2>4, <2>5
<1> QED BY <1>3, <1>4

\* Some elements of a sequence are a sequence.
LEMMA AmongIsSeq ==
    ASSUME NEW n \in Nat, NEW T, NEW s \in [1..n -> T], NEW set
    PROVE  Among(s, set) \in Seq(T)
<1> DEFINE places == {i \in DOMAIN s : s[i] \in set}
           before == [i \in places |-> {j \in places : j < i}]
           order == InOrder(before)
           m == Cardinality(places)
<1>1. places \in SUBSET (1..n) /\ IsFiniteSet(1..n)
  BY FS_Interval
<1>2. IsFiniteSet(places)
  <2> HIDE DEF places
  <2> QED BY <1>1, FS_Subset
<1>3. Among(s, set) = [i \in DOMAIN order |-> s[order[i]]]
  BY DEF Among
<1> HIDE DEF places
<1>4. before \in [places -> SUBSET places]
  OBVIOUS
<1>5. \A x, y \in places : x \in before[y] <=> x < y
  OBVIOUS
<1> HIDE DEF before
<1>6. \A x, y \in places : x \in Nat /\ y \in Nat
  BY <1>1
<1>7. IsOrder(places, before)
  <2>1. \A x \in places : x \notin before[x]
    BY <1>5, <1>6
  <2>2. \A x, y \in places : x # y => x \in before[y] \/ y \in before[x]
    BY <1>5, <1>6
  <2>3. \A x, y, z \in places : x \in before[y] /\ y \in before[z] => x \in before[z]
    BY <1>5, <1>6
  <2> QED BY <1>4, <2>1, <2>2, <2>3 DEF IsOrder
<1> HIDE DEF order, m
<1>8. m \in Nat /\ order \in [1..m -> places]
  BY <1>2, <1>7, InOrderEnumerates DEF order, m
<1>9. [i \in 1..m |-> s[order[i]]] \in [1..m -> T]
  BY <1>1, <1>8
<1> QED BY <1>3, <1>8, <1>9, FunctionIsSeq
================================================================================
