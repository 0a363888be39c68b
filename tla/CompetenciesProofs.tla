--------------------------- MODULE CompetenciesProofs ---------------------------
(***************************************************************************)
(* For any typed sources and any question: rebuilding the corpus agrees    *)
(* whatever the order in which the sources are listed, what it cites is    *)
(* there exactly once, and what the service answers is what it says.       *)
(***************************************************************************)
EXTENDS CompetenciesProperties, FiniteProofs

(***************************************************************************)
(* Sorting.                                                                *)
(***************************************************************************)

\* Tuples of k numbers are totally ordered as Python orders them.
LEMMA LexicographicIsAnOrder ==
    ASSUME NEW k \in Nat
    PROVE  /\ \A a \in [1..k -> Nat] : ~LexicographicallyLess(a, a)
           /\ \A a, b \in [1..k -> Nat] :
                a # b => LexicographicallyLess(a, b) \/ LexicographicallyLess(b, a)
           /\ \A a, b, c \in [1..k -> Nat] :
                LexicographicallyLess(a, b) /\ LexicographicallyLess(b, c)
                    => LexicographicallyLess(a, c)
<1>1. ASSUME NEW a \in [1..k -> Nat]
      PROVE  ~LexicographicallyLess(a, a)
  BY DEF LexicographicallyLess
<1>2. ASSUME NEW a \in [1..k -> Nat], NEW b \in [1..k -> Nat], a # b
      PROVE  LexicographicallyLess(a, b) \/ LexicographicallyLess(b, a)
  <2> DEFINE D == {i \in 1..k : a[i] # b[i]}
  <2>1. D \in SUBSET Nat /\ D # {} /\ IsFiniteSet(D)
    <3>1. D \in SUBSET (1..k) /\ D \in SUBSET Nat /\ D # {}
      BY <1>2
    <3>2. IsFiniteSet(1..k)
      BY FS_Interval
    <3> HIDE DEF D
    <3> QED BY <3>1, <3>2, FS_Subset
  <2>2. PICK m \in D : \A i \in D : m <= i
    <3> HIDE DEF D
    <3> QED BY <2>1, ExtremesExist
  <2>3. \A j \in 1..(m - 1) : a[j] = b[j]
    BY <2>2
  <2>4. m \in 1..k /\ (a[m] < b[m] \/ b[m] < a[m])
    OBVIOUS
  <2> QED BY <2>3, <2>4 DEF LexicographicallyLess
<1>3. ASSUME NEW a \in [1..k -> Nat], NEW b \in [1..k -> Nat], NEW c \in [1..k -> Nat],
             LexicographicallyLess(a, b), LexicographicallyLess(b, c)
      PROVE  LexicographicallyLess(a, c)
  <2>1. PICK i \in 1..k : a[i] < b[i] /\ \A j \in 1..(i - 1) : a[j] = b[j]
    BY <1>3 DEF LexicographicallyLess
  <2>2. PICK m \in 1..k : b[m] < c[m] /\ \A j \in 1..(m - 1) : b[j] = c[j]
    BY <1>3 DEF LexicographicallyLess
  <2>3. CASE i <= m
    <3>1. a[i] < c[i] /\ \A j \in 1..(i - 1) : a[j] = c[j]
      BY <2>1, <2>2, <2>3
    <3> QED BY <3>1 DEF LexicographicallyLess
  <2>4. CASE m < i
    <3>1. a[m] < c[m] /\ \A j \in 1..(m - 1) : a[j] = c[j]
      BY <2>1, <2>2, <2>4
    <3> QED BY <3>1 DEF LexicographicallyLess
  <2> QED BY <2>3, <2>4
<1> QED BY <1>1, <1>2, <1>3

\* Sorting by keys, equal keys by position, is a total order of the places.
LEMMA SortsBeforeIsAnOrder ==
    ASSUME NEW n \in Nat, NEW k \in Nat, NEW key \in [1..n -> [1..k -> Nat]]
    PROVE  IsOrder(1..n, SortsBefore(key))
<1>1. SortsBefore(key) \in [1..n -> SUBSET (1..n)]
  BY DEF SortsBefore
<1>2. \A i, j \in 1..n : j \in SortsBefore(key)[i]
            <=> \/ LexicographicallyLess(key[j], key[i])
                \/ key[j] = key[i] /\ j < i
  <2> TAKE i, j \in 1..n
  <2> QED BY DOMAIN key = 1..n DEF SortsBefore
<1>3. ASSUME NEW i \in 1..n, NEW j \in 1..n, NEW m \in 1..n
      PROVE  /\ ~LexicographicallyLess(key[i], key[i])
             /\ key[i] # key[j] => \/ LexicographicallyLess(key[i], key[j])
                                  \/ LexicographicallyLess(key[j], key[i])
             /\ LexicographicallyLess(key[i], key[j]) /\ LexicographicallyLess(key[j], key[m])
                    => LexicographicallyLess(key[i], key[m])
  <2>1. /\ key[i] \in [1..k -> Nat]
        /\ key[j] \in [1..k -> Nat]
        /\ key[m] \in [1..k -> Nat]
    OBVIOUS
  <2> QED BY <2>1, LexicographicIsAnOrder
<1>4. \A i \in 1..n : i \notin SortsBefore(key)[i]
  <2> TAKE i \in 1..n
  <2>1. ~(i < i)
    OBVIOUS
  <2> QED BY <1>2, <1>3, <2>1, Zenon
<1>5. \A i, j \in 1..n :
        i # j => i \in SortsBefore(key)[j] \/ j \in SortsBefore(key)[i]
  <2> SUFFICES ASSUME NEW i \in 1..n, NEW j \in 1..n, i # j
               PROVE  i \in SortsBefore(key)[j] \/ j \in SortsBefore(key)[i]
    OBVIOUS
  <2>1. i < j \/ j < i
    OBVIOUS
  <2>2. CASE key[i] = key[j]
    BY <1>2, <2>1, <2>2, Zenon
  <2>3. CASE key[i] # key[j]
    BY <1>2, <1>3, <2>3
  <2> QED BY <2>2, <2>3
<1>6. \A i, j, m \in 1..n :
        i \in SortsBefore(key)[j] /\ j \in SortsBefore(key)[m]
            => i \in SortsBefore(key)[m]
  <2> SUFFICES ASSUME NEW i \in 1..n, NEW j \in 1..n, NEW m \in 1..n,
                      i \in SortsBefore(key)[j], j \in SortsBefore(key)[m]
               PROVE  i \in SortsBefore(key)[m]
    OBVIOUS
  <2>1. i < j /\ j < m => i < m
    OBVIOUS
  <2>2. CASE key[i] = key[j]
    BY <1>2, <2>1, <2>2, Zenon
  <2>3. CASE key[j] = key[m]
    BY <1>2, <2>1, <2>3, Zenon
  <2>4. CASE key[i] # key[j] /\ key[j] # key[m]
    BY <1>2, <1>3, <2>4, Zenon
  <2> QED BY <2>2, <2>3, <2>4
<1> QED BY <1>1, <1>4, <1>5, <1>6 DEF IsOrder

\* t holds the n elements of s in some order.
Rearranged(t, s, n) ==
    /\ t = [i \in 1..n |-> t[i]]
    /\ \E p : Permutes(p, n) /\ \A i \in 1..n : t[i] = s[p[i]]

\* Sorting takes every element once.
LEMMA SortedPermutes ==
    ASSUME NEW n \in Nat, NEW s, DOMAIN s = 1..n,
           NEW k \in Nat, NEW key \in [1..n -> [1..k -> Nat]]
    PROVE  Rearranged(Sorted(s, key), s, n)
<1> DEFINE before == SortsBefore(key)
           p == InOrder(before)
<1>1. IsFiniteSet(1..n) /\ Cardinality(1..n) = n
  BY FS_Interval
<1>2. IsOrder(1..n, before)
  BY SortsBeforeIsAnOrder
<1>3. Sorted(s, key) = [i \in 1..n |-> s[p[i]]]
  BY DEF Sorted, SortsBefore
<1> HIDE DEF before
<1>4. Permutes(p, n)
  BY <1>1, <1>2, InOrderPermutes
<1> HIDE DEF p
<1> QED BY <1>3, <1>4 DEF Rearranged

\* So it does when every key is one number.
LEMMA SortedByNumberPermutes ==
    ASSUME NEW n \in Nat, NEW s, DOMAIN s = 1..n, NEW key, DOMAIN key = 1..n,
           NEW id \in [1..n -> Nat], \A i \in 1..n : key[i] = <<id[i]>>,
           key = [i \in 1..n |-> key[i]]
    PROVE  Rearranged(Sorted(s, key), s, n)
<1> DEFINE k == 1
<1>1. \A i \in 1..n : <<id[i]>> \in [1..k -> Nat]
  OBVIOUS
<1>2. k \in Nat
  OBVIOUS
<1> HIDE DEF k
<1>3. key \in [1..n -> [1..k -> Nat]]
  BY <1>1
<1> QED BY <1>2, <1>3, SortedPermutes

\* t and its keys are s and its keys, of k numbers each and no two alike,
\* rearranged by p.
ListedOtherwise(n, k, p, s, key, t, other) ==
    /\ n \in Nat /\ k \in Nat /\ Permutes(p, n)
    /\ DOMAIN s = 1..n /\ key \in [1..n -> [1..k -> Nat]]
    /\ DOMAIN t = 1..n /\ other \in [1..n -> [1..k -> Nat]]
    /\ \A i \in 1..n : t[i] = s[p[i]] /\ other[i] = key[p[i]]
    /\ \A i, j \in 1..n : key[i] = key[j] => i = j

\* Then they are sorted alike.
LEMMA SortedForgetsTheOrder ==
    ASSUME NEW n, NEW k, NEW p, NEW s, NEW key, NEW t, NEW other,
           ListedOtherwise(n, k, p, s, key, t, other)
    PROVE  Sorted(t, other) = Sorted(s, key)
<1> DEFINE before == SortsBefore(key)
           beforeT == SortsBefore(other)
           order == InOrder(before)
           orderT == InOrder(beforeT)
<1> SUFFICES ASSUME n \in Nat, k \in Nat, Permutes(p, n),
                    DOMAIN s = 1..n, key \in [1..n -> [1..k -> Nat]],
                    DOMAIN t = 1..n, other \in [1..n -> [1..k -> Nat]],
                    \A i \in 1..n : t[i] = s[p[i]] /\ other[i] = key[p[i]],
                    \A i, j \in 1..n : key[i] = key[j] => i = j
             PROVE  Sorted(t, other) = Sorted(s, key)
  BY DEF ListedOtherwise
<1>1. IsFiniteSet(1..n)
  <2>1. n \in Int
    OBVIOUS
  <2> QED BY ONLY <2>1, FS_Interval
<1>2. IsOrder(1..n, before) /\ IsOrder(1..n, beforeT)
  BY SortsBeforeIsAnOrder
<1>3. /\ Sorted(s, key) = [i \in 1..n |-> s[order[i]]]
      /\ Sorted(t, other) = [i \in 1..n |-> t[orderT[i]]]
  BY DEF Sorted, SortsBefore
<1>4. /\ order \in [1..n -> 1..n] /\ orderT \in [1..n -> 1..n]
      /\ \A i \in 1..n : /\ Cardinality(before[i]) + 1 \in 1..n
                         /\ order[Cardinality(before[i]) + 1] = i
      /\ \A i \in 1..n : /\ Cardinality(beforeT[i]) + 1 \in 1..n
                         /\ orderT[Cardinality(beforeT[i]) + 1] = i
      /\ \A i, j \in 1..n : orderT[i] = orderT[j] => i = j
  <2> HIDE DEF before, beforeT
  <2>1. Permutes(order, n) /\ Permutes(orderT, n)
    BY <1>2, InOrderPermutes
  <2>2. \A i \in 1..n : /\ Cardinality(before[i]) + 1 \in 1..n
                       /\ order[Cardinality(before[i]) + 1] = i
    BY <1>2, InOrderPermutes
  <2>3. \A i \in 1..n : /\ Cardinality(beforeT[i]) + 1 \in 1..n
                       /\ orderT[Cardinality(beforeT[i]) + 1] = i
    BY <1>2, InOrderPermutes
  <2> HIDE DEF order, orderT
  <2> QED BY <2>1, <2>2, <2>3 DEF Permutes
<1>5. ASSUME NEW i \in 1..n
      PROVE  Cardinality(beforeT[i]) = Cardinality(before[p[i]])
  <2> DEFINE f == [j \in beforeT[i] |-> p[j]]
  <2>1. p[i] \in 1..n
    BY DEF Permutes
  <2>2. beforeT[i] \in SUBSET (1..n) /\ before[p[i]] \in SUBSET (1..n)
    BY <2>1 DEF SortsBefore
  <2>3. \A j \in 1..n : j \in beforeT[i] <=> p[j] \in before[p[i]]
    <3> TAKE j \in 1..n
    <3>1. p[j] \in 1..n /\ (p[i] = p[j] => i = j)
      BY DEF Permutes
    <3>2. j \in beforeT[i] <=> \/ LexicographicallyLess(key[p[j]], key[p[i]])
                               \/ key[p[j]] = key[p[i]] /\ j < i
      BY DEF SortsBefore
    <3>3. p[j] \in before[p[i]] <=> \/ LexicographicallyLess(key[p[j]], key[p[i]])
                                    \/ key[p[j]] = key[p[i]] /\ p[j] < p[i]
      BY <2>1, <3>1 DEF SortsBefore
    <3>4. key[p[j]] = key[p[i]] => i = j
      BY <2>1, <3>1
    <3>5. ~(i < i) /\ ~(p[i] < p[i])
      BY <2>1
    <3> QED BY <3>2, <3>3, <3>4, <3>5, Zenon
  <2> HIDE DEF before, beforeT
  <2>4. f \in [beforeT[i] -> before[p[i]]]
    BY <2>2, <2>3
  <2>5. \A x, y \in beforeT[i] : f[x] = f[y] => x = y
    BY <2>2 DEF Permutes
  <2>6. \A y \in before[p[i]] : \E x \in beforeT[i] : f[x] = y
    BY <2>2, <2>3 DEF Permutes
  <2>7. IsFiniteSet(beforeT[i])
    BY <1>1, <2>2, FS_Subset
  <2> HIDE DEF f
  <2>8. f \in Bijection(beforeT[i], before[p[i]])
    BY <2>4, <2>5, <2>6 DEF Bijection, Injection, Surjection, IsInjective
  <2> QED BY <2>7, <2>8, FS_Bijection DEF ExistsBijection
<1>6. ASSUME NEW m \in 1..n
      PROVE  t[orderT[m]] = s[order[m]]
  <2> HIDE DEF before, beforeT, order, orderT
  <2> DEFINE i == orderT[m]
  <2>1. i \in 1..n /\ p[i] \in 1..n
    BY <1>4 DEF Permutes
  <2> HIDE DEF i
  <2>2. Cardinality(beforeT[i]) + 1 \in 1..n /\ orderT[Cardinality(beforeT[i]) + 1] = orderT[m]
    BY <1>4, <2>1 DEF i
  <2>3. Cardinality(beforeT[i]) + 1 = m
    BY <1>4, <2>2
  <2>4. order[m] = p[i]
    BY <1>4, <1>5, <2>1, <2>3
  <2> QED BY <2>1, <2>4 DEF i
<1> QED BY <1>3, <1>6

\* Such keys of one number each, which is id[i] for s[i].
ListedByNumber(n, p, id, s, key, t, other) ==
    /\ n \in Nat /\ Permutes(p, n) /\ id \in [1..n -> Nat]
    /\ \A i, j \in 1..n : id[i] = id[j] => i = j
    /\ DOMAIN s = 1..n /\ key = [i \in 1..n |-> <<id[i]>>]
    /\ DOMAIN t = 1..n /\ other = [i \in 1..n |-> <<id[p[i]]>>]
    /\ \A i \in 1..n : t[i] = s[p[i]]

\* The same for keys that are single numbers.
LEMMA SortedByNumberForgetsTheOrder ==
    ASSUME NEW n, NEW p, NEW id, NEW s, NEW key, NEW t, NEW other,
           ListedByNumber(n, p, id, s, key, t, other)
    PROVE  Sorted(t, other) = Sorted(s, key)
<1> SUFFICES ASSUME n \in Nat, Permutes(p, n), id \in [1..n -> Nat],
                    \A i, j \in 1..n : id[i] = id[j] => i = j,
                    DOMAIN s = 1..n, key = [i \in 1..n |-> <<id[i]>>],
                    DOMAIN t = 1..n, other = [i \in 1..n |-> <<id[p[i]]>>],
                    \A i \in 1..n : t[i] = s[p[i]]
             PROVE  Sorted(t, other) = Sorted(s, key)
  BY DEF ListedByNumber
<1> DEFINE k == 1
<1>1. \A i \in 1..n : <<id[i]>> \in [1..k -> Nat]
  OBVIOUS
<1>2. k \in Nat
  OBVIOUS
<1> HIDE DEF k
<1>3. \A i \in 1..n : p[i] \in 1..n
  BY DEF Permutes
<1>4. key \in [1..n -> [1..k -> Nat]] /\ other \in [1..n -> [1..k -> Nat]]
  BY <1>1, <1>3
<1>5. /\ \A i, j \in 1..n : key[i] = key[j] => i = j
      /\ \A i \in 1..n : t[i] = s[p[i]] /\ other[i] = key[p[i]]
  BY <1>3
<1>6. ListedOtherwise(n, k, p, s, key, t, other)
  BY <1>2, <1>4, <1>5 DEF ListedOtherwise
<1> QED BY <1>6, SortedForgetsTheOrder

(***************************************************************************)
(* What is built from one source.                                          *)
(***************************************************************************)

\* Values that are counted once each are different.
LEMMA CountedOnce ==
    ASSUME NEW n \in Nat, NEW f, f = [i \in 1..n |-> f[i]],
           Cardinality({f[i] : i \in 1..n}) = n
    PROVE  \A i, j \in 1..n : f[i] = f[j] => i = j
<1> DEFINE T == {f[i] : i \in 1..n}
<1>1. IsFiniteSet(1..n) /\ Cardinality(1..n) = n
  BY FS_Interval
<1>2. f \in [1..n -> T] /\ \A y \in T : \E i \in 1..n : f[i] = y
  OBVIOUS
<1>3. Cardinality(T) = n
  OBVIOUS
<1> HIDE DEF T
<1>4. f \in Surjection(1..n, T)
  BY <1>2 DEF Surjection
<1>5. f \in Injection(1..n, T)
  BY <1>1, <1>3, <1>4, FS_SurjSameCardinalityImpliesInj
<1> QED BY <1>2, <1>5 DEF Injection, IsInjective

\* The length of what is defined as a function on 1..n.
LEMMA LengthOfFunction ==
    ASSUME NEW n \in Nat, NEW s, s = [i \in 1..n |-> s[i]]
    PROVE  DOMAIN s = 1..n /\ Len(s) = n
<1> DEFINE T == {s[i] : i \in 1..n}
<1>1. DOMAIN s = 1..n /\ s \in [1..n -> T]
  OBVIOUS
<1> HIDE DEF T
<1>2. s \in Seq(T)
  BY <1>1, SeqDef
<1> QED BY <1>1, <1>2, LenProperties

\* The parsed documents are the documents of the manifest's paths.
LEMMA ParsedFacts ==
    ASSUME NEW s, IsSource(s)
    PROVE  LET n == Len(s.manifest) IN
           /\ n \in Nat /\ DOMAIN s.manifest = 1..n
           /\ \A i \in 1..n : s.manifest[i] \in DOMAIN s.files
           /\ Rearranged(PathOrder(s), s.manifest, n)
           /\ Parsed(s) = [i \in 1..n |-> s.files[PathOrder(s)[i]]]
<1> DEFINE n == Len(s.manifest)
           key == [i \in DOMAIN s.manifest |-> <<s.manifest[i]>>]
<1>1. /\ n \in Nat /\ DOMAIN s.manifest = 1..n
      /\ \A i \in 1..n : s.manifest[i] \in DOMAIN s.files
  <2>1. s.manifest \in Seq(DOMAIN s.files)
    BY DEF IsSource
  <2> QED BY <2>1, LenProperties, ElementOfSeq
<1> HIDE DEF n
<1> DEFINE id == [i \in 1..n |-> s.manifest[i]]
<1>2. /\ key = [i \in 1..n |-> key[i]] /\ DOMAIN key = 1..n
      /\ id \in [1..n -> Nat] /\ \A i \in 1..n : key[i] = <<id[i]>>
  BY <1>1 DEF IsSource
<1> HIDE DEF id
<1>3. PathOrder(s) = Sorted(s.manifest, key)
  BY DEF PathOrder
<1> HIDE DEF key
<1>4. Rearranged(PathOrder(s), s.manifest, n)
  BY <1>1, <1>2, <1>3, SortedByNumberPermutes
<1>5. Parsed(s) = [i \in 1..n |-> s.files[PathOrder(s)[i]]]
  BY <1>4 DEF Parsed, Rearranged
<1> QED BY <1>1, <1>4, <1>5 DEF n

\* The documents of the corpus are the parsed ones.
LEMMA DocumentsFacts ==
    ASSUME NEW s, IsSource(s)
    PROVE  LET n == Len(s.manifest) IN
           /\ n \in Nat /\ Parsed(s) = [i \in 1..n |-> Parsed(s)[i]]
           /\ \A i \in 1..n : /\ Parsed(s)[i] \in SourceDocuments
                             /\ \E p \in DOMAIN s.files : Parsed(s)[i] = s.files[p]
           /\ Rearranged(Assembled(s).documents, Parsed(s), n)
<1> DEFINE n == Len(s.manifest)
           parsed == Parsed(s)
           key == [i \in DOMAIN parsed |-> <<parsed[i].document_id>>]
<1>1. /\ n \in Nat /\ parsed = [i \in 1..n |-> parsed[i]]
      /\ \A i \in 1..n : \E p \in DOMAIN s.files : parsed[i] = s.files[p]
  <2>1. /\ n \in Nat
        /\ \A i \in 1..n : s.manifest[i] \in DOMAIN s.files
        /\ Rearranged(PathOrder(s), s.manifest, n)
        /\ parsed = [i \in 1..n |-> s.files[PathOrder(s)[i]]]
    BY ParsedFacts
  <2>2. \A i \in 1..n : PathOrder(s)[i] \in DOMAIN s.files
    BY <2>1 DEF Rearranged, Permutes
  <2> HIDE DEF n, parsed
  <2> QED BY <2>1, <2>2
<1>2. DOMAIN parsed = 1..n
  BY <1>1
<1>3. \A i \in 1..n : parsed[i] \in SourceDocuments
  BY <1>1 DEF IsSource
<1>4. Assembled(s).documents = Sorted(parsed, key)
  BY DEF Assembled
<1> HIDE DEF parsed, n
<1> DEFINE id == [i \in 1..n |-> parsed[i].document_id]
<1>5. /\ key = [i \in 1..n |-> key[i]] /\ DOMAIN key = 1..n
      /\ id \in [1..n -> Nat] /\ \A i \in 1..n : key[i] = <<id[i]>>
  BY <1>2, <1>3 DEF SourceDocuments
<1> HIDE DEF id, key
<1>6. Rearranged(Assembled(s).documents, parsed, n)
  BY <1>1, <1>2, <1>4, <1>5, SortedByNumberPermutes
<1> QED BY <1>1, <1>3, <1>6 DEF n, parsed

\* The clauses come in the order of the documents and of the text.
LEMMA ClauseOrderFacts ==
    ASSUME NEW n \in Nat, NEW documents, documents = [i \in 1..n |-> documents[i]],
           \A i \in 1..n : documents[i].items \in Seq(Items)
    PROVE  LET order == ClauseOrder(documents)
               m == Len(Clauses(documents)) IN
           /\ m \in Nat /\ DOMAIN Clauses(documents) = 1..m
           /\ \A k \in 1..m :
                /\ order[k][1] \in 1..n
                /\ order[k][2] \in ClausePlaces(documents[order[k][1]].items)
                /\ Clauses(documents)[k] = ClauseAt(documents[order[k][1]], order[k][2])
           /\ \A i, j \in 1..m :
                i < j => \/ order[i][1] < order[j][1]
                         \/ order[i][1] = order[j][1] /\ order[i][2] < order[j][2]
<1> DEFINE row(i) == {i} \X ClausePlaces(documents[i].items)
           rows == [i \in 1..n |-> row(i)]
           R == {row(i) : i \in 1..n}
           places == UNION R
           before == [q \in places |-> {r \in places : LexicographicallyLess(r, q)}]
           m == Cardinality(places)
           order == ClauseOrder(documents)
<1>1. DOMAIN documents = 1..n
  OBVIOUS
<1>2. order = InOrder(before)
  BY <1>1 DEF ClauseOrder
<1>3. ASSUME NEW i \in 1..n
      PROVE  /\ ClausePlaces(documents[i].items) \in SUBSET Nat
             /\ IsFiniteSet(row(i))
  <2>1. PICK k \in Nat : DOMAIN documents[i].items = 1..k
    BY LenProperties
  <2>2. ClausePlaces(documents[i].items) \in SUBSET (1..k)
    BY <2>1 DEF ClausePlaces
  <2>3. IsFiniteSet(1..k) /\ IsFiniteSet({i})
    <3>1. IsFiniteSet(1..k)
      BY FS_Interval
    <3>2. IsFiniteSet({i})
      BY FS_Singleton
    <3> QED BY <3>1, <3>2
  <2>4. IsFiniteSet(ClausePlaces(documents[i].items))
    BY <2>2, <2>3, FS_Subset
  <2>5. IsFiniteSet(row(i))
    BY <2>3, <2>4, FS_Product
  <2> QED BY <2>2, <2>5
<1>4. IsFiniteSet(places)
  <2>1. IsFiniteSet(1..n)
    BY FS_Interval
  <2>2. rows \in [1..n -> R] /\ \A r \in R : \E i \in 1..n : rows[i] = r
    OBVIOUS
  <2>3. \A r \in R : IsFiniteSet(r)
    BY <1>3
  <2> HIDE DEF rows, R
  <2>4. rows \in Surjection(1..n, R)
    BY <2>2 DEF Surjection
  <2>5. IsFiniteSet(R)
    BY <2>1, <2>4, FS_Surjection
  <2> QED BY <2>3, <2>5, FS_UNION
<1>5. \A q \in places : /\ q \in Nat \X Nat /\ q[1] \in 1..n
                        /\ q[2] \in ClausePlaces(documents[q[1]].items)
  <2> SUFFICES ASSUME NEW i \in 1..n, NEW q \in row(i)
               PROVE  /\ q \in Nat \X Nat /\ q[1] \in 1..n
                      /\ q[2] \in ClausePlaces(documents[q[1]].items)
    OBVIOUS
  <2>1. ClausePlaces(documents[i].items) \in SUBSET Nat
    BY <1>3
  <2>2. q = <<q[1], q[2]>> /\ q[1] = i /\ q[2] \in ClausePlaces(documents[i].items)
    OBVIOUS
  <2> QED BY <2>1, <2>2
<1> HIDE DEF places, order
<1>6. /\ \A q \in places : ~LexicographicallyLess(q, q)
      /\ \A q, r \in places :
            q # r => LexicographicallyLess(q, r) \/ LexicographicallyLess(r, q)
      /\ \A q, r, t \in places :
            LexicographicallyLess(q, r) /\ LexicographicallyLess(r, t)
                => LexicographicallyLess(q, t)
  <2> DEFINE k == 2
  <2>1. k \in Nat /\ \A q \in places : q \in [1..k -> Nat]
    BY <1>5
  <2> HIDE DEF k
  <2> QED BY <2>1, LexicographicIsAnOrder
<1>7. IsOrder(places, before)
  BY <1>6 DEF IsOrder
<1> HIDE DEF before
<1>8. /\ m \in Nat /\ order \in [1..m -> places]
      /\ \A i, j \in 1..m : order[i] \in before[order[j]] <=> i < j
  BY <1>2, <1>4, <1>7, InOrderEnumerates
<1> HIDE DEF m
<1>9. Clauses(documents) = [k \in 1..m |-> ClauseAt(documents[order[k][1]], order[k][2])]
  BY <1>8 DEF Clauses, order
<1>10. DOMAIN Clauses(documents) = 1..m /\ Len(Clauses(documents)) = m
  BY <1>8, <1>9, LengthOfFunction
<1>11. ASSUME NEW i \in 1..m, NEW j \in 1..m, i < j
       PROVE  \/ order[i][1] < order[j][1]
              \/ order[i][1] = order[j][1] /\ order[i][2] < order[j][2]
  <2>1. order[i] \in places /\ order[j] \in places /\ LexicographicallyLess(order[i], order[j])
    BY <1>8, <1>11 DEF before
  <2>2. order[i] \in Nat \X Nat /\ order[j] \in Nat \X Nat
    BY <1>5, <2>1
  <2>3. PICK l \in 1..2 : /\ order[i][l] < order[j][l]
                          /\ \A h \in 1..(l - 1) : order[i][h] = order[j][h]
    BY <2>1, <2>2 DEF LexicographicallyLess
  <2> QED BY <2>2, <2>3
<1> QED BY <1>5, <1>8, <1>9, <1>10, <1>11 DEF order

\* What BuildCorpus has checked of a corpus it does not reject.
LEMMA BuiltFacts ==
    ASSUME NEW s, BuildCorpus(s) # Rejected
    PROVE  /\ BuildCorpus(s) = Assembled(s)
           /\ Accepted(s) /\ NamesAreKnown(Assembled(s)) /\ NothingIsTwice(Assembled(s))
BY DEF BuildCorpus

\* No two records of a sequence that passed _reject_duplicates share an id.
LEMMA RecordsDiffer ==
    ASSUME NEW n \in Nat, NEW records, records = [i \in 1..n |-> records[i]]
    PROVE  /\ Unique(records, DocumentId) =>
                \A i, j \in 1..n : records[i].document_id = records[j].document_id => i = j
           /\ Unique(records, ClauseId) =>
                \A i, j \in 1..n : records[i].clause_id = records[j].clause_id => i = j
           /\ Unique(records, EntityId) =>
                \A i, j \in 1..n : records[i].entity_id = records[j].entity_id => i = j
<1>1. DOMAIN records = 1..n /\ Len(records) = n
  BY LengthOfFunction
<1>2. ASSUME Unique(records, DocumentId), NEW i \in 1..n, NEW j \in 1..n,
             records[i].document_id = records[j].document_id
      PROVE  i = j
  <2> DEFINE id == [l \in 1..n |-> records[l].document_id]
  <2>1. {id[l] : l \in 1..n} = Ids(records, DocumentId)
    BY <1>1 DEF Ids, DocumentId
  <2>2. Cardinality({id[l] : l \in 1..n}) = n /\ id = [l \in 1..n |-> id[l]]
    BY <1>1, <1>2, <2>1 DEF Unique
  <2>3. id[i] = id[j]
    BY <1>2
  <2> HIDE DEF id
  <2> QED BY <2>2, <2>3, CountedOnce
<1>3. ASSUME Unique(records, ClauseId), NEW i \in 1..n, NEW j \in 1..n,
             records[i].clause_id = records[j].clause_id
      PROVE  i = j
  <2> DEFINE id == [l \in 1..n |-> records[l].clause_id]
  <2>1. {id[l] : l \in 1..n} = Ids(records, ClauseId)
    BY <1>1 DEF Ids, ClauseId
  <2>2. Cardinality({id[l] : l \in 1..n}) = n /\ id = [l \in 1..n |-> id[l]]
    BY <1>1, <1>3, <2>1 DEF Unique
  <2>3. id[i] = id[j]
    BY <1>3
  <2> HIDE DEF id
  <2> QED BY <2>2, <2>3, CountedOnce
<1>4. ASSUME Unique(records, EntityId), NEW i \in 1..n, NEW j \in 1..n,
             records[i].entity_id = records[j].entity_id
      PROVE  i = j
  <2> DEFINE id == [l \in 1..n |-> records[l].entity_id]
  <2>1. {id[l] : l \in 1..n} = Ids(records, EntityId)
    BY <1>1 DEF Ids, EntityId
  <2>2. Cardinality({id[l] : l \in 1..n}) = n /\ id = [l \in 1..n |-> id[l]]
    BY <1>1, <1>4, <2>1 DEF Unique
  <2>3. id[i] = id[j]
    BY <1>4
  <2> HIDE DEF id
  <2> QED BY <2>2, <2>3, CountedOnce
<1> QED BY <1>2, <1>3, <1>4

\* A list with as many elements as places has no element twice.
LEMMA TriplesDiffer ==
    ASSUME NEW n \in Nat, NEW records, records = [i \in 1..n |-> records[i]],
           Cardinality(Range(records)) = Len(records)
    PROVE  \A i, j \in 1..n : records[i] = records[j] => i = j
<1>1. DOMAIN records = 1..n /\ Len(records) = n
  BY LengthOfFunction
<1>2. {records[i] : i \in 1..n} = Range(records)
  BY <1>1 DEF Range
<1> QED BY <1>1, <1>2, CountedOnce

\* Rearranging loses no element.
LEMMA RearrangedHasTheElements ==
    ASSUME NEW n \in Nat, NEW s, NEW t, Rearranged(t, s, n)
    PROVE  /\ \A i \in 1..n : \E j \in 1..n : t[j] = s[i]
           /\ \A i \in 1..n : \E j \in 1..n : t[i] = s[j]
<1>1. PICK p : Permutes(p, n) /\ \A i \in 1..n : t[i] = s[p[i]]
  BY DEF Rearranged
<1>2. /\ \A i \in 1..n : p[i] \in 1..n
      /\ \A j \in 1..n : \E i \in 1..n : p[i] = j
  BY <1>1 DEF Permutes
<1> QED BY <1>1, <1>2

\* What is different in one order is different in another.
LEMMA DifferentInAnyOrder ==
    ASSUME NEW n \in Nat, NEW p, Permutes(p, n), NEW f, NEW g,
           \A i \in 1..n : f[i] = g[p[i]],
           \A i, j \in 1..n : f[i] = f[j] => i = j
    PROVE  \A i, j \in 1..n : g[i] = g[j] => i = j
<1> SUFFICES ASSUME NEW i \in 1..n, NEW j \in 1..n, g[i] = g[j]
             PROVE  i = j
  OBVIOUS
<1>1. PICK k \in 1..n, l \in 1..n : p[k] = i /\ p[l] = j
  BY DEF Permutes
<1> QED BY <1>1

\* A clause of a well-formed document lies on the page of the last marker
\* before it.
LEMMA LastMarker ==
    ASSUME NEW document \in SourceDocuments, WellFormed(document),
           NEW i \in ClausePlaces(document.items)
    PROVE  LET items == document.items IN
           /\ Max(Preceding(items, i)) \in Markers(items)
           /\ Max(Preceding(items, i)) < i
           /\ \A k \in Markers(items) : k < i => k <= Max(Preceding(items, i))
           /\ PageNumber(document, i) = items[Max(Preceding(items, i))].id
<1> DEFINE items == document.items
           P == Preceding(items, i)
<1>1. PICK k \in Nat : DOMAIN items = 1..k
  BY LenProperties DEF SourceDocuments
<1>2. P \in SUBSET (1..k) /\ P \in SUBSET Nat /\ P # {}
  BY <1>1 DEF WellFormed, Preceding, Markers
<1>3. IsFiniteSet(P)
  <2>1. IsFiniteSet(1..k)
    BY FS_Interval
  <2> HIDE DEF P
  <2> QED BY <1>2, <2>1, FS_Subset
<1>4. Max(P) \in P /\ \A x \in P : x <= Max(P)
  <2> HIDE DEF P
  <2> QED BY <1>2, <1>3, ExtremesExist
<1>5. \A k_1 \in Markers(items) : k_1 < i => k_1 \in P
  BY DEF Preceding
<1> QED BY <1>4, <1>5 DEF Preceding, PageNumber

\* Where the clauses of a corpus come from.
LEMMA ClausesComeFromDocuments ==
    ASSUME NEW s, IsSource(s), BuildCorpus(s) # Rejected
    PROVE  LET n == Len(s.manifest)
               parsed == Parsed(s)
               order == ClauseOrder(parsed)
               clauses == BuildCorpus(s).clauses
               m == Len(clauses) IN
           /\ n \in Nat /\ m \in Nat /\ DOMAIN clauses = 1..m
           /\ clauses = [k \in 1..m |-> clauses[k]]
           /\ \A i \in 1..n :
                /\ parsed[i] \in SourceDocuments /\ WellFormed(parsed[i])
                /\ \E p \in DOMAIN s.files : parsed[i] = s.files[p]
                /\ Pages(parsed[i]) \subseteq BuildCorpus(s).pages
           /\ \A page \in BuildCorpus(s).pages : \E i \in 1..n : page \in Pages(parsed[i])
           /\ Rearranged(BuildCorpus(s).documents, parsed, n)
           /\ \A i, j \in 1..n : parsed[i].document_id = parsed[j].document_id => i = j
           /\ \A k \in 1..m :
                /\ order[k][1] \in 1..n
                /\ order[k][2] \in ClausePlaces(parsed[order[k][1]].items)
                /\ clauses[k] = ClauseAt(parsed[order[k][1]], order[k][2])
           /\ \A i, j \in 1..m :
                i < j => \/ order[i][1] < order[j][1]
                         \/ order[i][1] = order[j][1] /\ order[i][2] < order[j][2]
<1> DEFINE n == Len(s.manifest)
           parsed == Parsed(s)
           corpus == BuildCorpus(s)
           clauses == corpus.clauses
           m == Len(clauses)
           order == ClauseOrder(parsed)
<1>1. /\ n \in Nat /\ parsed = [i \in 1..n |-> parsed[i]]
      /\ \A i \in 1..n : /\ parsed[i] \in SourceDocuments
                        /\ \E p \in DOMAIN s.files : parsed[i] = s.files[p]
      /\ Rearranged(Assembled(s).documents, parsed, n)
  BY DocumentsFacts
<1>2. corpus = Assembled(s) /\ Accepted(s) /\ NothingIsTwice(corpus)
  BY BuiltFacts
<1>3. /\ clauses = Clauses(parsed)
      /\ corpus.pages = UNION {Pages(parsed[i]) : i \in DOMAIN parsed}
  BY <1>2 DEF Assembled
<1>4. DOMAIN parsed = 1..n /\ \A i \in 1..n : WellFormed(parsed[i])
  BY <1>1, <1>2 DEF Accepted
<1>5. \A i \in 1..n : parsed[i].items \in Seq(Items)
  BY <1>1 DEF SourceDocuments
<1>6. Rearranged(corpus.documents, parsed, n)
  BY <1>1, <1>2
<1> HIDE DEF n, parsed, corpus
<1>7. \A i, j \in 1..n : parsed[i].document_id = parsed[j].document_id => i = j
  <2> DEFINE documents == corpus.documents
  <2>1. documents = [i \in 1..n |-> documents[i]] /\ Unique(documents, DocumentId)
    BY <1>2, <1>6 DEF NothingIsTwice, Rearranged
  <2> HIDE DEF documents
  <2>2. \A i, j \in 1..n : documents[i].document_id = documents[j].document_id => i = j
    BY <1>1, <2>1, RecordsDiffer
  <2>3. PICK p : Permutes(p, n) /\ \A i \in 1..n : documents[i] = parsed[p[i]]
    BY <1>6 DEF documents, Rearranged
  <2> DEFINE f == [i \in 1..n |-> documents[i].document_id]
             g == [i \in 1..n |-> parsed[i].document_id]
  <2>4. /\ \A i, j \in 1..n : f[i] = f[j] => i = j
        /\ \A i \in 1..n : f[i] = g[p[i]]
    BY <2>2, <2>3 DEF Permutes
  <2> HIDE DEF f, g
  <2>5. \A i, j \in 1..n : g[i] = g[j] => i = j
    <3>1. n \in Nat
      BY <1>1
    <3> QED BY <2>3, <2>4, <3>1, DifferentInAnyOrder
  <2> QED BY <2>5 DEF g
<1> HIDE DEF order, clauses
<1>8. /\ m \in Nat /\ DOMAIN clauses = 1..m
      /\ \A k \in 1..m :
            /\ order[k][1] \in 1..n
            /\ order[k][2] \in ClausePlaces(parsed[order[k][1]].items)
            /\ clauses[k] = ClauseAt(parsed[order[k][1]], order[k][2])
      /\ \A i, j \in 1..m :
            i < j => \/ order[i][1] < order[j][1]
                     \/ order[i][1] = order[j][1] /\ order[i][2] < order[j][2]
  <2>1. clauses = Clauses(parsed)
    BY <1>3
  <2> HIDE DEF m
  <2>2. m = Len(Clauses(parsed))
    BY <2>1 DEF m
  <2>3. /\ m \in Nat /\ DOMAIN Clauses(parsed) = 1..m
        /\ \A k \in 1..m :
            /\ order[k][1] \in 1..n
            /\ order[k][2] \in ClausePlaces(parsed[order[k][1]].items)
            /\ Clauses(parsed)[k] = ClauseAt(parsed[order[k][1]], order[k][2])
        /\ \A i, j \in 1..m :
            i < j => \/ order[i][1] < order[j][1]
                     \/ order[i][1] = order[j][1] /\ order[i][2] < order[j][2]
    <3>1. n \in Nat /\ parsed = [i \in 1..n |-> parsed[i]]
      BY <1>1
    <3> QED BY <1>5, <2>2, <3>1, ClauseOrderFacts DEF order
  <2> QED BY <2>1, <2>3
<1>9. clauses = [k \in 1..m |-> clauses[k]]
  BY <1>3, <1>8 DEF Clauses
<1>10. /\ \A i \in 1..n : Pages(parsed[i]) \subseteq corpus.pages
      /\ \A page \in corpus.pages : \E i \in 1..n : page \in Pages(parsed[i])
  BY <1>3, <1>4
<1> QED BY <1>1, <1>4, <1>6, <1>7, <1>8, <1>9, <1>10 DEF n, parsed, corpus, clauses, order

(***************************************************************************)
(* What holds of a corpus that is built.                                   *)
(***************************************************************************)

\* The sources stay well-typed, and the artifact is what they describe now.
BuildInv ==
    /\ IsSource(source)
    /\ artifact # Unbuilt => artifact = BuildCorpus(source)

\* What the corpus cites is there exactly once, since the build rejects
\* anything that is there twice.
LEMMA BuiltProvenance ==
    ASSUME BuildInv
    PROVE  ProvenanceIsUnique
<1> SUFFICES ASSUME Built
             PROVE  ProvenanceIsUnique
  BY DEF ProvenanceIsUnique
<1> DEFINE n == Len(source.manifest)
           parsed == Parsed(source)
           order == ClauseOrder(parsed)
           clauses == artifact.clauses
           documents == artifact.documents
           m == Len(clauses)
<1>1. IsSource(source) /\ artifact = BuildCorpus(source) /\ artifact # Rejected
  BY DEF BuildInv, Built
<1>2. /\ n \in Nat /\ m \in Nat /\ DOMAIN clauses = 1..m
      /\ clauses = [k \in 1..m |-> clauses[k]]
      /\ \A i \in 1..n :
            /\ parsed[i] \in SourceDocuments /\ WellFormed(parsed[i])
            /\ \E p \in DOMAIN source.files : parsed[i] = source.files[p]
            /\ Pages(parsed[i]) \subseteq artifact.pages
      /\ \A page \in artifact.pages : \E i \in 1..n : page \in Pages(parsed[i])
      /\ Rearranged(documents, parsed, n)
      /\ \A i, j \in 1..n : parsed[i].document_id = parsed[j].document_id => i = j
      /\ \A k \in 1..m :
            /\ order[k][1] \in 1..n
            /\ order[k][2] \in ClausePlaces(parsed[order[k][1]].items)
            /\ clauses[k] = ClauseAt(parsed[order[k][1]], order[k][2])
  BY <1>1, ClausesComeFromDocuments
<1>3. /\ Unique(clauses, ClauseId) /\ Unique(documents, DocumentId)
      /\ NamesAreKnown(artifact)
  BY <1>1, BuiltFacts DEF NothingIsTwice
<1>4. PagesDiffer(source.files)
  BY <1>1 DEF IsSource
<1> HIDE DEF n, parsed, order, clauses, documents, m
<1>5. \A i, j \in 1..m : clauses[i].clause_id = clauses[j].clause_id => i = j
  BY <1>2, <1>3, RecordsDiffer
<1>6. /\ DOMAIN documents = 1..n
      /\ \A i, j \in 1..n : documents[i].document_id = documents[j].document_id => i = j
      /\ \A i \in 1..n : \E j \in 1..n : documents[j] = parsed[i]
  <2>1. n \in Nat /\ documents = [i \in 1..n |-> documents[i]]
    BY <1>2 DEF Rearranged
  <2>2. \A i, j \in 1..n : documents[i].document_id = documents[j].document_id => i = j
    BY <1>3, <2>1, RecordsDiffer
  <2>3. \A i \in 1..n : \E j \in 1..n : documents[j] = parsed[i]
    <3>1. n \in Nat /\ Rearranged(documents, parsed, n)
      BY <1>2
    <3> QED BY <3>1, RearrangedHasTheElements
  <2> QED BY <2>1, <2>2, <2>3
<1>7. ASSUME NEW k \in 1..m
      PROVE  Cardinality({j \in 1..n :
                documents[j].document_id = clauses[k].document_id}) = 1
  <2>1. PICK i \in 1..n : clauses[k].document_id = parsed[i].document_id
    BY <1>2 DEF ClauseAt
  <2>2. PICK l \in 1..n : documents[l] = parsed[i]
    BY <1>6
  <2>3. {j \in 1..n : documents[j].document_id = clauses[k].document_id} = {l}
    BY <1>6, <2>1, <2>2
  <2> QED BY <2>3, FS_Singleton
<1>8. ASSUME NEW k \in 1..m
      PROVE  Cardinality({p \in artifact.pages : p.page_id = clauses[k].page_id}) = 1
  <2> DEFINE document == parsed[order[k][1]]
             place == order[k][2]
             marker == Max(Preceding(document.items, place))
             page == [page_id |-> PageId(document.document_id, document.items[marker].id),
                      document_id |-> document.document_id]
  <2>1. /\ document \in SourceDocuments /\ WellFormed(document)
        /\ \E p \in DOMAIN source.files : document = source.files[p]
        /\ Pages(document) \subseteq artifact.pages
        /\ place \in ClausePlaces(document.items)
        /\ clauses[k] = ClauseAt(document, place)
    BY <1>2
  <2> HIDE DEF document, place
  <2>2. marker \in Markers(document.items) /\ page.page_id = clauses[k].page_id
    BY <2>1, LastMarker DEF ClauseAt
  <2>3. page \in artifact.pages
    BY <2>1, <2>2 DEF Pages
  <2>4. ASSUME NEW other \in artifact.pages, other.page_id = page.page_id
        PROVE  other = page
    <3>1. PICK i \in 1..n : other \in Pages(parsed[i])
      BY <1>2
    <3>2. PICK j \in Markers(parsed[i].items) :
            other = [page_id |-> PageId(parsed[i].document_id, parsed[i].items[j].id),
                     document_id |-> parsed[i].document_id]
      BY <3>1 DEF Pages
    <3>3. \E p \in DOMAIN source.files : parsed[i] = source.files[p]
      BY <1>2
    <3>4. PageId(parsed[i].document_id, parsed[i].items[j].id)
            = PageId(document.document_id, document.items[marker].id)
      BY <2>4, <3>2
    <3>5. parsed[i].document_id = document.document_id
      BY <1>4, <2>1, <2>2, <3>2, <3>3, <3>4 DEF PagesDiffer
    <3> QED BY <3>2, <3>4, <3>5
  <2> HIDE DEF page
  <2>5. {p \in artifact.pages : p.page_id = clauses[k].page_id} = {page}
    BY <2>2, <2>3, <2>4
  <2> QED BY <2>5, FS_Singleton
<1>9. \A i \in DOMAIN artifact.triples :
        \E j \in 1..m : clauses[j].clause_id = artifact.triples[i].source_clause_id
  <2> TAKE i \in DOMAIN artifact.triples
  <2>1. artifact.triples[i] \in Range(artifact.triples)
    BY DEF Range
  <2>2. artifact.triples[i].source_clause_id \in Ids(clauses, ClauseId)
    BY <1>3, <2>1 DEF NamesAreKnown, clauses
  <2> QED BY <1>2, <2>2 DEF Ids, ClauseId
<1>10. ASSUME NEW k \in DOMAIN artifact.clauses
       PROVE  /\ \A j \in DOMAIN artifact.clauses :
                    artifact.clauses[j].clause_id = artifact.clauses[k].clause_id => j = k
              /\ Cardinality({j \in DOMAIN artifact.documents :
                    artifact.documents[j].document_id = artifact.clauses[k].document_id}) = 1
              /\ Cardinality({p \in artifact.pages :
                    p.page_id = artifact.clauses[k].page_id}) = 1
  BY <1>2, <1>5, <1>6, <1>7, <1>8 DEF clauses, documents
<1>11. \A i \in DOMAIN artifact.triples : \E j \in DOMAIN artifact.clauses :
            artifact.clauses[j].clause_id = artifact.triples[i].source_clause_id
  BY <1>2, <1>9 DEF clauses
<1> QED BY <1>10, <1>11 DEF ProvenanceIsUnique

\* Of two clauses of one document the later lies on the page of the earlier
\* exactly when no marker stands between them.
LEMMA PagesOfTwoClauses ==
    ASSUME NEW document \in SourceDocuments, WellFormed(document),
           NEW a \in ClausePlaces(document.items), NEW b \in ClausePlaces(document.items),
           a < b
    PROVE  PageNumber(document, a) = PageNumber(document, b)
                <=> \A k \in Markers(document.items) : ~(a < k /\ k < b)
<1> DEFINE items == document.items
           x == Max(Preceding(items, a))
           y == Max(Preceding(items, b))
<1>1. /\ x \in Markers(items) /\ x < a /\ PageNumber(document, a) = items[x].id
      /\ \A k \in Markers(items) : k < a => k <= x
  BY LastMarker
<1>2. /\ y \in Markers(items) /\ y < b /\ PageNumber(document, b) = items[y].id
      /\ \A k \in Markers(items) : k < b => k <= y
  BY LastMarker
<1>3. /\ Markers(items) \subseteq Nat /\ a \in Nat /\ b \in Nat
      /\ a \notin Markers(items)
      /\ \A k \in Markers(items) : items[k].id \in Nat
      /\ \A k, l \in Markers(items) : k < l => items[k].id < items[l].id
  <2>1. items \in Seq(Items)
    BY DEF SourceDocuments
  <2>2. PICK l \in Nat : DOMAIN items = 1..l /\ items \in [1..l -> Items]
    BY <2>1, LenProperties
  <2>3. \A k \in 1..l : items[k].id \in Nat
    BY <2>2 DEF Items
  <2> QED BY <2>2, <2>3 DEF Markers, ClausePlaces, WellFormed
<1> HIDE DEF x, y, items
<1>4. x <= y
  BY <1>1, <1>2, <1>3
<1>5. items[x].id = items[y].id <=> x = y
  BY <1>1, <1>2, <1>3, <1>4
<1>6. x = y <=> \A k \in Markers(items) : ~(a < k /\ k < b)
  <2>1. ASSUME x = y, NEW k \in Markers(items), a < k, k < b
        PROVE  FALSE
    BY <1>1, <1>2, <1>3, <2>1
  <2>2. ASSUME \A k \in Markers(items) : ~(a < k /\ k < b)
        PROVE  x = y
    <3>1. ~(a < y)
      BY <1>2, <2>2
    <3>2. y < a
      BY <1>2, <1>3, <3>1
    <3> QED BY <1>1, <1>2, <1>3, <1>4, <3>2
  <2> QED BY <2>1, <2>2
<1> QED BY <1>1, <1>2, <1>5, <1>6 DEF items

\* Clauses are sorted by document and place, and their page is the one that the
\* last marker before them opened.
LEMMA BuiltReadingOrder ==
    ASSUME BuildInv
    PROVE  ClausesAreInReadingOrder
<1> DEFINE clauses == artifact.clauses
           documentOf(i) == CHOOSE d \in Range(artifact.documents) :
                                d.document_id = clauses[i].document_id
           n == Len(source.manifest)
           parsed == Parsed(source)
           order == ClauseOrder(parsed)
           m == Len(clauses)
<1> SUFFICES ASSUME Built, NEW i \in DOMAIN clauses, NEW j \in DOMAIN clauses,
                    i < j, clauses[i].document_id = clauses[j].document_id
             PROVE  /\ PlaceOf(documentOf(i), clauses[i]) < PlaceOf(documentOf(i), clauses[j])
                    /\ (clauses[i].page_id = clauses[j].page_id) <=>
                        \A k \in Markers(documentOf(i).items) :
                            ~(PlaceOf(documentOf(i), clauses[i]) < k
                              /\ k < PlaceOf(documentOf(i), clauses[j]))
  BY DEF ClausesAreInReadingOrder
<1>1. IsSource(source) /\ artifact = BuildCorpus(source) /\ artifact # Rejected
  BY DEF BuildInv, Built
<1>2. /\ n \in Nat /\ m \in Nat /\ DOMAIN clauses = 1..m
      /\ \A h \in 1..n :
            /\ parsed[h] \in SourceDocuments /\ WellFormed(parsed[h])
            /\ \E p \in DOMAIN source.files : parsed[h] = source.files[p]
      /\ Rearranged(artifact.documents, parsed, n)
      /\ \A h, k \in 1..n : parsed[h].document_id = parsed[k].document_id => h = k
      /\ \A k \in 1..m :
            /\ order[k][1] \in 1..n
            /\ order[k][2] \in ClausePlaces(parsed[order[k][1]].items)
            /\ clauses[k] = ClauseAt(parsed[order[k][1]], order[k][2])
      /\ \A h, k \in 1..m :
            h < k => \/ order[h][1] < order[k][1]
                     \/ order[h][1] = order[k][1] /\ order[h][2] < order[k][2]
  BY <1>1, ClausesComeFromDocuments
<1>3. PagesDiffer(source.files)
  BY <1>1 DEF IsSource
<1> HIDE DEF clauses, n, parsed, order, m
<1> DEFINE h == order[i][1]
           document == parsed[h]
           a == order[i][2]
           b == order[j][2]
<1>4. /\ h \in 1..n /\ order[j][1] \in 1..n
      /\ clauses[i] = ClauseAt(document, a)
      /\ clauses[j] = ClauseAt(parsed[order[j][1]], b)
      /\ a \in ClausePlaces(document.items)
      /\ b \in ClausePlaces(parsed[order[j][1]].items)
  BY <1>2
<1>5. order[j][1] = h
  <2>1. /\ clauses[i].document_id = parsed[h].document_id
        /\ clauses[j].document_id = parsed[order[j][1]].document_id
    BY <1>4 DEF ClauseAt
  <2> HIDE DEF h
  <2> QED BY <1>2, <1>4, <2>1
<1>6. h \in Nat /\ a < b
  BY <1>2, <1>4, <1>5
<1>7. /\ document \in SourceDocuments /\ WellFormed(document)
      /\ \E p \in DOMAIN source.files : document = source.files[p]
  BY <1>2, <1>4
<1>8. documentOf(i) = document
  <2>1. \E l \in 1..n : artifact.documents[l] = document
    <3>1. n \in Nat /\ Rearranged(artifact.documents, parsed, n)
      BY <1>2
    <3>2. \A k \in 1..n : \E l \in 1..n : artifact.documents[l] = parsed[k]
      BY ONLY <3>1, RearrangedHasTheElements
    <3> QED BY <1>4, <3>2
  <2>2. DOMAIN artifact.documents = 1..n
    BY <1>2 DEF Rearranged
  <2>3. document \in Range(artifact.documents)
    BY <2>1, <2>2 DEF Range
  <2>4. \A d \in Range(artifact.documents) : \E l \in 1..n : d = parsed[l]
    <3>1. n \in Nat /\ Rearranged(artifact.documents, parsed, n)
      BY <1>2
    <3>2. \A k \in 1..n : \E l \in 1..n : artifact.documents[k] = parsed[l]
      BY <3>1, RearrangedHasTheElements
    <3> QED BY <2>2, <3>2 DEF Range
  <2>5. clauses[i].document_id = document.document_id
    BY <1>4 DEF ClauseAt
  <2>6. \A d \in Range(artifact.documents) :
            d.document_id = clauses[i].document_id => d = document
    BY <1>2, <1>4, <2>4, <2>5
  <2> HIDE DEF document
  <2> QED BY <2>3, <2>5, <2>6
<1> HIDE DEF h, document, a, b, documentOf
<1>9. PlaceOf(document, clauses[i]) = a /\ PlaceOf(document, clauses[j]) = b
  <2>1. clauses[i].clause_id = document.items[a].id /\ clauses[j].clause_id = document.items[b].id
    BY <1>4, <1>5 DEF ClauseAt, document
  <2>2. \A k, l \in ClausePlaces(document.items) :
            document.items[k].id = document.items[l].id => k = l
    BY <1>7 DEF WellFormed
  <2>3. b \in ClausePlaces(document.items)
    BY <1>4, <1>5 DEF document
  <2> QED BY <1>4, <2>1, <2>2, <2>3 DEF PlaceOf
<1>10. clauses[i].page_id = clauses[j].page_id
            <=> PageNumber(document, a) = PageNumber(document, b)
  <2>1. b \in ClausePlaces(document.items) /\ clauses[j] = ClauseAt(document, b)
    BY <1>4, <1>5 DEF document
  <2>2. /\ clauses[i].page_id = PageId(document.document_id, PageNumber(document, a))
        /\ clauses[j].page_id = PageId(document.document_id, PageNumber(document, b))
    BY <1>4, <2>1 DEF ClauseAt
  <2>3. /\ \E k \in Markers(document.items) : PageNumber(document, a) = document.items[k].id
        /\ \E k \in Markers(document.items) : PageNumber(document, b) = document.items[k].id
    BY <1>4, <1>7, <2>1, LastMarker
  <2>4. PageId(document.document_id, PageNumber(document, a))
            = PageId(document.document_id, PageNumber(document, b))
            => PageNumber(document, a) = PageNumber(document, b)
    BY <1>3, <1>7, <2>3 DEF PagesDiffer
  <2> QED BY <2>2, <2>4
<1>11. PageNumber(document, a) = PageNumber(document, b)
            <=> \A k \in Markers(document.items) : ~(a < k /\ k < b)
  <2>1. b \in ClausePlaces(document.items)
    BY <1>4, <1>5 DEF document
  <2> QED BY <1>4, <1>6, <1>7, <2>1, PagesOfTwoClauses
<1> QED BY <1>6, <1>8, <1>9, <1>10, <1>11

(***************************************************************************)
(* Listing the sources in another order changes nothing.                   *)
(***************************************************************************)

\* The n elements of t are those of s where p says.
Rearranges(p, t, s, n) ==
    Permutes(p, n) /\ \A k \in 1..n : t[k] = s[p[k]]

\* An exchange of two elements is a permutation.
LEMMA ExchangedPermutes ==
    ASSUME NEW S, NEW q \in Seq(S), NEW i \in DOMAIN q, NEW j \in DOMAIN q
    PROVE  /\ Exchanged(q, i, j) \in Seq(S) /\ Len(Exchanged(q, i, j)) = Len(q)
           /\ Len(q) \in Nat /\ DOMAIN q = 1..Len(q)
           /\ DOMAIN Exchanged(q, i, j) = 1..Len(q)
           /\ \E p : Rearranges(p, Exchanged(q, i, j), q, Len(q))
<1> DEFINE n == Len(q)
           e == Exchanged(q, i, j)
           p == [k \in 1..n |-> IF k = i THEN j ELSE IF k = j THEN i ELSE k]
<1>1. n \in Nat /\ DOMAIN q = 1..n /\ q \in [1..n -> S]
  BY LenProperties
<1> HIDE DEF n
<1>2. e \in [1..n -> S] /\ \A k \in 1..n : e[k] = q[p[k]]
  BY <1>1 DEF Exchanged
<1> HIDE DEF e
<1>3. e \in Seq(S)
  BY <1>1, <1>2, SeqDef
<1>4. Len(e) = n
  BY <1>1, <1>2, <1>3, LenProperties
<1>5. Permutes(p, n)
  <2>1. p \in [1..n -> 1..n]
    BY <1>1
  <2>2. \A k, l \in 1..n : p[k] = p[l] => k = l
    BY <1>1
  <2>3. \A l \in 1..n : p[p[l]] = l
    BY <1>1
  <2> HIDE DEF p
  <2> QED BY <2>1, <2>2, <2>3 DEF Permutes
<1> HIDE DEF p
<1>6. Rearranges(p, e, q, n)
  BY <1>2, <1>5 DEF Rearranges
<1> QED BY <1>1, <1>2, <1>3, <1>4, <1>6 DEF e, n

\* Values that repeat repeat in any order.
LEMMA RepeatedInAnyOrder ==
    ASSUME NEW n \in Nat, NEW p, Permutes(p, n), NEW f, NEW g,
           \A i \in 1..n : f[i] = g[p[i]]
    PROVE  (\A i, j \in 1..n : f[i] = f[j] => i = j)
                <=> \A i, j \in 1..n : g[i] = g[j] => i = j
<1>1. ASSUME \A i, j \in 1..n : g[i] = g[j] => i = j,
             NEW i \in 1..n, NEW j \in 1..n, f[i] = f[j]
      PROVE  i = j
  <2>1. p[i] \in 1..n /\ p[j] \in 1..n /\ (p[i] = p[j] => i = j)
    BY DEF Permutes
  <2> QED BY <1>1, <2>1
<1>2. ASSUME \A i, j \in 1..n : f[i] = f[j] => i = j
      PROVE  \A i, j \in 1..n : g[i] = g[j] => i = j
  BY <1>2, DifferentInAnyOrder
<1> QED BY <1>1, <1>2

\* A manifest that names a file twice is rejected.
LEMMA PathsDiffer ==
    ASSUME NEW s, IsSource(s), BuildCorpus(s) # Rejected,
           NEW i \in DOMAIN s.manifest, NEW j \in DOMAIN s.manifest,
           s.manifest[i] = s.manifest[j]
    PROVE  i = j
<1> DEFINE n == Len(s.manifest)
           paths == PathOrder(s)
           parsed == Parsed(s)
<1>1. n \in Nat /\ \A k, l \in 1..n : parsed[k].document_id = parsed[l].document_id => k = l
  BY ClausesComeFromDocuments
<1>2. DOMAIN s.manifest = 1..n
  BY ParsedFacts
<1>3. Rearranged(paths, s.manifest, n)
  BY ParsedFacts
<1>4. parsed = [k \in 1..n |-> s.files[paths[k]]]
  BY ParsedFacts
<1> HIDE DEF n, paths, parsed
<1>5. \A k, l \in 1..n : paths[k] = paths[l] => k = l
  BY <1>1, <1>4
<1>6. PICK p : Permutes(p, n) /\ \A k \in 1..n : paths[k] = s.manifest[p[k]]
  BY <1>3 DEF Rearranged
<1>7. \A k, l \in 1..n : s.manifest[k] = s.manifest[l] => k = l
  BY <1>1, <1>5, <1>6, DifferentInAnyOrder
<1> QED BY <1>2, <1>7

\* Sources that parse and sort alike are one corpus.
LEMMA BuiltAlike ==
    ASSUME NEW s, NEW t, Parsed(t) = Parsed(s),
           Assembled(t).entities = Assembled(s).entities,
           Assembled(t).triples = Assembled(s).triples,
           InVocabulary(t) <=> InVocabulary(s)
    PROVE  BuildCorpus(t) = BuildCorpus(s)
<1>1. /\ Assembled(t).documents = Assembled(s).documents
      /\ Assembled(t).pages = Assembled(s).pages
      /\ Assembled(t).clauses = Assembled(s).clauses
  BY DEF Assembled
<1>2. \A u : Assembled(u) = [documents |-> Assembled(u).documents,
                            pages |-> Assembled(u).pages,
                            clauses |-> Assembled(u).clauses,
                            entities |-> Assembled(u).entities,
                            triples |-> Assembled(u).triples]
  BY DEF Assembled
<1>3. Assembled(t) = Assembled(s)
  BY <1>1, <1>2
<1>4. Accepted(t) <=> Accepted(s)
  BY DEF Accepted
<1> QED BY <1>3, <1>4 DEF BuildCorpus

\* Only the sorted paths and the files decide what is parsed.
LEMMA ParsedAlike ==
    ASSUME NEW s, NEW t, t.files = s.files, PathOrder(t) = PathOrder(s)
    PROVE  Parsed(t) = Parsed(s)
BY DEF Parsed

\* Two paths of the manifest that change places do not change the artifact.
LEMMA ManifestOrderIsForgotten ==
    ASSUME NEW s, IsSource(s), NEW i \in DOMAIN s.manifest, NEW j \in DOMAIN s.manifest,
           NEW t, t = [s EXCEPT !["manifest"] = Exchanged(@, i, j)]
    PROVE  IsSource(t) /\ BuildCorpus(t) = BuildCorpus(s)
<1> DEFINE n == Len(s.manifest)
           q == s.manifest
           e == t.manifest
<1>1. /\ q \in Seq(DOMAIN s.files) /\ DOMAIN s = {"files", "manifest", "entities", "assertions"}
      /\ DOMAIN s.files \subseteq Nat
  BY DEF IsSource
<1>2. /\ e = Exchanged(q, i, j) /\ DOMAIN t = DOMAIN s
      /\ t.files = s.files /\ t.entities = s.entities /\ t.assertions = s.assertions
  BY <1>1
<1>3. /\ e \in Seq(DOMAIN s.files) /\ Len(e) = n /\ n \in Nat
      /\ DOMAIN q = 1..n /\ DOMAIN e = 1..n
  BY <1>1, <1>2, ExchangedPermutes
<1>4. PICK p : Permutes(p, n) /\ \A k \in 1..n : e[k] = q[p[k]]
  <2>1. \E p : Rearranges(p, Exchanged(q, i, j), q, Len(q))
    BY <1>1, ExchangedPermutes
  <2> QED BY <1>2, <2>1 DEF Rearranges
<1>5. IsSource(t)
  BY <1>2, <1>3 DEF IsSource
<1>6. \A k \in 1..n : q[k] \in Nat
  BY <1>1, <1>3, ElementOfSeq
<1>7. (\A k, l \in 1..n : e[k] = e[l] => k = l) <=> \A k, l \in 1..n : q[k] = q[l] => k = l
  <2>1. n \in Nat
    BY <1>3
  <2> HIDE DEF n, e, q
  <2> QED BY <1>4, <2>1, RepeatedInAnyOrder
<1>8. CASE \A k, l \in 1..n : q[k] = q[l] => k = l
  <2> DEFINE id == [k \in 1..n |-> q[k]]
             key == [k \in DOMAIN q |-> <<q[k]>>]
             other == [k \in DOMAIN e |-> <<e[k]>>]
  <2>1. /\ id \in [1..n -> Nat] /\ \A k, l \in 1..n : id[k] = id[l] => k = l
        /\ key = [k \in 1..n |-> <<id[k]>>]
    BY <1>3, <1>6, <1>8
  <2>2. other = [k \in 1..n |-> <<e[k]>>]
    BY <1>3
  <2>3. PathOrder(s) = Sorted(q, key) /\ PathOrder(t) = Sorted(e, other)
    BY DEF PathOrder
  <2>4. \A k \in 1..n : e[k] = id[p[k]]
    BY <1>4 DEF Permutes
  <2> HIDE DEF n, q, e, id, key, other
  <2>5. other = [k \in 1..n |-> <<id[p[k]]>>]
    BY <2>2, <2>4
  <2>6. /\ DOMAIN q = 1..n /\ DOMAIN e = 1..n /\ n \in Nat
        /\ Permutes(p, n) /\ \A k \in 1..n : e[k] = q[p[k]]
    BY <1>3, <1>4
  <2>7. Sorted(e, other) = Sorted(q, key)
    <3>1. /\ id \in [1..n -> Nat]
          /\ \A k, l \in 1..n : id[k] = id[l] => k = l
      BY <2>1
    <3>2. ListedByNumber(n, p, id, q, key, e, other)
      BY <2>1, <2>5, <2>6, <3>1 DEF ListedByNumber
    <3> QED BY <3>2, SortedByNumberForgetsTheOrder
  <2>8. PathOrder(t) = PathOrder(s)
    BY <2>3, <2>7
  <2>9. Parsed(t) = Parsed(s)
    BY <1>2, <2>8, ParsedAlike
  <2>10. /\ Assembled(t).entities = Assembled(s).entities
         /\ Assembled(t).triples = Assembled(s).triples
    BY <1>2 DEF Assembled
  <2>11. InVocabulary(t) <=> InVocabulary(s)
    BY <1>2 DEF InVocabulary
  <2> QED BY <1>5, <2>9, <2>10, <2>11, BuiltAlike
<1>9. CASE ~\A k, l \in 1..n : q[k] = q[l] => k = l
  <2>1. BuildCorpus(s) = Rejected
    BY <1>3, <1>9, PathsDiffer
  <2>2. BuildCorpus(t) = Rejected
    BY <1>3, <1>5, <1>7, <1>9, PathsDiffer
  <2> QED BY <1>5, <2>1, <2>2
<1> QED BY <1>8, <1>9

\* The entities of the corpus are those of the sources, and differ.
LEMMA EntitiesFacts ==
    ASSUME NEW s, IsSource(s)
    PROVE  LET n == Len(s.entities) IN
           /\ n \in Nat /\ DOMAIN s.entities = 1..n
           /\ \A i \in 1..n : s.entities[i] \in SourceEntities
           /\ Rearranged(Assembled(s).entities, s.entities, n)
           /\ BuildCorpus(s) # Rejected =>
                \A i, j \in 1..n :
                    s.entities[i].entity_id = s.entities[j].entity_id => i = j
<1> DEFINE n == Len(s.entities)
           q == s.entities
           key == [i \in DOMAIN q |-> <<q[i].entity_id>>]
           id == [i \in 1..n |-> q[i].entity_id]
           entities == Assembled(s).entities
<1>1. n \in Nat /\ DOMAIN q = 1..n /\ \A i \in 1..n : q[i] \in SourceEntities
  <2>1. q \in Seq(SourceEntities)
    BY DEF IsSource
  <2> QED BY <2>1, LenProperties, ElementOfSeq
<1>2. entities = Sorted(q, key)
  BY DEF Assembled
<1> HIDE DEF n, q
<1>3. /\ key = [i \in 1..n |-> key[i]] /\ DOMAIN key = 1..n
      /\ id \in [1..n -> Nat] /\ \A i \in 1..n : key[i] = <<id[i]>>
  BY <1>1 DEF SourceEntities
<1> HIDE DEF key, id
<1>4. Rearranged(entities, q, n)
  BY <1>1, <1>2, <1>3, SortedByNumberPermutes
<1>5. ASSUME BuildCorpus(s) # Rejected
      PROVE  \A i, j \in 1..n : q[i].entity_id = q[j].entity_id => i = j
  <2>1. Unique(entities, EntityId)
    BY <1>5, BuiltFacts DEF NothingIsTwice
  <2> HIDE DEF entities
  <2>2. entities = [i \in 1..n |-> entities[i]]
    BY <1>4 DEF Rearranged
  <2>3. n \in Nat
    BY <1>1
  <2>4. \A i, j \in 1..n : entities[i].entity_id = entities[j].entity_id => i = j
    BY <2>1, <2>2, <2>3, RecordsDiffer
  <2>5. PICK p : Permutes(p, n) /\ \A i \in 1..n : entities[i] = q[p[i]]
    BY <1>4 DEF Rearranged
  <2> DEFINE f == [i \in 1..n |-> entities[i].entity_id]
             g == [i \in 1..n |-> q[i].entity_id]
  <2>6. /\ \A i, j \in 1..n : f[i] = f[j] => i = j
        /\ \A i \in 1..n : f[i] = g[p[i]]
    BY <2>4, <2>5 DEF Permutes
  <2> HIDE DEF f, g
  <2>7. \A i, j \in 1..n : g[i] = g[j] => i = j
    BY <2>3, <2>5, <2>6, DifferentInAnyOrder
  <2> QED BY <2>7 DEF g
<1> QED BY <1>1, <1>4, <1>5 DEF n, q, entities

\* Two entities that change places do not change the artifact.
LEMMA EntityOrderIsForgotten ==
    ASSUME NEW s, IsSource(s), NEW i \in DOMAIN s.entities, NEW j \in DOMAIN s.entities,
           NEW t, t = [s EXCEPT !["entities"] = Exchanged(@, i, j)]
    PROVE  IsSource(t) /\ BuildCorpus(t) = BuildCorpus(s)
<1> DEFINE n == Len(s.entities)
           q == s.entities
           e == t.entities
<1>1. q \in Seq(SourceEntities) /\ DOMAIN s = {"files", "manifest", "entities", "assertions"}
  BY DEF IsSource
<1>2. /\ e = Exchanged(q, i, j) /\ DOMAIN t = DOMAIN s
      /\ t.files = s.files /\ t.manifest = s.manifest /\ t.assertions = s.assertions
  BY <1>1
<1>3. /\ e \in Seq(SourceEntities) /\ Len(e) = n /\ n \in Nat
      /\ DOMAIN q = 1..n /\ DOMAIN e = 1..n
  BY <1>1, <1>2, ExchangedPermutes
<1>4. PICK p : Permutes(p, n) /\ \A k \in 1..n : e[k] = q[p[k]]
  <2>1. \E p : Rearranges(p, Exchanged(q, i, j), q, Len(q))
    BY <1>1, ExchangedPermutes
  <2> QED BY <1>2, <2>1 DEF Rearranges
<1>5. IsSource(t)
  BY <1>2, <1>3 DEF IsSource
<1>a. /\ Assembled(s).entities = Sorted(q, [k \in DOMAIN q |-> <<q[k].entity_id>>])
      /\ Assembled(t).entities = Sorted(e, [k \in DOMAIN e |-> <<e[k].entity_id>>])
  BY DEF Assembled
<1>b. InVocabulary(s) <=>
        /\ \A k \in DOMAIN q : q[k].entity_type \in EntityTypes
        /\ \A k \in DOMAIN s.assertions : InOntology(s.assertions[k])
  BY DEF InVocabulary
<1>c. InVocabulary(t) <=>
        /\ \A k \in DOMAIN e : e[k].entity_type \in EntityTypes
        /\ \A k \in DOMAIN t.assertions : InOntology(t.assertions[k])
  BY DEF InVocabulary
<1> HIDE DEF n, q, e
<1>d. \A k \in 1..n : p[k] \in 1..n
  BY <1>4 DEF Permutes
<1>6. \A k \in 1..n : q[k].entity_id \in Nat
  <2>1. \A k \in 1..n : q[k] \in SourceEntities
    BY <1>1, <1>3, ElementOfSeq
  <2> QED BY <2>1 DEF SourceEntities
<1> DEFINE id == [k \in 1..n |-> q[k].entity_id]
           idT == [k \in 1..n |-> e[k].entity_id]
<1>7. (\A k, l \in 1..n : idT[k] = idT[l] => k = l) <=> \A k, l \in 1..n : id[k] = id[l] => k = l
  <2>1. \A k \in 1..n : idT[k] = id[p[k]]
    BY <1>4, <1>d
  <2>2. n \in Nat /\ Permutes(p, n)
    BY <1>3, <1>4
  <2> HIDE DEF id, idT
  <2> QED BY <2>1, <2>2, RepeatedInAnyOrder
<1>8. CASE \A k, l \in 1..n : id[k] = id[l] => k = l
  <2> DEFINE key == [k \in DOMAIN q |-> <<q[k].entity_id>>]
             other == [k \in DOMAIN e |-> <<e[k].entity_id>>]
  <2>1. /\ id \in [1..n -> Nat] /\ key = [k \in 1..n |-> <<id[k]>>]
    BY <1>3, <1>6
  <2>2. other = [k \in 1..n |-> <<e[k].entity_id>>]
    BY <1>3
  <2>3. Assembled(s).entities = Sorted(q, key) /\ Assembled(t).entities = Sorted(e, other)
    BY <1>a
  <2>4. \A k \in 1..n : e[k].entity_id = id[p[k]]
    BY <1>4, <1>d
  <2> HIDE DEF id, key, other
  <2>5. other = [k \in 1..n |-> <<id[p[k]]>>]
    BY <2>2, <2>4
  <2>6. /\ DOMAIN q = 1..n /\ DOMAIN e = 1..n /\ n \in Nat
        /\ Permutes(p, n) /\ \A k \in 1..n : e[k] = q[p[k]]
    BY <1>3, <1>4
  <2>7. Sorted(e, other) = Sorted(q, key)
    <3>1. ListedByNumber(n, p, id, q, key, e, other)
      BY <1>8, <2>1, <2>5, <2>6 DEF ListedByNumber
    <3> QED BY <3>1, SortedByNumberForgetsTheOrder
  <2>8. PathOrder(t) = PathOrder(s)
    BY <1>2 DEF PathOrder
  <2>9. Parsed(t) = Parsed(s)
    BY <1>2, <2>8, ParsedAlike
  <2>10. Assembled(t).triples = Assembled(s).triples
    BY <1>2 DEF Assembled
  <2>11. InVocabulary(t) <=> InVocabulary(s)
    <3>1. /\ \A k \in 1..n : e[k] = q[p[k]] /\ p[k] \in 1..n
      BY <1>4, <1>d
    <3>a. \A k \in 1..n : \E l \in 1..n : p[l] = k
      BY <1>4 DEF Permutes
    <3>2. (\A k \in 1..n : q[k].entity_type \in EntityTypes)
            <=> \A k \in 1..n : e[k].entity_type \in EntityTypes
      BY <3>1, <3>a
    <3> QED BY <1>2, <1>b, <1>c, <2>6, <3>2
  <2>12. Assembled(t).entities = Assembled(s).entities
    BY <2>3, <2>7
  <2> QED BY <1>5, <2>9, <2>10, <2>11, <2>12, BuiltAlike
<1>9. CASE ~\A k, l \in 1..n : id[k] = id[l] => k = l
  <2>1. BuildCorpus(s) = Rejected
    <3>1. BuildCorpus(s) # Rejected =>
            \A k, l \in 1..n : q[k].entity_id = q[l].entity_id => k = l
      BY EntitiesFacts DEF n, q
    <3> QED BY <1>9, <3>1
  <2>2. BuildCorpus(t) = Rejected
    <3>1. BuildCorpus(t) # Rejected =>
            \A k, l \in 1..Len(e) : e[k].entity_id = e[l].entity_id => k = l
      BY ONLY <1>5, EntitiesFacts DEF e
    <3> QED BY <1>3, <1>7, <1>9, <3>1
  <2> QED BY <1>5, <2>1, <2>2
<1> QED BY <1>8, <1>9

\* Triples in the ontology differ when their sort keys do not agree.
LEMMA TripleKeys ==
    /\ \A t \in SourceAssertions : InOntology(t) => TripleSortKey(t) \in [1..5 -> Nat]
    /\ \A t, u \in SourceAssertions :
            InOntology(t) /\ InOntology(u) /\ TripleSortKey(t) = TripleSortKey(u) => t = u
<1>1. DOMAIN Predicates = 1..15 /\ DOMAIN PopulationMethods = 1..2
  BY DEF Predicates, PopulationMethods
<1>2. ASSUME NEW t \in SourceAssertions, InOntology(t)
      PROVE  /\ PredicateRank(t.predicate) \in Nat
             /\ Predicates[PredicateRank(t.predicate)] = t.predicate
             /\ MethodRank(t.population_method) \in Nat
             /\ PopulationMethods[MethodRank(t.population_method)] = t.population_method
  <2>1. /\ \E i \in DOMAIN Predicates : Predicates[i] = t.predicate
        /\ \E i \in DOMAIN PopulationMethods : PopulationMethods[i] = t.population_method
    BY <1>2 DEF InOntology, Range
  <2>2. /\ PredicateRank(t.predicate) \in DOMAIN Predicates
        /\ Predicates[PredicateRank(t.predicate)] = t.predicate
    BY <2>1 DEF PredicateRank
  <2>3. /\ MethodRank(t.population_method) \in DOMAIN PopulationMethods
        /\ PopulationMethods[MethodRank(t.population_method)] = t.population_method
    BY <2>1 DEF MethodRank
  <2> QED BY <1>1, <2>2, <2>3
<1>3. ASSUME NEW t \in SourceAssertions, InOntology(t)
      PROVE  TripleSortKey(t) \in [1..5 -> Nat]
  <2>1. t.subject \in Nat /\ t.object \in Nat /\ t.source_clause_id \in Nat
    BY DEF SourceAssertions
  <2> QED BY <1>2, <1>3, <2>1 DEF TripleSortKey
<1>4. ASSUME NEW t \in SourceAssertions, NEW u \in SourceAssertions,
             InOntology(t), InOntology(u), TripleSortKey(t) = TripleSortKey(u)
      PROVE  t = u
  <2>1. /\ t.subject = u.subject /\ t.object = u.object
        /\ t.source_clause_id = u.source_clause_id
        /\ PredicateRank(t.predicate) = PredicateRank(u.predicate)
        /\ MethodRank(t.population_method) = MethodRank(u.population_method)
    BY <1>4 DEF TripleSortKey
  <2>2. t.predicate = u.predicate /\ t.population_method = u.population_method
    BY <1>2, <1>4, <2>1
  <2> QED BY <2>1, <2>2 DEF SourceAssertions
<1> QED BY <1>3, <1>4

\* The triples of the corpus are the assertions, and differ.
LEMMA TriplesFacts ==
    ASSUME NEW s, IsSource(s), Accepted(s)
    PROVE  LET n == Len(s.assertions) IN
           /\ n \in Nat /\ DOMAIN s.assertions = 1..n
           /\ \A i \in 1..n : /\ s.assertions[i] \in SourceAssertions
                             /\ InOntology(s.assertions[i])
           /\ Rearranged(Assembled(s).triples, s.assertions, n)
           /\ BuildCorpus(s) # Rejected =>
                \A i, j \in 1..n : s.assertions[i] = s.assertions[j] => i = j
<1> DEFINE n == Len(s.assertions)
           q == s.assertions
           key == [i \in DOMAIN q |-> TripleSortKey(q[i])]
           sorted == Assembled(s).triples
           k == 5
<1>1. n \in Nat /\ DOMAIN q = 1..n /\ \A i \in 1..n : q[i] \in SourceAssertions
  <2>1. q \in Seq(SourceAssertions)
    BY DEF IsSource
  <2> QED BY <2>1, LenProperties, ElementOfSeq
<1>2. sorted = Sorted(q, key)
  BY DEF Assembled
<1>3. \A i \in 1..n : InOntology(q[i])
  BY <1>1 DEF Accepted, InVocabulary
<1> HIDE DEF n, q
<1>4. k \in Nat /\ \A t \in SourceAssertions : InOntology(t) => TripleSortKey(t) \in [1..k -> Nat]
  BY TripleKeys
<1> HIDE DEF k
<1>5. key \in [1..n -> [1..k -> Nat]]
  BY <1>1, <1>3, <1>4
<1> HIDE DEF key
<1>6. Rearranged(sorted, q, n)
  <2>1. n \in Nat
    BY <1>1
  <2>2. DOMAIN q = 1..n
    BY <1>1
  <2>3. k \in Nat
    BY <1>4
  <2>4. Rearranged(Sorted(q, key), q, n)
    BY <1>5, <2>1, <2>2, <2>3, SortedPermutes
  <2> QED BY <1>2, <2>4
<1>7. ASSUME BuildCorpus(s) # Rejected
      PROVE  \A i, j \in 1..n : q[i] = q[j] => i = j
  <2>1. Cardinality(Range(sorted)) = Len(sorted)
    BY <1>7, BuiltFacts DEF NothingIsTwice
  <2> HIDE DEF sorted
  <2>2. sorted = [i \in 1..n |-> sorted[i]]
    BY <1>6 DEF Rearranged
  <2>3. n \in Nat
    BY <1>1
  <2>4. \A i, j \in 1..n : sorted[i] = sorted[j] => i = j
    BY <2>1, <2>2, <2>3, TriplesDiffer
  <2>5. PICK p : Permutes(p, n) /\ \A i \in 1..n : sorted[i] = q[p[i]]
    BY <1>6 DEF Rearranged
  <2> QED BY <2>3, <2>4, <2>5, DifferentInAnyOrder
<1> QED BY <1>1, <1>3, <1>6, <1>7 DEF n, q, sorted

\* Two assertions that change places do not change the artifact.
LEMMA AssertionOrderIsForgotten ==
    ASSUME NEW s, IsSource(s), NEW i \in DOMAIN s.assertions, NEW j \in DOMAIN s.assertions,
           NEW t, t = [s EXCEPT !["assertions"] = Exchanged(@, i, j)]
    PROVE  IsSource(t) /\ BuildCorpus(t) = BuildCorpus(s)
<1> DEFINE n == Len(s.assertions)
           q == s.assertions
           e == t.assertions
           key == [k \in DOMAIN q |-> TripleSortKey(q[k])]
           other == [k \in DOMAIN e |-> TripleSortKey(e[k])]
<1>1. q \in Seq(SourceAssertions) /\ DOMAIN s = {"files", "manifest", "entities", "assertions"}
  BY DEF IsSource
<1>2. /\ e = Exchanged(q, i, j) /\ DOMAIN t = DOMAIN s
      /\ t.files = s.files /\ t.manifest = s.manifest /\ t.entities = s.entities
  BY <1>1
<1>3. /\ e \in Seq(SourceAssertions) /\ Len(e) = n /\ n \in Nat
      /\ DOMAIN q = 1..n /\ DOMAIN e = 1..n
  BY <1>1, <1>2, ExchangedPermutes
<1>4. PICK p : Permutes(p, n) /\ \A k \in 1..n : e[k] = q[p[k]]
  <2>1. \E p : Rearranges(p, Exchanged(q, i, j), q, Len(q))
    BY <1>1, ExchangedPermutes
  <2> QED BY <1>2, <2>1 DEF Rearranges
<1>5. IsSource(t)
  BY <1>2, <1>3 DEF IsSource
<1>6. Assembled(s).triples = Sorted(q, key) /\ Assembled(t).triples = Sorted(e, other)
  BY DEF Assembled
<1>7. InVocabulary(s) <=>
        /\ \A k \in DOMAIN s.entities : s.entities[k].entity_type \in EntityTypes
        /\ \A k \in DOMAIN q : InOntology(q[k])
  BY DEF InVocabulary
<1>8. InVocabulary(t) <=>
        /\ \A k \in DOMAIN t.entities : t.entities[k].entity_type \in EntityTypes
        /\ \A k \in DOMAIN e : InOntology(e[k])
  BY DEF InVocabulary
<1>9. Accepted(s) /\ BuildCorpus(s) # Rejected =>
        \A k, l \in 1..Len(q) : q[k] = q[l] => k = l
  BY ONLY IsSource(s), TriplesFacts
<1>10. Accepted(t) /\ BuildCorpus(t) # Rejected =>
        \A k, l \in 1..Len(e) : e[k] = e[l] => k = l
  BY ONLY <1>5, TriplesFacts
<1> HIDE DEF n, q, e
<1>11. \A k \in 1..n : p[k] \in 1..n
  BY <1>4 DEF Permutes
<1>12. InVocabulary(t) <=> InVocabulary(s)
  <2>1. \A k \in 1..n : \E l \in 1..n : p[l] = k
    BY <1>4 DEF Permutes
  <2>2. (\A k \in 1..n : InOntology(q[k])) <=> \A k \in 1..n : InOntology(e[k])
    BY <1>4, <1>11, <2>1
  <2> QED BY <1>2, <1>3, <1>7, <1>8, <2>2
<1>13. Parsed(t) = Parsed(s)
  <2>1. PathOrder(t) = PathOrder(s)
    BY <1>2 DEF PathOrder
  <2> QED BY <1>2, <2>1, ParsedAlike
<1>14. Accepted(t) <=> Accepted(s)
  BY <1>12, <1>13 DEF Accepted
<1>15. CASE ~Accepted(s)
  BY <1>5, <1>14, <1>15 DEF BuildCorpus
<1>16. CASE Accepted(s) /\ \A k, l \in 1..n : q[k] = q[l] => k = l
  <2> DEFINE w == 5
  <2>1. /\ w \in Nat
        /\ \A u \in SourceAssertions : InOntology(u) => TripleSortKey(u) \in [1..w -> Nat]
    BY TripleKeys
  <2> HIDE DEF w
  <2>2. \A k \in 1..n : /\ q[k] \in SourceAssertions /\ e[k] \in SourceAssertions
                        /\ InOntology(q[k]) /\ InOntology(e[k])
    <3>1. \A k \in 1..n : q[k] \in SourceAssertions /\ e[k] \in SourceAssertions
      BY <1>1, <1>3, ElementOfSeq DEF n, q
    <3> QED BY <1>3, <1>7, <1>8, <1>14, <1>16, <3>1 DEF Accepted
  <2>3. key \in [1..n -> [1..w -> Nat]] /\ other \in [1..n -> [1..w -> Nat]]
    BY <1>3, <2>1, <2>2
  <2>4. \A k \in 1..n : e[k] = q[p[k]] /\ other[k] = key[p[k]]
    BY <1>3, <1>4, <1>11
  <2>5. \A k, l \in 1..n : key[k] = key[l] => k = l
    BY <1>3, <1>16, <2>2, TripleKeys
  <2> HIDE DEF key, other
  <2>6. ListedOtherwise(n, w, p, q, key, e, other)
    BY <1>3, <1>4, <2>1, <2>3, <2>4, <2>5 DEF ListedOtherwise
  <2>7. Sorted(e, other) = Sorted(q, key)
    BY <2>6, SortedForgetsTheOrder
  <2>8. Assembled(t).triples = Assembled(s).triples
    BY <1>6, <2>7
  <2>9. Assembled(t).entities = Assembled(s).entities
    BY <1>2 DEF Assembled
  <2> QED BY <1>5, <1>12, <1>13, <2>8, <2>9, BuiltAlike
<1>17. CASE Accepted(s) /\ ~\A k, l \in 1..n : q[k] = q[l] => k = l
  <2>1. ~\A k, l \in 1..n : e[k] = e[l] => k = l
    <3>1. n \in Nat
      BY <1>3
    <3> QED BY <1>4, <1>17, <3>1, RepeatedInAnyOrder
  <2>2. BuildCorpus(s) = Rejected /\ BuildCorpus(t) = Rejected
    BY <1>3, <1>9, <1>10, <1>14, <1>17, <2>1 DEF n, q
  <2> QED BY <1>5, <2>2
<1> QED BY <1>15, <1>16, <1>17

(***************************************************************************)
(* What holds of every build.                                              *)
(***************************************************************************)

\* Authors rearrange typed sources, and what they build from them is what
\* was built before (build_corpus).
LEMMA BuildingKeeps ==
    ASSUME BuildInv, [BuildNext]_buildVars
    PROVE  BuildInv'
<1>1. CASE Build
  BY <1>1 DEF Build, BuildInv
<1>2. ASSUME NEW part \in {"manifest", "entities", "assertions"}, Rearrange(part)
      PROVE  BuildInv'
  <2>1. PICK i \in DOMAIN source[part], j \in DOMAIN source[part] :
          source' = [source EXCEPT ![part] = Exchanged(@, i, j)]
    BY <1>2 DEF Rearrange
  <2>2. IsSource(source') /\ BuildCorpus(source') = BuildCorpus(source)
    <3>1. CASE part = "manifest"
      <4>1. i \in DOMAIN source.manifest /\ j \in DOMAIN source.manifest
        BY <3>1
      <4>2. source' = [source EXCEPT !["manifest"] = Exchanged(@, i, j)]
        BY <2>1, <3>1
      <4>3. IsSource(source)
        BY DEF BuildInv
      <4> QED BY ONLY <4>1, <4>2, <4>3, ManifestOrderIsForgotten
    <3>2. CASE part = "entities"
      <4>1. i \in DOMAIN source.entities /\ j \in DOMAIN source.entities
        BY <3>2
      <4>2. source' = [source EXCEPT !["entities"] = Exchanged(@, i, j)]
        BY <2>1, <3>2
      <4>3. IsSource(source)
        BY DEF BuildInv
      <4> QED BY ONLY <4>1, <4>2, <4>3, EntityOrderIsForgotten
    <3>3. CASE part = "assertions"
      <4>1. i \in DOMAIN source.assertions /\ j \in DOMAIN source.assertions
        BY <3>3
      <4>2. source' = [source EXCEPT !["assertions"] = Exchanged(@, i, j)]
        BY <2>1, <3>3
      <4>3. IsSource(source)
        BY DEF BuildInv
      <4> QED BY ONLY <4>1, <4>2, <4>3, AssertionOrderIsForgotten
    <3> QED BY <3>1, <3>2, <3>3
  <2> QED BY <1>2, <2>2 DEF Rearrange, BuildInv
<1>3. CASE UNCHANGED buildVars
  BY <1>3 DEF buildVars, BuildInv
<1> QED BY <1>1, <1>2, <1>3 DEF BuildNext

(***************************************************************************)
(* The graph of a finite sequence of triples.                              *)
(***************************************************************************)

\* An edge carries the source clause of one of its triples.
LEMMA EdgeHasItsSource ==
    ASSUME NEW ts, NEW n \in Nat, DOMAIN ts = 1..n, NEW s, NEW p, NEW o, Edge(ts, s, p, o)
    PROVE  \E i \in 1..n : /\ ts[i].subject = s /\ ts[i].predicate = p /\ ts[i].object = o
                           /\ ts[i].source_clause_id = EdgeSource(ts, s, p, o)
<1> DEFINE places == {i \in DOMAIN ts : /\ ts[i].subject = s
                                       /\ ts[i].predicate = p
                                       /\ ts[i].object = o}
<1>1. places \in SUBSET Nat /\ places \in SUBSET (1..n) /\ places # {}
  BY DEF Edge
<1>2. IsFiniteSet(1..n)
  BY FS_Interval
<1>3. EdgeSource(ts, s, p, o) = ts[Max(places)].source_clause_id
  BY DEF EdgeSource
<1> HIDE DEF places
<1>4. IsFiniteSet(places)
  BY <1>1, <1>2, FS_Subset
<1>5. Max(places) \in places
  BY <1>1, <1>4, ExtremesExist
<1> QED BY <1>3, <1>5 DEF places

\* Nodes that an edge joins were first joined somewhere.
LEMMA NodesAreJoined ==
    ASSUME NEW ts, NEW n \in Nat, DOMAIN ts = 1..n, NEW s, NEW p, NEW o, Edge(ts, s, p, o)
    PROVE  /\ FirstJoin(ts, s, o) \in 1..n
           /\ ts[FirstJoin(ts, s, o)].subject = s
           /\ ts[FirstJoin(ts, s, o)].object = o
<1> DEFINE places == {i \in DOMAIN ts : ts[i].subject = s /\ ts[i].object = o}
<1>1. places \in SUBSET Nat /\ places \in SUBSET (1..n) /\ places # {}
  BY DEF Edge
<1>2. IsFiniteSet(1..n)
  BY FS_Interval
<1>3. FirstJoin(ts, s, o) = Min(places)
  BY DEF FirstJoin
<1> HIDE DEF places
<1>4. IsFiniteSet(places)
  BY <1>1, <1>2, FS_Subset
<1>5. Min(places) \in places
  BY <1>1, <1>4, ExtremesExist
<1> QED BY <1>1, <1>3, <1>5 DEF places

\* The nodes are finitely many.
LEMMA EndsAreFinite ==
    ASSUME NEW ts, NEW n \in Nat, DOMAIN ts = 1..n
    PROVE  /\ IsFiniteSet({ts[i].object : i \in DOMAIN ts})
           /\ IsFiniteSet({ts[i].subject : i \in DOMAIN ts})
<1> DEFINE objects == {ts[i].object : i \in DOMAIN ts}
           subjects == {ts[i].subject : i \in DOMAIN ts}
           f == [i \in 1..n |-> ts[i].object]
           g == [i \in 1..n |-> ts[i].subject]
<1>1. IsFiniteSet(1..n)
  BY FS_Interval
<1>2. f \in [1..n -> objects] /\ \A x \in objects : \E i \in 1..n : f[i] = x
  OBVIOUS
<1>3. g \in [1..n -> subjects] /\ \A x \in subjects : \E i \in 1..n : g[i] = x
  OBVIOUS
<1> HIDE DEF objects, subjects, f, g
<1>4. f \in Surjection(1..n, objects) /\ g \in Surjection(1..n, subjects)
  BY <1>2, <1>3 DEF Surjection
<1>5. IsFiniteSet(objects)
  BY <1>1, <1>4, FS_Surjection
<1>6. IsFiniteSet(subjects)
  BY <1>1, <1>4, FS_Surjection
<1> QED BY <1>5, <1>6 DEF objects, subjects

\* A node of the graph has finitely many neighbours.
LEMMA NeighboursAreFinite ==
    ASSUME NEW ts, NEW n \in Nat, DOMAIN ts = 1..n, NEW x, NEW p
    PROVE  IsFiniteSet(Outgoing(ts, x, p)) /\ IsFiniteSet(Incoming(ts, x, p))
<1> DEFINE objects == {ts[i].object : i \in DOMAIN ts}
           subjects == {ts[i].subject : i \in DOMAIN ts}
<1>1. IsFiniteSet(objects) /\ IsFiniteSet(subjects)
  BY EndsAreFinite
<1>2. Outgoing(ts, x, p) \in SUBSET objects /\ Incoming(ts, x, p) \in SUBSET subjects
  BY DEF Outgoing, Incoming
<1> HIDE DEF objects, subjects
<1>3. IsFiniteSet(Outgoing(ts, x, p))
  BY <1>1, <1>2, FS_Subset
<1>4. IsFiniteSet(Incoming(ts, x, p))
  BY <1>1, <1>2, FS_Subset
<1> QED BY <1>3, <1>4

\* Neighbours are the ends of edges.
LEMMA NeighboursAreEdges ==
    ASSUME NEW ts, NEW x, NEW y, NEW p
    PROVE  /\ y \in Outgoing(ts, x, p) <=> Edge(ts, x, p, y)
           /\ y \in Incoming(ts, x, p) <=> Edge(ts, y, p, x)
BY DEF Outgoing, Incoming, Edge

(***************************************************************************)
(* Cutting off a sorted list.                                              *)
(***************************************************************************)

\* Less than limit elements come before one of at most limit elements.
LEMMA FewComeBefore ==
    ASSUME NEW S, IsFiniteSet(S), NEW limit \in Nat, Cardinality(S) <= limit,
           NEW x \in S, NEW before \in SUBSET S, x \notin before
    PROVE  Cardinality(before) < limit
<1>1. Cardinality(S) \in Nat
  BY FS_CardinalityType
<1>2. before # S
  OBVIOUS
<1>3. IsFiniteSet(before) /\ Cardinality(before) <= Cardinality(S)
      /\ (Cardinality(before) = Cardinality(S) => before = S)
  BY FS_Subset
<1>4. Cardinality(before) \in Nat
  BY <1>3, FS_CardinalityType
<1> QED BY <1>1, <1>2, <1>3, <1>4

\* The first neighbours are neighbours, and all of them if limit allows.
LEMMA FirstNeighbours ==
    ASSUME NEW ts, NEW n \in Nat, DOMAIN ts = 1..n, NEW x, NEW p, NEW limit \in Nat
    PROVE  /\ FirstOutgoing(ts, x, p, limit) \subseteq Outgoing(ts, x, p)
           /\ FirstIncoming(ts, x, p, limit) \subseteq Incoming(ts, x, p)
           /\ Cardinality(Outgoing(ts, x, p)) <= limit
                => FirstOutgoing(ts, x, p, limit) = Outgoing(ts, x, p)
<1> DEFINE out == Outgoing(ts, x, p)
           before(o) == {r \in out : FirstJoin(ts, x, r) < FirstJoin(ts, x, o)}
<1>1. FirstOutgoing(ts, x, p, limit) = {o \in out : Cardinality(before(o)) < limit}
  BY DEF FirstOutgoing, Least
<1>2. FirstIncoming(ts, x, p, limit) \subseteq Incoming(ts, x, p)
  BY DEF FirstIncoming, Least
<1>3. ASSUME Cardinality(out) <= limit, NEW o \in out
      PROVE  Cardinality(before(o)) < limit
  <2>1. IsFiniteSet(out)
    BY NeighboursAreFinite
  <2>2. FirstJoin(ts, x, o) \in Nat
    BY NeighboursAreEdges, NodesAreJoined
  <2>3. before(o) \in SUBSET out /\ o \notin before(o)
    BY <2>2
  <2> HIDE DEF out, before
  <2> QED BY <1>3, <2>1, <2>3, FewComeBefore
<1> QED BY <1>1, <1>2, <1>3

\* There is a first neighbour if there is one.
LEMMA FirstIncomingExists ==
    ASSUME NEW ts, NEW n \in Nat, DOMAIN ts = 1..n, NEW x, NEW p, Incoming(ts, x, p) # {}
    PROVE  FirstIncoming(ts, x, p, 1) # {}
<1> DEFINE in == Incoming(ts, x, p)
           J == {FirstJoin(ts, s, x) : s \in in}
           before(o) == {r \in in : FirstJoin(ts, r, x) < FirstJoin(ts, o, x)}
<1>1. FirstIncoming(ts, x, p, 1) = {o \in in : Cardinality(before(o)) < 1}
  BY DEF FirstIncoming, Least
<1>2. \A s \in in : FirstJoin(ts, s, x) \in 1..n
  BY NeighboursAreEdges, NodesAreJoined
<1>3. J \in SUBSET (1..n) /\ J \in SUBSET Nat /\ J # {}
  BY <1>2
<1>4. IsFiniteSet(1..n)
  BY FS_Interval
<1>5. PICK j \in J : \A i \in J : j <= i
  <2> HIDE DEF J
  <2>1. IsFiniteSet(J)
    BY <1>3, <1>4, FS_Subset
  <2> QED BY <1>3, <2>1, ExtremesExist
<1>6. PICK s \in in : FirstJoin(ts, s, x) = j
  OBVIOUS
<1>7. before(s) = {}
  <2>1. ASSUME NEW r \in in
        PROVE  ~(FirstJoin(ts, r, x) < FirstJoin(ts, s, x))
    <3>1. FirstJoin(ts, r, x) \in J /\ FirstJoin(ts, r, x) \in Nat /\ j \in Nat
      BY <1>2, <1>3
    <3>2. j <= FirstJoin(ts, r, x)
      BY <1>5, <3>1
    <3> QED BY <1>6, <3>1, <3>2
  <2> QED BY <2>1
<1>8. Cardinality(before(s)) = 0
  BY <1>7, FS_EmptySet
<1> QED BY <1>1, <1>6, <1>8

(***************************************************************************)
(* The operative clause.                                                   *)
(***************************************************************************)

\* The triples of a corpus.
IsGraph(ts, n) ==
    /\ n \in Nat /\ DOMAIN ts = 1..n
    /\ \A i \in 1..n : ts[i] \in SourceAssertions

\* A finite ordered set has a last element.
LEMMA LastExists ==
    ASSUME NEW S, IsFiniteSet(S), S # {}, NEW before, IsOrder(S, before)
    PROVE  \E x \in S : \A y \in S : y = x \/ y \in before[x]
<1> DEFINE n == Cardinality(S)
           order == InOrder(before)
<1>1. /\ n \in Nat /\ order \in [1..n -> S]
      /\ \A x \in S : /\ Cardinality(before[x]) + 1 \in 1..n
                      /\ order[Cardinality(before[x]) + 1] = x
      /\ \A i, j \in 1..n : order[i] \in before[order[j]] <=> i < j
  BY InOrderEnumerates
<1>2. n # 0
  BY FS_CardinalityType, FS_EmptySet
<1> HIDE DEF n, order
<1>3. n \in 1..n /\ order[n] \in S
  BY <1>1, <1>2
<1>4. \A y \in S : \E i \in 1..n : order[i] = y
  BY <1>1
<1>5. \A i \in 1..n : i = n \/ order[i] \in before[order[n]]
  BY <1>1, <1>3
<1> QED BY <1>3, <1>4, <1>5

\* Where the loops meet a superseding clause determines it.
LEMMA SupersedingFacts ==
    ASSUME NEW ts, NEW n, IsGraph(ts, n), NEW contract, NEW base
    PROVE  LET found == Superseding(ts, contract, base)
               joined(q) == FirstJoin(ts, q[1], contract)
               contained(q) == FirstJoin(ts, q[1], q[2]) IN
           /\ IsFiniteSet(found)
           /\ \A q \in found :
                /\ q[2] \in Nat /\ joined(q) \in Nat /\ contained(q) \in Nat
                /\ Edge(ts, q[1], "AMENDS", contract)
                /\ Edge(ts, q[1], "CONTAINS", q[2])
                /\ Edge(ts, q[2], "SUPERSEDES", base)
           /\ \A q, r \in found : joined(q) = joined(r) /\ q[2] = r[2] => q = r
           /\ \A q, r \in found :
                joined(q) = joined(r) /\ contained(q) = contained(r) => q = r
<1> DEFINE found == Superseding(ts, contract, base)
           joined(q) == FirstJoin(ts, q[1], contract)
           contained(q) == FirstJoin(ts, q[1], q[2])
           amendments == Incoming(ts, contract, "AMENDS")
           objects == {ts[i].object : i \in DOMAIN ts}
<1>1. n \in Nat /\ DOMAIN ts = 1..n /\ \A i \in 1..n : ts[i] \in SourceAssertions
  BY DEF IsGraph
<1>2. /\ found \in SUBSET (amendments \X objects)
      /\ \A q \in found : /\ Edge(ts, q[1], "CONTAINS", q[2])
                         /\ Edge(ts, q[2], "SUPERSEDES", base)
  BY DEF Superseding
<1>3. IsFiniteSet(found)
  <2>1. IsFiniteSet(amendments) /\ IsFiniteSet(objects)
    BY <1>1, EndsAreFinite, NeighboursAreFinite
  <2> HIDE DEF amendments, objects, found
  <2>2. IsFiniteSet(amendments \X objects)
    BY <2>1, FS_Product
  <2> QED BY <1>2, <2>2, FS_Subset
<1>4. ASSUME NEW q \in found
      PROVE  /\ q = <<q[1], q[2]>> /\ q[2] \in Nat
             /\ Edge(ts, q[1], "AMENDS", contract)
             /\ joined(q) \in 1..n /\ ts[joined(q)].subject = q[1]
             /\ contained(q) \in 1..n /\ ts[contained(q)].subject = q[1]
             /\ ts[contained(q)].object = q[2]
  <2>1. q = <<q[1], q[2]>> /\ q[1] \in amendments /\ q[2] \in objects
    BY <1>2
  <2>2. Edge(ts, q[1], "AMENDS", contract)
    BY <2>1, NeighboursAreEdges
  <2>3. joined(q) \in 1..n /\ ts[joined(q)].subject = q[1]
    BY <1>1, <2>2, NodesAreJoined
  <2>4. /\ contained(q) \in 1..n /\ ts[contained(q)].subject = q[1]
        /\ ts[contained(q)].object = q[2]
    BY <1>1, <1>2, NodesAreJoined
  <2>5. q[2] \in Nat
    BY <1>1, <2>1 DEF SourceAssertions
  <2> QED BY <2>1, <2>2, <2>3, <2>4, <2>5
<1> HIDE DEF found, joined, contained
<1>5. \A q, r \in found : joined(q) = joined(r) /\ q[2] = r[2] => q = r
  BY <1>4
<1>6. \A q, r \in found : joined(q) = joined(r) /\ contained(q) = contained(r) => q = r
  BY <1>4
<1>7. \A q \in found : joined(q) \in Nat /\ contained(q) \in Nat
  BY <1>1, <1>4
<1> QED BY <1>2, <1>3, <1>4, <1>5, <1>6, <1>7 DEF found, joined, contained

\* The candidate bound cuts nothing that it allows.
LEMMA AllResolutions ==
    ASSUME NEW ts, NEW n, IsGraph(ts, n), NEW contract, NEW base, NEW max \in Nat,
           Cardinality(Superseding(ts, contract, base)) <= max
    PROVE  Resolutions(ts, contract, base, max) = Superseding(ts, contract, base)
<1> DEFINE found == Superseding(ts, contract, base)
           before(q) == {r \in found : VisitedBefore(ts, contract, r, q)}
<1>1. Resolutions(ts, contract, base, max) = {q \in found : Cardinality(before(q)) < max}
  BY DEF Resolutions
<1>2. ASSUME NEW q \in found
      PROVE  Cardinality(before(q)) < max
  <2>1. IsFiniteSet(found)
    BY SupersedingFacts
  <2>2. FirstJoin(ts, q[1], contract) \in Nat /\ FirstJoin(ts, q[1], q[2]) \in Nat
    BY SupersedingFacts
  <2>3. ~VisitedBefore(ts, contract, q, q)
    BY <2>2 DEF VisitedBefore
  <2>4. before(q) \in SUBSET found /\ q \notin before(q)
    BY <2>3
  <2>5. Cardinality(found) <= max
    OBVIOUS
  <2> HIDE DEF before, found
  <2> QED BY <2>1, <2>4, <2>5, FewComeBefore
<1> QED BY <1>1, <1>2

\* The clause chosen is one found, and none found has a greater id.
LEMMA ChosenIsGreatest ==
    ASSUME NEW ts, NEW n, IsGraph(ts, n), NEW contract, NEW base, NEW max,
           Resolutions(ts, contract, base, max) # {}
    PROVE  LET q == Chosen(ts, contract, base, max)
               kept == Resolutions(ts, contract, base, max) IN
           /\ q \in kept /\ q \in Superseding(ts, contract, base)
           /\ \A r \in kept : r[2] <= q[2]
<1> DEFINE found == Superseding(ts, contract, base)
           kept == Resolutions(ts, contract, base, max)
           joined(q) == FirstJoin(ts, q[1], contract)
           contained(q) == FirstJoin(ts, q[1], q[2])
           before == [q \in kept |->
                        {r \in kept : \/ r[2] < q[2]
                                      \/ r[2] = q[2] /\ VisitedBefore(ts, contract, r, q)}]
<1>1. kept \in SUBSET found
  BY DEF Resolutions
<1>2. /\ IsFiniteSet(found)
      /\ \A q \in found : q[2] \in Nat /\ joined(q) \in Nat /\ contained(q) \in Nat
      /\ \A q, r \in found : joined(q) = joined(r) /\ q[2] = r[2] => q = r
  BY SupersedingFacts
<1>3. \A q, r : VisitedBefore(ts, contract, r, q) <=>
        \/ joined(r) < joined(q)
        \/ joined(r) = joined(q) /\ contained(r) < contained(q)
  BY DEF VisitedBefore
<1>4. Chosen(ts, contract, base, max) =
        CHOOSE q \in kept : \A r \in kept :
            \/ r[2] < q[2]
            \/ r = q
            \/ r[2] = q[2] /\ VisitedBefore(ts, contract, r, q)
  BY DEF Chosen
<1> HIDE DEF kept, found, joined, contained
<1>5. IsFiniteSet(kept)
  BY <1>1, <1>2, FS_Subset
<1>6. before \in [kept -> SUBSET kept]
  OBVIOUS
<1>7. \A q, r \in kept : r \in before[q] <=>
        \/ r[2] < q[2]
        \/ /\ r[2] = q[2]
           /\ \/ joined(r) < joined(q)
              \/ joined(r) = joined(q) /\ contained(r) < contained(q)
  <2> TAKE q, r \in kept
  <2>1. r \in before[q] <=>
            \/ r[2] < q[2]
            \/ r[2] = q[2] /\ VisitedBefore(ts, contract, r, q)
    OBVIOUS
  <2>2. VisitedBefore(ts, contract, r, q) <=>
            \/ joined(r) < joined(q)
            \/ joined(r) = joined(q) /\ contained(r) < contained(q)
    BY <1>3
  <2> QED BY <2>1, <2>2
<1>8. \A q \in kept : q[2] \in Nat /\ joined(q) \in Nat /\ contained(q) \in Nat
  BY <1>1, <1>2
<1>9. \A q, r \in kept : joined(q) = joined(r) /\ q[2] = r[2] => q = r
  BY <1>1, <1>2
<1> HIDE DEF before
<1>10. IsOrder(kept, before)
  <2>1. \A q \in kept : q \notin before[q]
    BY <1>7, <1>8
  <2>2. ASSUME NEW q \in kept, NEW r \in kept, q # r
        PROVE  q \in before[r] \/ r \in before[q]
    <3>1. \/ q[2] < r[2] \/ r[2] < q[2]
          \/ q[2] = r[2] /\ (joined(q) < joined(r) \/ joined(r) < joined(q))
      BY <1>8, <1>9, <2>2
    <3> QED BY <1>7, <3>1
  <2>3. ASSUME NEW q \in kept, NEW r \in kept, NEW t \in kept,
               q \in before[r], r \in before[t]
        PROVE  q \in before[t]
    BY <1>7, <1>8, <2>3
  <2> QED BY <1>6, <2>1, <2>2, <2>3 DEF IsOrder
<1>11. \E q \in kept : \A r \in kept : r = q \/ r \in before[q]
  <2>1. kept # {}
    BY DEF kept
  <2> QED BY <1>5, <1>10, <2>1, LastExists
<1>12. \E q \in kept : \A r \in kept :
            \/ r[2] < q[2]
            \/ r = q
            \/ r[2] = q[2] /\ VisitedBefore(ts, contract, r, q)
  BY <1>11 DEF before
<1> DEFINE c == Chosen(ts, contract, base, max)
<1>13. c \in kept /\ \A r \in kept : r[2] < c[2] \/ r = c \/ r[2] = c[2]
  BY <1>4, <1>12
<1> HIDE DEF c
<1>14. \A r \in kept : r[2] <= c[2]
  BY <1>8, <1>13
<1> QED BY <1>1, <1>13, <1>14 DEF kept, found, c

(***************************************************************************)
(* The answers of the service.                                             *)
(***************************************************************************)

\* The service has a corpus that ingestion built.
HasCorpus ==
    IsSource(source) /\ artifact = BuildCorpus(source) /\ artifact # Rejected

\* The answer is the one to the question asked.
AnswerIsGiven ==
    \/ /\ asked.operation = "exhibit_clauses"
       /\ answer = ClausesAnswer(ExhibitClauses(triples, asked.object, MaxResults))
    \/ /\ asked.operation = "triggered_obligations"
       /\ answer \in {ObligationsAnswer(asked.subjects, asked.object), ValueError}
    \/ /\ asked.operation = "compare"
       /\ answer \in {[kind |-> "comparison",
                       comparison |-> CompareContracts(artifact, asked.subjects,
                                                       asked.object, MaxResults)],
                      ValueError}
    \/ /\ asked.operation \in {"operative_clause", "hero_comparison"}
       /\ \E contract : /\ asked.subjects = {contract}
                        /\ answer \in {Resolution(contract, asked.object), KeyError}
    \/ /\ asked.operation = "conflicts"
       /\ answer = [kind |-> "conflicts",
                    path |-> ConflictPath(triples, asked.object, MaxResults)]
    \/ /\ asked.operation = "missing_evidence"
       /\ answer = ClausesAnswer(FirstOutgoing(triples, asked.object, "REFERENCES",
                                               MaxResults) \cap Sentinels)
    \/ /\ asked.operation = "provenance"
       /\ answer.kind \in {"provenance", "lookup_error"}

\* What holds while a caller has an answer.
ServiceInv == HasCorpus /\ AnswerIsGiven

\* The artifact's triples are a finite sequence of typed triples.
LEMMA TriplesAreAGraph ==
    ASSUME HasCorpus
    PROVE  \E n : IsGraph(triples, n)
<1> DEFINE n == Len(source.assertions)
<1>1. IsSource(source) /\ artifact = Assembled(source) /\ Accepted(source)
  BY BuiltFacts DEF HasCorpus
<1>2. /\ n \in Nat /\ \A i \in 1..n : source.assertions[i] \in SourceAssertions
      /\ Rearranged(triples, source.assertions, n)
  BY <1>1, TriplesFacts DEF triples
<1> HIDE DEF n
<1>3. /\ DOMAIN triples = 1..n
      /\ \A i \in 1..n : triples[i] \in SourceAssertions
  <2>1. triples = [i \in 1..n |-> triples[i]]
    BY <1>2 DEF Rearranged
  <2>2. \A i \in 1..n : \E j \in 1..n : triples[i] = source.assertions[j]
    BY <1>2, RearrangedHasTheElements
  <2> HIDE DEF triples
  <2> QED BY <1>2, <2>1, <2>2
<1> QED BY <1>2, <1>3 DEF IsGraph

\* A step stands for the last triple of its edge, source clause included.
LEMMA StepIsReviewed ==
    ASSUME HasCorpus, NEW s, NEW p, NEW o, Edge(triples, s, p, o)
    PROVE  Reviewed(Step(triples, s, p, o))
<1>1. PICK n : IsGraph(triples, n)
  BY TriplesAreAGraph
<1>2. n \in Nat /\ DOMAIN triples = 1..n
  BY <1>1 DEF IsGraph
<1>3. PICK i \in 1..n : /\ triples[i].subject = s /\ triples[i].predicate = p
                        /\ triples[i].object = o
                        /\ triples[i].source_clause_id = EdgeSource(triples, s, p, o)
  BY <1>2, EdgeHasItsSource
<1>4. triples[i] \in Range(triples)
  BY <1>2 DEF Range
<1>5. /\ Step(triples, s, p, o).subject = s
      /\ Step(triples, s, p, o).predicate = p
      /\ Step(triples, s, p, o).object = o
      /\ Step(triples, s, p, o).source_clause_id = EdgeSource(triples, s, p, o)
  BY DEF Step
<1> QED BY <1>3, <1>4, <1>5 DEF Reviewed

\* Every step of a resolution stands for a triple.
LEMMA ResolutionIsReviewed ==
    ASSUME HasCorpus, NEW contract, NEW base,
           NEW step \in OperativePath(triples, contract, base, MaxResults)
    PROVE  Reviewed(step)
<1> DEFINE q == Chosen(triples, contract, base, MaxResults)
<1>1. PICK n : IsGraph(triples, n)
  BY TriplesAreAGraph
<1>2. /\ Resolutions(triples, contract, base, MaxResults) # {}
      /\ step \in {Step(triples, q[1], "AMENDS", contract),
                   Step(triples, q[1], "CONTAINS", q[2]),
                   Step(triples, q[2], "SUPERSEDES", base)}
  BY DEF OperativePath
<1>3. q \in Superseding(triples, contract, base)
  BY <1>1, <1>2, ChosenIsGreatest
<1> HIDE DEF q
<1>4. /\ Edge(triples, q[1], "AMENDS", contract)
      /\ Edge(triples, q[1], "CONTAINS", q[2])
      /\ Edge(triples, q[2], "SUPERSEDES", base)
  BY <1>1, <1>3, SupersedingFacts
<1> QED BY <1>2, <1>4, StepIsReviewed

\* Every step of a conflict path stands for a triple.
LEMMA ConflictIsReviewed ==
    ASSUME HasCorpus, NEW base, NEW step \in ConflictPath(triples, base, MaxResults)
    PROVE  Reviewed(step)
<1>1. PICK o : /\ o \in Outgoing(triples, base, "CONFLICTS_WITH")
              /\ step = Step(triples, base, "CONFLICTS_WITH", o)
  BY DEF ConflictPath, ConflictTargets
<1> QED BY <1>1, NeighboursAreEdges, StepIsReviewed

\* An obligation listed is owed by the party on the event and created by the
\* clause, and its path is reviewed.
LEMMA ObligationIsReviewed ==
    ASSUME HasCorpus, NEW party, NEW event,
           NEW o \in ObligationsForParty(triples, party, event, MaxResults)
    PROVE  /\ o.owed_by = party
           /\ Edge(triples, o.obligation_id, "OWED_BY", party)
           /\ Edge(triples, o.obligation_id, "TRIGGERED_BY", event)
           /\ Edge(triples, o.clause_id, "CREATES_OBLIGATION", o.obligation_id)
           /\ \A step \in o.path : Reviewed(step)
<1>1. PICK n : n \in Nat /\ DOMAIN triples = 1..n
  BY TriplesAreAGraph DEF IsGraph
<1>2. PICK id \in OwedOn(triples, party, event) : o = ObligationResolution(triples, party, id)
  BY DEF ObligationsForParty, Least
<1>3. /\ id \in Incoming(triples, party, "OWED_BY")
      /\ Trigger(triples, id) = {event} /\ Creator(triples, id) # {}
  BY <1>2 DEF OwedOn
<1> DEFINE clause == CHOOSE c \in Creator(triples, id) : TRUE
<1>4. /\ o.obligation_id = id /\ o.owed_by = party /\ o.clause_id = clause
      /\ o.path = {Step(triples, clause, "CREATES_OBLIGATION", id),
                   Step(triples, id, "OWED_BY", party)}
                  \cup {Step(triples, id, "TRIGGERED_BY", e) : e \in Trigger(triples, id)}
  BY <1>2 DEF ObligationResolution
<1>5. clause \in Creator(triples, id)
  BY <1>3
<1> HIDE DEF clause
<1>6. Creator(triples, id) \subseteq Incoming(triples, id, "CREATES_OBLIGATION")
  BY <1>1, FirstNeighbours DEF Creator
<1>7. Trigger(triples, id) \subseteq Outgoing(triples, id, "TRIGGERED_BY")
  BY <1>1, FirstNeighbours DEF Trigger
<1>8. Edge(triples, id, "OWED_BY", party)
  BY <1>3, NeighboursAreEdges
<1>9. Edge(triples, id, "TRIGGERED_BY", event)
  <2>1. event \in Outgoing(triples, id, "TRIGGERED_BY")
    BY <1>3, <1>7
  <2> QED BY <2>1, NeighboursAreEdges
<1>10. Edge(triples, clause, "CREATES_OBLIGATION", id)
  <2>1. clause \in Incoming(triples, id, "CREATES_OBLIGATION")
    BY <1>5, <1>6
  <2> QED BY <2>1, NeighboursAreEdges
<1>11. \A step \in o.path : Reviewed(step)
  <2>1. \A step \in o.path : \/ step = Step(triples, clause, "CREATES_OBLIGATION", id)
                            \/ step = Step(triples, id, "OWED_BY", party)
                            \/ step = Step(triples, id, "TRIGGERED_BY", event)
    BY <1>3, <1>4
  <2> QED BY <1>8, <1>9, <1>10, <2>1, StepIsReviewed
<1> QED BY <1>4, <1>8, <1>9, <1>10, <1>11

\* Every path of every answer is one of these.
LEMMA AnswersAreReviewed ==
    ASSUME ServiceInv
    PROVE  PathsAreReviewed
<1>1. HasCorpus
  BY DEF ServiceInv
<1>2. ASSUME answer.kind = "resolution", NEW step \in answer.path
      PROVE  Reviewed(step)
  <2>1. PICK contract : answer = Resolution(contract, asked.object)
    BY <1>2 DEF ServiceInv, AnswerIsGiven, Nothing, ClausesAnswer, ObligationsAnswer,
                GraphLookupError, ValueError, KeyError
  <2>2. answer.path = OperativePath(triples, contract, asked.object, MaxResults)
    BY <1>2, <2>1 DEF Resolution, GraphLookupError
  <2> QED BY <1>1, <1>2, <2>2, ResolutionIsReviewed
<1>3. ASSUME answer.kind = "conflicts", NEW step \in answer.path
      PROVE  Reviewed(step)
  <2>1. answer.path = ConflictPath(triples, asked.object, MaxResults)
    BY <1>3 DEF ServiceInv, AnswerIsGiven, Nothing, ClausesAnswer, ObligationsAnswer,
                Resolution, GraphLookupError, ValueError, KeyError
  <2> QED BY <1>1, <1>3, <2>1, ConflictIsReviewed
<1>4. ASSUME answer.kind = "obligations", NEW o \in answer.obligations, NEW step \in o.path
      PROVE  Reviewed(step)
  <2>1. answer = ObligationsAnswer(asked.subjects, asked.object)
    BY <1>4 DEF ServiceInv, AnswerIsGiven, Nothing, ClausesAnswer,
                Resolution, GraphLookupError, ValueError, KeyError
  <2>2. PICK p \in asked.subjects :
            o \in ObligationsForParty(triples, p, asked.object, MaxResults)
    BY <1>4, <2>1 DEF ObligationsAnswer, GraphLookupError
  <2> QED BY <1>1, <1>4, <2>2, ObligationIsReviewed
<1> QED BY <1>2, <1>3, <1>4 DEF PathsAreReviewed

\* The clause is the base or a candidate, and the greatest of all that
\* supersede is superseded by none.
LEMMA AnswersAreCurrent ==
    ASSUME ServiceInv
    PROVE  OperativeLanguageIsCurrent
<1> SUFFICES ASSUME Resolved, NEW contract \in asked.subjects
             PROVE  /\ \/ answer.operative_clause_id = asked.object
                       \/ answer.operative_clause_id
                            \in Superseders(contract, asked.object)
                    /\ WellReviewed(contract, asked.object) =>
                        Superseders(contract, answer.operative_clause_id) = {}
  BY DEF OperativeLanguageIsCurrent
<1> DEFINE base == asked.object
           found == Superseding(triples, contract, base)
           kept == Resolutions(triples, contract, base, MaxResults)
<1>1. PICK n : IsGraph(triples, n)
  BY TriplesAreAGraph DEF ServiceInv
<1>2. answer.operative_clause_id = OperativeClause(triples, contract, base, MaxResults)
  <2>1. PICK c : asked.subjects = {c} /\ answer = Resolution(c, asked.object)
    BY DEF ServiceInv, AnswerIsGiven, Nothing, ClausesAnswer, ObligationsAnswer,
           GraphLookupError, ValueError, KeyError, Resolved
  <2>2. c = contract
    BY <2>1
  <2> QED BY <2>1, <2>2 DEF Resolution, GraphLookupError, Resolved
<1>3. Superseders(contract, base) = {q[2] : q \in found}
  BY DEF Superseders
<1>4. kept \in SUBSET found
  BY DEF Resolutions
<1> DEFINE q == Chosen(triples, contract, base, MaxResults)
<1>5. CASE kept = {}
  <2>1. answer.operative_clause_id = base
    BY <1>2, <1>5 DEF OperativeClause
  <2>2. ASSUME WellReviewed(contract, base)
        PROVE  Superseders(contract, base) = {}
    <3>1. Cardinality(found) <= MaxResults /\ MaxResults \in Nat
      BY <2>2, BoundsArePositive DEF WellReviewed
    <3>2. kept = found
      BY <1>1, <3>1, AllResolutions
    <3> QED BY <1>3, <1>5, <3>2
  <2> QED BY <2>1, <2>2
<1>6. CASE kept # {}
  <2>1. q \in kept /\ \A r \in kept : r[2] <= q[2]
    BY <1>1, <1>6, ChosenIsGreatest
  <2>2. answer.operative_clause_id = q[2]
    BY <1>2, <1>6 DEF OperativeClause
  <2>3. \A r \in found : r[2] \in Nat
    BY <1>1, SupersedingFacts
  <2> HIDE DEF q
  <2>4. q[2] \in Superseders(contract, base)
    BY <1>3, <1>4, <2>1
  <2>5. ASSUME WellReviewed(contract, base), NEW d \in Superseders(contract, q[2])
        PROVE  FALSE
    <3>1. /\ Cardinality(found) <= MaxResults /\ MaxResults \in Nat
          /\ q[2] < d /\ d \in Superseders(contract, base)
      BY <2>4, <2>5, BoundsArePositive DEF WellReviewed
    <3>2. kept = found
      BY <1>1, <3>1, AllResolutions
    <3> HIDE DEF kept, found, base
    <3>3. PICK r \in found : r[2] = d
      BY <1>3, <3>1
    <3>4. r[2] <= q[2] /\ r[2] \in Nat /\ q[2] \in Nat
      BY <1>4, <2>1, <2>3, <3>2
    <3> QED BY <3>1, <3>3, <3>4
  <2> QED BY <2>2, <2>4, <2>5
<1> QED BY <1>5, <1>6

\* Below the bound, an obligation with one trigger is listed.
LEMMA ObligationIsListed ==
    ASSUME HasCorpus, NEW parties, NEW party \in parties, NEW event, NEW id,
           <<party, id>> \in OwedWithin(parties, event),
           Cardinality(Outgoing(triples, id, "TRIGGERED_BY")) = 1,
           Cardinality({q \in OwedWithin(parties, event) : q[1] = party}) <= MaxResults
    PROVE  \E o \in ObligationsForParty(triples, party, event, MaxResults) :
                o.owed_by = party /\ o.obligation_id = id
<1> DEFINE owed == OwedOn(triples, party, event)
           ofParty == {q \in OwedWithin(parties, event) : q[1] = party}
           objects == {t.object : t \in Range(triples)}
           before(o) == {r \in owed : r < o}
<1>1. PICK n : n \in Nat /\ DOMAIN triples = 1..n /\ IsGraph(triples, n)
  BY TriplesAreAGraph DEF IsGraph
<1>2. /\ Edge(triples, id, "OWED_BY", party)
      /\ Edge(triples, id, "TRIGGERED_BY", event)
      /\ \E c : Edge(triples, c, "CREATES_OBLIGATION", id)
  BY DEF OwedWithin
<1>3. id \in owed
  <2>1. Creator(triples, id) # {}
    <3>1. Incoming(triples, id, "CREATES_OBLIGATION") # {}
      BY <1>2, NeighboursAreEdges
    <3> QED BY <1>1, <3>1, FirstIncomingExists DEF Creator
  <2>2. Trigger(triples, id) = {event}
    <3> DEFINE out == Outgoing(triples, id, "TRIGGERED_BY")
    <3>1. IsFiniteSet(out)
      BY <1>1, NeighboursAreFinite
    <3>2. event \in out
      BY <1>2, NeighboursAreEdges
    <3>3. Cardinality(out) = 1
      OBVIOUS
    <3>4. Cardinality(out) <= 1 => Trigger(triples, id) = out
      BY <1>1, FirstNeighbours DEF Trigger
    <3> HIDE DEF out
    <3>5. out = {event}
      BY <3>1, <3>2, <3>3, FS_Singleton
    <3> QED BY <3>3, <3>4, <3>5
  <2>3. id \in Incoming(triples, party, "OWED_BY")
    BY <1>2, NeighboursAreEdges
  <2> QED BY <2>1, <2>2, <2>3 DEF OwedOn
<1>4. \A o \in owed : o \in Nat /\ <<party, o>> \in ofParty
  <2> SUFFICES ASSUME NEW o \in owed
               PROVE  o \in Nat /\ <<party, o>> \in ofParty
    OBVIOUS
  <2>1. /\ o \in Incoming(triples, party, "OWED_BY")
        /\ Trigger(triples, o) = {event} /\ Creator(triples, o) # {}
    BY DEF OwedOn
  <2>2. Edge(triples, o, "OWED_BY", party)
    BY <2>1, NeighboursAreEdges
  <2>3. Edge(triples, o, "TRIGGERED_BY", event)
    <3>1. Trigger(triples, o) \subseteq Outgoing(triples, o, "TRIGGERED_BY")
      BY <1>1, FirstNeighbours DEF Trigger
    <3> QED BY <2>1, <3>1, NeighboursAreEdges
  <2>4. PICK c : Edge(triples, c, "CREATES_OBLIGATION", o)
    <3>1. Creator(triples, o) \subseteq Incoming(triples, o, "CREATES_OBLIGATION")
      BY <1>1, FirstNeighbours DEF Creator
    <3> QED BY <2>1, <3>1, NeighboursAreEdges
  <2>5. c \in {t.subject : t \in Range(triples)} /\ o \in objects
    BY <2>4 DEF Edge, Range
  <2>6. o \in Nat
    <3>1. PICK i \in 1..n : triples[i].subject = o
      BY <1>1, <2>2 DEF Edge
    <3>2. triples[i] \in SourceAssertions
      BY <1>1 DEF IsGraph
    <3> QED BY <3>1, <3>2 DEF SourceAssertions
  <2>7. <<party, o>> \in OwedWithin(parties, event)
    BY <2>2, <2>3, <2>4, <2>5 DEF OwedWithin
  <2> QED BY <2>6, <2>7
<1>5. IsFiniteSet(owed)
  <2>1. IsFiniteSet(Incoming(triples, party, "OWED_BY"))
    BY <1>1, NeighboursAreFinite
  <2>2. owed \in SUBSET Incoming(triples, party, "OWED_BY")
    BY DEF OwedOn
  <2> HIDE DEF owed
  <2> QED BY <2>1, <2>2, FS_Subset
<1>6. Cardinality(owed) <= MaxResults
  <2> DEFINE f == [o \in owed |-> <<party, o>>]
             T == {<<party, o>> : o \in owed}
  <2>1. f \in [owed -> T] /\ \A o, r \in owed : f[o] = f[r] => o = r
    OBVIOUS
  <2>2. \A q \in T : \E o \in owed : f[o] = q
    OBVIOUS
  <2>3. T \in SUBSET ofParty
    BY <1>4
  <2> HIDE DEF f, T, owed
  <2>4. f \in Injection(owed, T) /\ f \in Surjection(owed, T)
    BY <2>1, <2>2 DEF Injection, IsInjective, Surjection
  <2>5. f \in Bijection(owed, T)
    BY <2>4 DEF Bijection
  <2>6. IsFiniteSet(T) /\ Cardinality(T) = Cardinality(owed)
    BY <1>5, <2>5, FS_Bijection DEF ExistsBijection
  <2>7. IsFiniteSet(ofParty)
    <3> DEFINE subjects == {triples[i].subject : i \in DOMAIN triples}
    <3>1. IsFiniteSet({triples[i].object : i \in DOMAIN triples})
      BY <1>1, EndsAreFinite
    <3>2. objects = {triples[i].object : i \in DOMAIN triples}
      BY DEF Range
    <3>3. IsFiniteSet(objects)
      BY <3>1, <3>2
    <3>4. IsFiniteSet({party})
      BY FS_Singleton
    <3>5. ofParty \in SUBSET ({party} \X objects)
      BY DEF OwedWithin
    <3> HIDE DEF objects, ofParty
    <3>6. IsFiniteSet({party} \X objects)
      BY <3>3, <3>4, FS_Product
    <3> QED BY <3>5, <3>6, FS_Subset
  <2>8. Cardinality(ofParty) <= MaxResults
    OBVIOUS
  <2> HIDE DEF ofParty
  <2>9. Cardinality(T) <= Cardinality(ofParty)
    BY <2>3, <2>7, FS_Subset
  <2>10. Cardinality(T) \in Nat /\ Cardinality(ofParty) \in Nat /\ MaxResults \in Nat
    BY <2>6, <2>7, FS_CardinalityType, BoundsArePositive
  <2> QED BY <2>6, <2>8, <2>9, <2>10
<1>7. Cardinality(before(id)) < MaxResults
  <2>1. before(id) \in SUBSET owed /\ id \notin before(id)
    BY <1>3, <1>4
  <2>2. MaxResults \in Nat
    BY BoundsArePositive
  <2> HIDE DEF owed, before
  <2> QED BY <1>3, <1>5, <1>6, <2>1, <2>2, FewComeBefore
<1>8. ObligationResolution(triples, party, id)
            \in ObligationsForParty(triples, party, event, MaxResults)
  BY <1>3, <1>7 DEF ObligationsForParty, Least
<1>9. /\ ObligationResolution(triples, party, id).owed_by = party
      /\ ObligationResolution(triples, party, id).obligation_id = id
  BY DEF ObligationResolution
<1> QED BY <1>8, <1>9

\* What a comparison lists.
LEMMA ComparisonIsComplete ==
    ASSUME HasCorpus, NEW contracts, NEW titles
    PROVE  Answers(CompareContracts(artifact, contracts, titles, MaxResults).clause_ids,
                   Matching(contracts, titles))
<1> DEFINE clauses == artifact.clauses
           m == Len(clauses)
           wanted == Matching(contracts, titles)
           before(c) == {d \in wanted : d < c}
           ids == {clauses[i].clause_id : i \in 1..m}
           f == [i \in 1..m |-> clauses[i].clause_id]
           order == ClauseOrder(Parsed(source))
           parsed == Parsed(source)
<1>1. wanted = MatchingClauses(artifact, contracts, titles)
  BY DEF Matching, MatchingClauses
<1>2. CompareContracts(artifact, contracts, titles, MaxResults).clause_ids
        = {c \in wanted : Cardinality(before(c)) < MaxResults}
  BY <1>1 DEF CompareContracts, Least
<1>3. /\ m \in Nat /\ DOMAIN clauses = 1..m
      /\ \A k \in 1..m : clauses[k].clause_id \in Nat
  <2> DEFINE n == Len(source.manifest)
  <2>1. /\ m \in Nat /\ DOMAIN clauses = 1..m
        /\ \A i \in 1..n : parsed[i] \in SourceDocuments
        /\ \A k \in 1..m :
            /\ order[k][1] \in 1..n
            /\ order[k][2] \in ClausePlaces(parsed[order[k][1]].items)
            /\ clauses[k] = ClauseAt(parsed[order[k][1]], order[k][2])
    BY ClausesComeFromDocuments DEF HasCorpus
  <2> HIDE DEF m, clauses, order, parsed, n
  <2>2. ASSUME NEW document \in SourceDocuments, NEW i \in ClausePlaces(document.items)
        PROVE  ClauseAt(document, i).clause_id \in Nat
    <3>1. document.items \in Seq(Items) /\ i \in DOMAIN document.items
      BY DEF SourceDocuments, ClausePlaces
    <3>2. document.items[i] \in Items
      BY <3>1, LenProperties
    <3> QED BY <3>2 DEF ClauseAt, Items
  <2> QED BY <2>1, <2>2
<1>4. wanted \in SUBSET ids
  BY <1>3 DEF Matching, Range
<1>5. f \in [1..m -> ids] /\ \A x \in ids : \E i \in 1..m : f[i] = x
  OBVIOUS
<1>6. \A c \in wanted : c \in Nat
  BY <1>3, <1>4
<1> HIDE DEF wanted, ids, f, m, clauses
<1>7. f \in Surjection(1..m, ids)
  BY <1>5 DEF Surjection
<1>8. IsFiniteSet(1..m)
  BY <1>3, FS_Interval
<1>9. IsFiniteSet(ids)
  BY <1>7, <1>8, FS_Surjection
<1>10. IsFiniteSet(wanted)
  BY <1>4, <1>9, FS_Subset
<1>11. ASSUME Cardinality(wanted) <= MaxResults, NEW c \in wanted
       PROVE  Cardinality(before(c)) < MaxResults
  <2>1. before(c) \in SUBSET wanted /\ c \notin before(c)
    BY <1>6
  <2>2. MaxResults \in Nat
    BY BoundsArePositive
  <2> HIDE DEF before
  <2> QED BY <1>10, <1>11, <2>1, <2>2, FewComeBefore
<1> QED BY <1>2, <1>11 DEF Answers, wanted

\* What the exhibits of a contract list.
LEMMA ExhibitsAreComplete ==
    ASSUME HasCorpus, NEW contract
    PROVE  LET exhibited == Exhibited(triples, contract)
               listed == ExhibitClauses(triples, contract, MaxResults) IN
           /\ listed \subseteq {q[2] : q \in exhibited}
           /\ Cardinality(exhibited) <= MaxResults
                => {q[2] : q \in exhibited} \subseteq listed
<1> DEFINE exhibited == Exhibited(triples, contract)
           listed == ExhibitClauses(triples, contract, MaxResults)
           before(q) == {r \in exhibited : r[2] < q[2] \/ (r[2] = q[2] /\ r[1] < q[1])}
           exhibits == Outgoing(triples, contract, "HAS_EXHIBIT")
           objects == {triples[i].object : i \in DOMAIN triples}
<1>1. PICK n : n \in Nat /\ DOMAIN triples = 1..n /\ IsGraph(triples, n)
  BY TriplesAreAGraph DEF IsGraph
<1>2. listed = {q[2] : q \in {r \in exhibited : Cardinality(before(r)) < MaxResults}}
  BY DEF ExhibitClauses, Least
<1>3. exhibited \in SUBSET (exhibits \X objects)
  BY DEF Exhibited
<1>4. IsFiniteSet(exhibits) /\ IsFiniteSet(objects)
  BY <1>1, EndsAreFinite, NeighboursAreFinite
<1>5. \A o \in objects : o \in Nat
  BY <1>1 DEF IsGraph, SourceAssertions
<1>6. \A o \in exhibits : o \in Nat
  BY <1>5 DEF Outgoing
<1> HIDE DEF exhibits, objects, exhibited, listed
<1>7. IsFiniteSet(exhibits \X objects)
  BY <1>4, FS_Product
<1>8. IsFiniteSet(exhibited)
  BY <1>3, <1>7, FS_Subset
<1>9. \A q \in exhibited : q[1] \in Nat /\ q[2] \in Nat
  BY <1>3, <1>5, <1>6
<1>10. ASSUME Cardinality(exhibited) <= MaxResults, NEW q \in exhibited
       PROVE  Cardinality(before(q)) < MaxResults
  <2>1. before(q) \in SUBSET exhibited /\ q \notin before(q)
    BY <1>9
  <2>2. MaxResults \in Nat
    BY BoundsArePositive
  <2> HIDE DEF before
  <2> QED BY <1>8, <1>10, <2>1, <2>2, FewComeBefore
<1> QED BY <1>2, <1>10 DEF exhibited, listed

\* What every answer lists is so, and complete below its bound.
LEMMA AnswersAreComplete ==
    ASSUME ServiceInv
    PROVE  AnswersMatchTheCorpus
<1>1. HasCorpus /\ \E n : IsGraph(triples, n)
  BY TriplesAreAGraph DEF ServiceInv
<1>2. ASSUME answer.kind = "obligations"
      PROVE  LET owed == OwedWithin(asked.subjects, asked.object)
                 found == {<<o.owed_by, o.obligation_id>> : o \in answer.obligations}
             IN  /\ found \subseteq owed
                 /\ /\ \A q \in owed :
                            Cardinality(Outgoing(triples, q[2], "TRIGGERED_BY")) = 1
                    /\ \A p \in asked.subjects :
                            Cardinality({q \in owed : q[1] = p}) <= MaxResults
                    => found = owed
                 /\ \A o \in answer.obligations :
                        Edge(triples, o.clause_id, "CREATES_OBLIGATION", o.obligation_id)
  <2> DEFINE parties == asked.subjects
             event == asked.object
             owed == OwedWithin(parties, event)
             found == {<<o.owed_by, o.obligation_id>> : o \in answer.obligations}
  <2>1. answer = ObligationsAnswer(parties, event)
    BY <1>2 DEF ServiceInv, AnswerIsGiven, Nothing, ClausesAnswer,
                Resolution, GraphLookupError, ValueError, KeyError
  <2>2. answer.obligations =
            UNION {ObligationsForParty(triples, p, event, MaxResults) : p \in parties}
    BY <1>2, <2>1 DEF ObligationsAnswer, GraphLookupError
  <2> HIDE DEF parties, event
  <2>3. ASSUME NEW o \in answer.obligations
        PROVE  /\ <<o.owed_by, o.obligation_id>> \in owed
               /\ Edge(triples, o.clause_id, "CREATES_OBLIGATION", o.obligation_id)
    <3>1. PICK p \in parties : o \in ObligationsForParty(triples, p, event, MaxResults)
      BY <2>2
    <3>2. /\ o.owed_by = p
          /\ Edge(triples, o.obligation_id, "OWED_BY", p)
          /\ Edge(triples, o.obligation_id, "TRIGGERED_BY", event)
          /\ Edge(triples, o.clause_id, "CREATES_OBLIGATION", o.obligation_id)
      BY <1>1, <3>1, ObligationIsReviewed
    <3>3. /\ o.obligation_id \in {t.object : t \in Range(triples)}
          /\ o.clause_id \in {t.subject : t \in Range(triples)}
      BY <3>2 DEF Edge, Range
    <3> QED BY <3>2, <3>3 DEF OwedWithin
  <2>4. ASSUME \A q \in owed : Cardinality(Outgoing(triples, q[2], "TRIGGERED_BY")) = 1,
               \A p \in parties : Cardinality({q \in owed : q[1] = p}) <= MaxResults,
               NEW q \in owed
        PROVE  q \in found
    <3>1. q = <<q[1], q[2]>> /\ q[1] \in parties
      BY DEF OwedWithin
    <3>2. /\ Cardinality(Outgoing(triples, q[2], "TRIGGERED_BY")) = 1
          /\ Cardinality({r \in owed : r[1] = q[1]}) <= MaxResults
          /\ <<q[1], q[2]>> \in owed
      BY <2>4, <3>1
    <3>3. PICK o \in ObligationsForParty(triples, q[1], event, MaxResults) :
            o.owed_by = q[1] /\ o.obligation_id = q[2]
      BY <1>1, <3>1, <3>2, ObligationIsListed
    <3> QED BY <2>2, <3>1, <3>3
  <2> QED BY <2>3, <2>4 DEF parties, event
<1>3. ASSUME answer.kind = "comparison"
      PROVE  Answers(answer.comparison.clause_ids, Matching(asked.subjects, asked.object))
  <2>1. answer.comparison = CompareContracts(artifact, asked.subjects, asked.object, MaxResults)
    BY <1>3 DEF ServiceInv, AnswerIsGiven, Nothing, ClausesAnswer, ObligationsAnswer,
                Resolution, GraphLookupError, ValueError, KeyError
  <2> QED BY <1>1, <2>1, ComparisonIsComplete
<1>4. ASSUME Answered("missing_evidence")
      PROVE  LET references == Outgoing(triples, asked.object, "REFERENCES")
             IN  /\ answer.clauses \subseteq references \cap Sentinels
                 /\ Cardinality(references) <= MaxResults
                        => references \cap Sentinels \subseteq answer.clauses
  <2>1. answer.clauses =
            FirstOutgoing(triples, asked.object, "REFERENCES", MaxResults) \cap Sentinels
    BY <1>4 DEF ServiceInv, AnswerIsGiven, Answered, ClausesAnswer
  <2>2. MaxResults \in Nat
    BY BoundsArePositive
  <2>3. PICK n : n \in Nat /\ DOMAIN triples = 1..n
    BY <1>1 DEF IsGraph
  <2> QED BY <2>1, <2>2, <2>3, FirstNeighbours
<1>5. ASSUME Answered("exhibit_clauses")
      PROVE  LET exhibited == Exhibited(triples, asked.object)
             IN  /\ answer.clauses \subseteq {q[2] : q \in exhibited}
                 /\ Cardinality(exhibited) <= MaxResults
                        => {q[2] : q \in exhibited} \subseteq answer.clauses
  <2>1. answer.clauses = ExhibitClauses(triples, asked.object, MaxResults)
    BY <1>5 DEF ServiceInv, AnswerIsGiven, Answered, ClausesAnswer
  <2> QED BY <1>1, <2>1, ExhibitsAreComplete
<1> QED BY <1>2, <1>3, <1>4, <1>5 DEF AnswersMatchTheCorpus

(***************************************************************************)
(* Every question.                                                         *)
(***************************************************************************)

\* A question is answered from the corpus there is.
LEMMA QuestionsAreAnswered ==
    ASSUME HasCorpus, Question
    PROVE  asked' # Nothing /\ UNCHANGED <<source, artifact>> /\ ServiceInv'
<1>1. UNCHANGED <<source, artifact>>
  BY DEF Question, ExhibitClausesOf, ClauseQuestion, Compare, TriggeredObligations,
         CompareTriggeredObligations, Conflicts, MissingEvidence, Provenance,
         HeroComparison, OperativeClauseOf, Asks
<1>2. ASSUME NEW c \in Contracts, ExhibitClausesOf(c)
      PROVE  AnswerIsGiven'
  BY <1>1, <1>2 DEF ExhibitClausesOf, Asks, AnswerIsGiven, triples
<1>3. ASSUME NEW c \in AskedClauses, Conflicts(c)
      PROVE  AnswerIsGiven'
  BY <1>1, <1>3 DEF Conflicts, Asks, AnswerIsGiven, triples
<1>4. ASSUME NEW c \in AskedClauses, MissingEvidence(c)
      PROVE  AnswerIsGiven'
  BY <1>1, <1>4 DEF MissingEvidence, Asks, AnswerIsGiven, triples
<1>5. ASSUME NEW c \in AskedClauses, Provenance(c)
      PROVE  AnswerIsGiven'
  BY <1>5 DEF Provenance, Asks, AnswerIsGiven, GraphLookupError
<1>6. ASSUME NEW c \in AskedClauses, HeroComparison(c)
      PROVE  AnswerIsGiven'
  <2>1. PICK contract :
          /\ asked' = [operation |-> "hero_comparison", subjects |-> {contract},
                       object |-> c]
          /\ answer' \in {Resolution(contract, c), KeyError}
    BY <1>6 DEF HeroComparison, Asks
  <2> QED BY <1>1, <2>1 DEF AnswerIsGiven, Resolution, triples
<1>7. ASSUME NEW c \in AskedClauses, NEW contract \in Contracts,
             OperativeClauseOf(contract, c)
      PROVE  AnswerIsGiven'
  BY <1>1, <1>7 DEF OperativeClauseOf, Asks, AnswerIsGiven, Resolution, triples
<1>8. ASSUME NEW S \in SUBSET Contracts, NEW T \in SUBSET Titles, Compare(S, T)
      PROVE  AnswerIsGiven'
  BY <1>1, <1>8 DEF Compare, Asks, AnswerIsGiven
<1>9. ASSUME NEW e \in Events, NEW p \in Parties, TriggeredObligations(p, e)
      PROVE  AnswerIsGiven'
  BY <1>1, <1>9 DEF TriggeredObligations, Asks, AnswerIsGiven, ObligationsAnswer, triples
<1>10. ASSUME NEW e \in Events, NEW S \in SUBSET Parties,
              CompareTriggeredObligations(S, e)
       PROVE  AnswerIsGiven'
  BY <1>1, <1>10 DEF CompareTriggeredObligations, Asks, AnswerIsGiven,
                     ObligationsAnswer, triples
<1>11. asked' # Nothing
  <2>1. ASSUME NEW operation, NEW subjects, NEW object, NEW value,
               Asks(operation, subjects, object, value)
        PROVE  asked' # Nothing
    <3>1. DOMAIN asked' = {"operation", "subjects", "object"}
      BY <2>1 DEF Asks
    <3>2. DOMAIN Nothing = {"kind"}
      BY DEF Nothing
    <3> QED BY <3>1, <3>2
  <2> QED
    BY <2>1, Zenon
       DEF Question, ExhibitClausesOf, ClauseQuestion, Compare, TriggeredObligations,
           CompareTriggeredObligations, Conflicts, MissingEvidence, Provenance,
           HeroComparison, OperativeClauseOf
<1>12. HasCorpus'
  BY <1>1 DEF HasCorpus
<1>13. AnswerIsGiven'
  BY <1>2, <1>3, <1>4, <1>5, <1>6, <1>7, <1>8, <1>9, <1>10 DEF Question, ClauseQuestion
<1> QED BY <1>1, <1>11, <1>12, <1>13 DEF ServiceInv

\* A caller who has an answer has it from a corpus that was built.
CompetenciesInv ==
    /\ BuildInv
    /\ asked = Nothing => answer = Nothing
    /\ asked # Nothing => ServiceInv

\* Whatever was rearranged and built again before, an answer is the one to its
\* question and to the corpus built from the sources as they are.
THEOREM CompetenciesInvariant == Spec => []CompetenciesInv
<1>1. Init => CompetenciesInv
  BY SourcesAreTyped DEF Init, BuildInit, CompetenciesInv, BuildInv
<1>2. CompetenciesInv /\ [Next]_vars => CompetenciesInv'
  <2> SUFFICES ASSUME CompetenciesInv, [Next]_vars
               PROVE  CompetenciesInv'
    OBVIOUS
  <2>1. CASE Ingest
    <3>1. BuildInv /\ [BuildNext]_buildVars
      BY <2>1 DEF Ingest, CompetenciesInv
    <3>2. BuildInv'
      BY <3>1, BuildingKeeps
    <3> QED BY <2>1, <3>2 DEF Ingest, CompetenciesInv
  <2>2. CASE Built /\ Question
    <3>1. HasCorpus
      BY <2>2 DEF CompetenciesInv, BuildInv, Built, HasCorpus
    <3>2. asked' # Nothing /\ UNCHANGED <<source, artifact>> /\ ServiceInv'
      BY <2>2, <3>1, QuestionsAreAnswered
    <3> QED BY <3>2 DEF CompetenciesInv, BuildInv
  <2>3. CASE Return
    BY <2>3 DEF Return, CompetenciesInv, BuildInv
  <2>4. CASE UNCHANGED vars
    BY <2>4 DEF vars, CompetenciesInv, BuildInv, ServiceInv, HasCorpus, AnswerIsGiven,
                Resolution, ObligationsAnswer, triples
  <2> QED BY <2>1, <2>2, <2>3, <2>4 DEF Next
<1> QED BY <1>1, <1>2, PTL DEF Spec

\* A clause that a triple cites has one place in one document, and its page
\* and its document are there exactly once (build_corpus).
THEOREM CorpusProvenanceIsUnique == Spec => []ProvenanceIsUnique
<1>1. CompetenciesInv => ProvenanceIsUnique
  BY BuiltProvenance DEF CompetenciesInv
<1> QED BY <1>1, CompetenciesInvariant, PTL

\* Clauses come in the order of the text, on the pages where their markers
\* put them (parse_document).
THEOREM CorpusIsInReadingOrder == Spec => []ClausesAreInReadingOrder
<1>1. CompetenciesInv => ClausesAreInReadingOrder
  BY BuiltReadingOrder DEF CompetenciesInv
<1> QED BY <1>1, CompetenciesInvariant, PTL

\* Building again, however the sources are listed by then, yields the same
\* artifact (README.md:19).
THEOREM CorpusRebuildingAgrees == Spec => RebuildingAgrees
<1>1. CompetenciesInv /\ [Next]_vars /\ CompetenciesInv'
        => [artifact # Unbuilt => artifact' = artifact]_buildVars
  <2> SUFFICES ASSUME CompetenciesInv, [Next]_vars, artifact # Unbuilt
               PROVE  artifact' = artifact
    OBVIOUS
  <2>1. CASE Build
    BY <2>1 DEF Build, CompetenciesInv, BuildInv
  <2>2. ASSUME NEW part \in {"manifest", "entities", "assertions"}, Rearrange(part)
        PROVE  artifact' = artifact
    BY <2>2 DEF Rearrange
  <2>3. CASE Built /\ Question
    <3>1. HasCorpus
      BY <2>3 DEF CompetenciesInv, BuildInv, Built, HasCorpus
    <3> QED BY <2>3, <3>1, QuestionsAreAnswered
  <2>4. CASE Return \/ UNCHANGED vars
    BY <2>4 DEF Return, vars
  <2> QED BY <2>1, <2>2, <2>3, <2>4 DEF Next, Ingest, BuildNext
<1> QED BY <1>1, CompetenciesInvariant, PTL DEF Spec, RebuildingAgrees

\* Every step of every path is a reviewed assertion with its own source clause
\* (resolve_operative_clause, obligations_for_party, conflicts_for_clause).
THEOREM CompetencyPathsAreReviewed == Spec => []PathsAreReviewed
<1>1. CompetenciesInv => PathsAreReviewed
  BY AnswersAreReviewed DEF CompetenciesInv, PathsAreReviewed, Nothing
<1> QED BY <1>1, CompetenciesInvariant, PTL

\* What the service lists is in the corpus, and below the bound it is all there
\* is (obligations_for_party, compare_contracts, exhibit_clause_ids,
\* referenced_entity_ids).
THEOREM CompetencyAnswersMatchTheCorpus == Spec => []AnswersMatchTheCorpus
<1>1. CompetenciesInv => AnswersMatchTheCorpus
  BY AnswersAreComplete DEF CompetenciesInv, AnswersMatchTheCorpus, Answered, Nothing
<1> QED BY <1>1, CompetenciesInvariant, PTL

\* The clause returned as operative is the base clause or supersedes it, and
\* no amendment of a well-reviewed contract supersedes it in turn
\* (resolve_operative_clause).
THEOREM OperativeClauseIsCurrent == Spec => []OperativeLanguageIsCurrent
<1>1. CompetenciesInv => OperativeLanguageIsCurrent
  BY AnswersAreCurrent DEF CompetenciesInv, OperativeLanguageIsCurrent, Resolved, Nothing
<1> QED BY <1>1, CompetenciesInvariant, PTL
================================================================================
