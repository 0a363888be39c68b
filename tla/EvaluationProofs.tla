---------------------------- MODULE EvaluationProofs ----------------------------
(***************************************************************************)
(* For any golden set, rankings and graph table: what the figures, the     *)
(* classes and the exit code of an evaluation mean.                        *)
(***************************************************************************)
EXTENDS EvaluationProperties, FiniteProofs

(***************************************************************************)
(* Weighted fusion.                                                        *)
(***************************************************************************)

\* A ranking is a sequence of different clauses.
LEMMA RankingFacts ==
    ASSUME NEW s, IsRanking(s)
    PROVE  /\ Len(s) \in Nat /\ DOMAIN s = 1..Len(s)
           /\ s = [i \in 1..Len(s) |-> s[i]]
           /\ \A i \in 1..Len(s) : s[i] \in Clauses
           /\ \A i, j \in 1..Len(s) : s[i] = s[j] => i = j
<1>1. s \in Seq(Clauses)
  BY DEF IsRanking
<1>2. Len(s) \in Nat /\ s \in [1..Len(s) -> Clauses]
  BY <1>1, LenProperties
<1> QED BY <1>2 DEF IsRanking

\* In the variants without the graph its list is empty.
LEMMA NoRanking == IsRanking(<<>>) /\ ListOf(<<>>) = {}
<1>1. <<>> \in Seq(Clauses)
  OBVIOUS
<1> QED BY <1>1 DEF IsRanking, ListOf

\* A clause of a list is listed with its place as its rank.
LEMMA PlaceIsListed ==
    ASSUME NEW s, NEW i \in DOMAIN s
    PROVE  \E r \in ListOf(s) : r.clause_id = s[i] /\ r.rank = i
<1> DEFINE r == [clause_id |-> s[i], rank |-> i]
<1>1. r \in ListOf(s)
  BY DEF ListOf
<1>2. r.clause_id = s[i] /\ r.rank = i
  OBVIOUS
<1> QED BY <1>1, <1>2

\* one / (60 + i) is a whole number for every place of s.
Divides(one, s) ==
    /\ one \in Nat \ {0}
    /\ \A i \in DOMAIN s : \E q \in Nat \ {0} :
        one = (RankConstant + i) * q /\ one \div (RankConstant + i) = q

\* The common denominator is a multiple of 60 plus any rank that occurs.
LEMMA DenominatorDivides ==
    ASSUME NEW l, NEW v, NEW g, IsRanking(l), IsRanking(v), IsRanking(g)
    PROVE  LET one == Denominator(ListOf(l), ListOf(v), ListOf(g))
           IN  Divides(one, l) /\ Divides(one, v) /\ Divides(one, g)
<1> DEFINE places == DOMAIN l \cup DOMAIN v \cup DOMAIN g
           factors == {RankConstant + r.rank : r \in ListOf(l) \cup ListOf(v) \cup ListOf(g)}
           n == Len(l) + Len(v) + Len(g) + RankConstant
<1>1. /\ Len(l) \in Nat /\ DOMAIN l = 1..Len(l)
      /\ Len(v) \in Nat /\ DOMAIN v = 1..Len(v)
      /\ Len(g) \in Nat /\ DOMAIN g = 1..Len(g)
  BY RankingFacts
<1>2. \A i \in places : i \in Nat \ {0} /\ RankConstant + i \in factors
  <2>1. \A i \in DOMAIN l : \E r \in ListOf(l) : r.rank = i
    BY PlaceIsListed
  <2>2. \A i \in DOMAIN v : \E r \in ListOf(v) : r.rank = i
    BY PlaceIsListed
  <2>3. \A i \in DOMAIN g : \E r \in ListOf(g) : r.rank = i
    BY PlaceIsListed
  <2>4. \A i \in places : \E r \in ListOf(l) \cup ListOf(v) \cup ListOf(g) : r.rank = i
    BY <2>1, <2>2, <2>3
  <2> QED BY <1>1, <2>4
<1>3. factors \in SUBSET (Nat \ {0}) /\ \A x \in factors : x <= n
  <2> SUFFICES ASSUME NEW r \in ListOf(l) \cup ListOf(v) \cup ListOf(g)
               PROVE  RankConstant + r.rank \in Nat \ {0} /\ RankConstant + r.rank <= n
    OBVIOUS
  <2>1. /\ r.rank \in Nat
        /\ r.rank <= Len(l) \/ r.rank <= Len(v) \/ r.rank <= Len(g)
    BY <1>1 DEF ListOf
  <2> QED BY <1>1, <2>1 DEF RankConstant
<1>4. IsFiniteSet(factors)
  <2>1. n \in Nat /\ factors \in SUBSET Nat
    BY <1>1, <1>3 DEF RankConstant
  <2> HIDE DEF n, factors
  <2> QED BY <1>3, <2>1, FS_BoundedSetOfNaturals
<1> DEFINE one == Denominator(ListOf(l), ListOf(v), ListOf(g))
<1>5. one = ProductSet(factors)
  BY DEF Denominator
<1> HIDE DEF factors, one
<1>6. /\ one \in Nat \ {0}
      /\ \A x \in factors : \E q \in Nat \ {0} : one = x * q /\ one \div x = q
  BY <1>3, <1>4, <1>5, ProductIsDivisible
<1>7. \A i \in places : \E q \in Nat \ {0} :
        one = (RankConstant + i) * q /\ one \div (RankConstant + i) = q
  BY <1>2, <1>6
<1> QED BY <1>6, <1>7 DEF Divides, one

\* A list adds the quotient of the clause's place, or nothing.
LEMMA ShareOfPlace ==
    ASSUME NEW s, IsRanking(s), NEW one, Divides(one, s), NEW weight \in Nat, NEW c
    PROVE  /\ c \notin Range(s) => Share(one, weight, ListOf(s), c) = 0
           /\ \A i \in DOMAIN s :
                s[i] = c => Share(one, weight, ListOf(s), c)
                                = weight * (one \div (RankConstant + i))
<1> DEFINE listed == {r \in ListOf(s) : r.clause_id = c}
           fun == [r \in listed |-> weight * (one \div (RankConstant + r.rank))]
<1>1. Share(one, weight, ListOf(s), c) = SumFunctionOnSet(fun, listed)
  BY DEF Share, SumFunction
<1>2. ASSUME c \notin Range(s)
      PROVE  Share(one, weight, ListOf(s), c) = 0
  <2>1. listed = {}
    BY <1>2 DEF ListOf, Range
  <2>2. IsTally(fun, {})
    BY FS_EmptySet DEF IsTally
  <2> HIDE DEF fun
  <2>3. SumFunctionOnSet(fun, {}) = 0
    BY <2>2, SumFacts
  <2> QED BY <1>1, <2>1, <2>3
<1>3. ASSUME NEW i \in DOMAIN s, s[i] = c
      PROVE  Share(one, weight, ListOf(s), c) = weight * (one \div (RankConstant + i))
  <2> DEFINE r == [clause_id |-> c, rank |-> i]
  <2>1. listed = {r}
    <3>1. \A j \in DOMAIN s : s[j] = c => j = i
      BY <1>3 DEF IsRanking
    <3> QED BY <1>3, <3>1 DEF ListOf
  <2>2. PICK q \in Nat \ {0} : one \div (RankConstant + i) = q
    BY <1>3 DEF Divides
  <2>3. fun[r] = weight * q
    <3>1. r \in listed /\ r.rank = i
      BY <2>1
    <3> HIDE DEF r, listed
    <3> QED BY <2>2, <3>1
  <2>4. weight * q \in Nat
    OBVIOUS
  <2> HIDE DEF fun, listed, r
  <2>5. SumFunctionOnSet(fun, {r}) = fun[r]
    BY <2>3, <2>4, SumOfOne
  <2> QED BY <1>1, <2>1, <2>2, <2>3, <2>5
<1> QED BY <1>2, <1>3

\* Ranked no later than sixteenth by the graph, a clause scores higher than any
\* that the graph does not name: 5/(60 + 16) is more than 4/61.
LEMMA GraphOutweighs ==
    ASSUME NEW l, NEW v, NEW g, IsRanking(l), IsRanking(v), IsRanking(g), Len(g) <= 16,
           NEW c \in Range(g), NEW d, d \notin Range(g)
    PROVE  LET score(x) == WeightedScore(ListOf(l), ListOf(v), ListOf(g), x)
           IN  score(c) > score(d)
<1> DEFINE one == Denominator(ListOf(l), ListOf(v), ListOf(g))
           share(weight, s, x) == Share(one, weight, ListOf(s), x)
<1>1. Divides(one, l) /\ Divides(one, v) /\ Divides(one, g)
  BY DenominatorDivides
<1>2. \A x : WeightedScore(ListOf(l), ListOf(v), ListOf(g), x)
                = share(2, l, x) + share(2, v, x) + share(5, g, x)
  BY DEF WeightedScore, GraphWeight
<1> HIDE DEF one
<1>3. one \in Nat \ {0}
  BY <1>1 DEF Divides
\* No retriever adds more than 2/61.
<1>4. ASSUME NEW s, IsRanking(s), Divides(one, s), NEW x
      PROVE  share(2, s, x) \in Nat /\ 61 * share(2, s, x) <= 2 * one
  <2>1. CASE x \notin Range(s)
    <3>1. share(2, s, x) = 0
      BY <1>4, <2>1, ShareOfPlace
    <3> HIDE DEF share
    <3> QED BY <1>3, <3>1
  <2>2. CASE x \in Range(s)
    <3>1. PICK i \in DOMAIN s : s[i] = x
      BY <2>2 DEF Range
    <3>2. i \in Nat /\ i >= 1
      BY <1>4, RankingFacts
    <3>3. PICK q \in Nat \ {0} : /\ one = (RankConstant + i) * q
                                 /\ one \div (RankConstant + i) = q
      BY <1>4 DEF Divides
    <3>4. share(2, s, x) = 2 * q
      BY <1>4, <3>1, <3>3, ShareOfPlace
    <3>5. one = (60 + i) * q
      BY <3>3 DEF RankConstant
    <3> HIDE DEF share
    <3>6. \A a, b \in Nat : a >= 1 => 61 * (2 * b) <= 2 * ((60 + a) * b)
      <4>1. \A a, b \in Nat : a >= 1 => a * b >= b
        OBVIOUS
      <4>2. \A a, b \in Nat : (60 + a) * b = 60 * b + a * b
        OBVIOUS
      <4> QED BY <4>1, <4>2
    <3> QED BY <3>2, <3>4, <3>5, <3>6
  <2> QED BY <2>1, <2>2
<1>5. /\ share(2, l, c) \in Nat /\ share(2, v, c) \in Nat
      /\ share(2, l, d) \in Nat /\ 61 * share(2, l, d) <= 2 * one
      /\ share(2, v, d) \in Nat /\ 61 * share(2, v, d) <= 2 * one
  BY <1>1, <1>4
<1>6. share(5, g, d) = 0
  BY <1>1, ShareOfPlace
\* The graph adds more than 4/61.
<1>7. share(5, g, c) \in Nat /\ 61 * share(5, g, c) > 4 * one
  <2>1. PICK i \in DOMAIN g : g[i] = c
    BY DEF Range
  <2>2. i \in Nat /\ i <= 16
    BY RankingFacts
  <2>3. PICK q \in Nat \ {0} : /\ one = (RankConstant + i) * q
                               /\ one \div (RankConstant + i) = q
    BY <1>1 DEF Divides
  <2>4. share(5, g, c) = 5 * q
    BY <1>1, <2>1, <2>3, ShareOfPlace
  <2>5. one = (60 + i) * q
    BY <2>3 DEF RankConstant
  <2> HIDE DEF share
  <2>6. \A a \in Nat, b \in Nat \ {0} : a <= 16 => 61 * (5 * b) > 4 * ((60 + a) * b)
    <3>1. \A a, b \in Nat : a <= 16 => a * b <= 16 * b
      OBVIOUS
    <3>2. \A a, b \in Nat : (60 + a) * b = 60 * b + a * b /\ a * b \in Nat
      OBVIOUS
    <3> QED BY <3>1, <3>2
  <2> QED BY <2>2, <2>4, <2>5, <2>6
<1> HIDE DEF share
<1>8. share(2, l, c) + share(2, v, c) + share(5, g, c)
        > share(2, l, d) + share(2, v, d) + share(5, g, d)
  BY <1>3, <1>5, <1>6, <1>7
<1> QED BY <1>2, <1>8

\* The scores of fusion are numbers.
LEMMA ScoresAreNumbers ==
    ASSUME NEW l, NEW v, NEW g, IsRanking(l), IsRanking(v), IsRanking(g), NEW c
    PROVE  WeightedScore(ListOf(l), ListOf(v), ListOf(g), c) \in Nat
<1> DEFINE one == Denominator(ListOf(l), ListOf(v), ListOf(g))
<1>1. Divides(one, l) /\ Divides(one, v) /\ Divides(one, g)
  BY DenominatorDivides
<1> HIDE DEF one
<1>2. ASSUME NEW s, IsRanking(s), Divides(one, s), NEW weight \in Nat
      PROVE  Share(one, weight, ListOf(s), c) \in Nat
  <2>1. CASE c \notin Range(s)
    BY <1>2, <2>1, ShareOfPlace
  <2>2. CASE c \in Range(s)
    <3>1. PICK i \in DOMAIN s : s[i] = c
      BY <2>2 DEF Range
    <3>2. PICK q \in Nat \ {0} : one \div (RankConstant + i) = q
      BY <1>2 DEF Divides
    <3>3. Share(one, weight, ListOf(s), c) = weight * q
      BY <1>2, <3>1, <3>2, ShareOfPlace
    <3> QED BY <3>3
  <2> QED BY <2>1, <2>2
<1>3. /\ Share(one, 2, ListOf(l), c) \in Nat
      /\ Share(one, 2, ListOf(v), c) \in Nat
      /\ Share(one, 5, ListOf(g), c) \in Nat
  BY <1>1, <1>2
<1>4. \A a, b, n \in Nat : a + b + n \in Nat
  OBVIOUS
<1> QED BY <1>3, <1>4 DEF WeightedScore, GraphWeight, one

\* The fused list ranks the clauses of the three lists by their scores.
RanksByScore(l, v, g) ==
    LET all == Range(l) \cup Range(v) \cup Range(g)
        score(x) == WeightedScore(ListOf(l), ListOf(v), ListOf(g), x)
        ranked == WeightedFusion(ListOf(l), ListOf(v), ListOf(g))
        n == Cardinality(all)
    IN  /\ n \in Nat /\ all \in SUBSET Clauses /\ IsFiniteSet(all)
        /\ ranked \in [1..n -> all]
        /\ \A c \in all : \E i \in 1..n : ranked[i] = c
        /\ \A i, j \in 1..n : ranked[i] = ranked[j] => i = j
        /\ \A i, j \in 1..n : score(ranked[i]) > score(ranked[j]) => i < j

\* The fused order holds every clause of the lists once, by descending score.
LEMMA FusionRanks ==
    ASSUME NEW l, NEW v, NEW g, IsRanking(l), IsRanking(v), IsRanking(g)
    PROVE  RanksByScore(l, v, g)
<1> DEFINE all == Range(l) \cup Range(v) \cup Range(g)
           score(x) == WeightedScore(ListOf(l), ListOf(v), ListOf(g), x)
           scores == [c \in all |-> score(c)]
           before == [c \in all |-> {d \in all :
                        \/ scores[d] > scores[c]
                        \/ scores[d] = scores[c] /\ d < c}]
           ranked == WeightedFusion(ListOf(l), ListOf(v), ListOf(g))
<1>1. all \in SUBSET Clauses /\ IsFiniteSet(all) /\ all \in SUBSET Nat
  <2>1. all \in SUBSET Clauses
    BY DEF IsRanking, Range
  <2>2. IsFiniteSet(Clauses) /\ Clauses \in SUBSET Nat
    BY EvaluationAssumption
  <2> HIDE DEF all
  <2> QED BY <2>1, <2>2, FS_Subset
<1>2. Fused(ListOf(l), ListOf(v), ListOf(g)) = all
  <2>1. ASSUME NEW s
        PROVE  {r.clause_id : r \in ListOf(s)} = Range(s)
    <3>1. \A r \in ListOf(s) : r.clause_id \in Range(s)
      BY DEF ListOf, Range
    <3>2. \A x \in Range(s) : \E r \in ListOf(s) : r.clause_id = x
      BY PlaceIsListed DEF Range
    <3> QED BY <3>1, <3>2
  <2>2. Fused(ListOf(l), ListOf(v), ListOf(g))
            = {r.clause_id : r \in ListOf(l)} \cup {r.clause_id : r \in ListOf(v)}
                \cup {r.clause_id : r \in ListOf(g)}
    BY DEF Fused
  <2> QED BY <2>1, <2>2
<1>3. ranked = InOrder(before)
  BY <1>2 DEF WeightedFusion
<1>4. \A c \in all : scores[c] = score(c) /\ scores[c] \in Nat
  BY ScoresAreNumbers
<1> HIDE DEF all, score, scores, ranked
<1>5. IsOrder(all, before)
  <2>1. \A c, d \in all :
            d \in before[c] <=> (scores[d] > scores[c] \/ (scores[d] = scores[c] /\ d < c))
    <3> TAKE c, d \in all
    <3>1. before[c] = {x \in all : \/ scores[x] > scores[c]
                                   \/ scores[x] = scores[c] /\ x < c}
      OBVIOUS
    <3> HIDE DEF before
    <3> QED BY <3>1
  <2>2. before \in [all -> SUBSET all]
    OBVIOUS
  <2> HIDE DEF before
  <2>3. \A c, d \in all : c \in Nat /\ d \in Nat /\ scores[c] \in Nat /\ scores[d] \in Nat
    BY <1>1, <1>4
  <2>4. \A x \in all : x \notin before[x]
    <3>1. \A a \in Nat : ~(a > a) /\ ~(a < a)
      OBVIOUS
    <3> QED BY <2>1, <2>3, <3>1
  <2>5. \A x, y \in all : x # y => x \in before[y] \/ y \in before[x]
    <3>1. \A a, b, x, y \in Nat : \/ a > b \/ b > a
                                  \/ a = b /\ (x = y \/ x < y \/ y < x)
      OBVIOUS
    <3> TAKE x, y \in all
    <3>2. /\ x \in Nat /\ y \in Nat /\ scores[x] \in Nat /\ scores[y] \in Nat
      BY <2>3
    <3>3. \/ x = y \/ scores[x] > scores[y] \/ scores[y] > scores[x]
          \/ scores[x] = scores[y] /\ (x < y \/ y < x)
      BY <3>1, <3>2
    <3> QED BY <2>1, <3>3
  <2>6. \A x, y, z \in all : x \in before[y] /\ y \in before[z] => x \in before[z]
    BY <2>1, <2>3
  <2> QED BY <2>2, <2>4, <2>5, <2>6 DEF IsOrder
<1>6. \A c, d \in all : score(c) > score(d) => c \in before[d]
  BY <1>4
<1> HIDE DEF before
<1> DEFINE n == Cardinality(all)
<1>7. /\ n \in Nat /\ ranked \in [1..n -> all]
      /\ \A x \in all : Cardinality(before[x]) + 1 \in 1..n
                        /\ ranked[Cardinality(before[x]) + 1] = x
      /\ \A i, j \in 1..n : /\ ranked[i] \in before[ranked[j]] <=> i < j
                            /\ ranked[i] = ranked[j] => i = j
  BY <1>1, <1>3, <1>5, InOrderEnumerates
<1> HIDE DEF n
<1>8. \A c \in all : \E i \in 1..n : ranked[i] = c
  BY <1>7
<1>9. \A i, j \in 1..n : score(ranked[i]) > score(ranked[j]) => i < j
  BY <1>6, <1>7
<1> QED BY <1>1, <1>7, <1>8, <1>9 DEF RanksByScore, n, all, score, ranked

\* The graph's clauses come first.
LEMMA GraphLeadsTheFusion ==
    ASSUME NEW l, NEW v, NEW g, IsRanking(l), IsRanking(v), IsRanking(g), Len(g) <= 16
    PROVE  LET ranked == WeightedFusion(ListOf(l), ListOf(v), ListOf(g))
           IN  /\ ranked \in Seq(Clauses) /\ Len(g) <= Len(ranked)
               /\ \A i \in 1..Len(g) : ranked[i] \in Range(g)
               /\ \A c \in Range(g) : \E i \in 1..Len(g) : ranked[i] = c
<1> DEFINE all == Range(l) \cup Range(v) \cup Range(g)
           score(x) == WeightedScore(ListOf(l), ListOf(v), ListOf(g), x)
           ranked == WeightedFusion(ListOf(l), ListOf(v), ListOf(g))
           n == Cardinality(all)
           m == Len(g)
           P == {i \in 1..n : ranked[i] \in Range(g)}
<1>1. /\ n \in Nat /\ all \in SUBSET Clauses
      /\ ranked \in [1..n -> all]
      /\ \A c \in all : \E i \in 1..n : ranked[i] = c
      /\ \A i, j \in 1..n : ranked[i] = ranked[j] => i = j
      /\ \A i, j \in 1..n : score(ranked[i]) > score(ranked[j]) => i < j
  <2>1. RanksByScore(l, v, g)
    BY FusionRanks
  <2> QED BY <2>1 DEF RanksByScore
<1>2. /\ m \in Nat /\ DOMAIN g = 1..m
      /\ \A i, j \in 1..m : g[i] = g[j] => i = j
  BY RankingFacts
<1>3. \A i \in 1..m : g[i] \in Range(g)
  BY <1>2 DEF Range
<1>4. \A c \in Range(g) : c \in all /\ \E i \in 1..m : g[i] = c
  BY <1>2 DEF Range
<1>5. \A c \in Range(g) : \A d : d \notin Range(g) => score(c) > score(d)
  BY GraphOutweighs
<1> HIDE DEF all, score, ranked, n, m
<1>6. \A j \in P : \A i \in 1..n : i < j => i \in P
  <2> TAKE j \in P
  <2> TAKE i \in 1..n
  <2> HAVE i < j
  <2>1. ranked[i] \notin Range(g) => score(ranked[j]) > score(ranked[i])
    BY <1>5
  <2>2. score(ranked[j]) > score(ranked[i]) => j < i
    BY <1>1
  <2> QED BY <1>1, <2>1, <2>2
<1>7. P = 1..Cardinality(P) /\ Cardinality(P) \in 0..n
  <2>1. P \in SUBSET (1..n)
    OBVIOUS
  <2> HIDE DEF P
  <2> QED BY <1>1, <1>6, <2>1, InitialSegment
<1>8. Cardinality(P) = m
  <2> DEFINE place == [k \in 1..m |-> CHOOSE i \in P : ranked[i] = g[k]]
  <2>1. \A k \in 1..m : \E i \in P : ranked[i] = g[k]
    BY <1>1, <1>3, <1>4
  <2>2. \A k \in 1..m : place[k] \in P /\ ranked[place[k]] = g[k]
    BY <2>1
  <2>3. \A i \in P : \E k \in 1..m : place[k] = i
    <3> TAKE i \in P
    <3>1. PICK k \in 1..m : g[k] = ranked[i]
      BY <1>4
    <3>2. ranked[place[k]] = ranked[i] /\ place[k] \in 1..n /\ i \in 1..n
      BY <2>2, <3>1
    <3> QED BY <1>1, <3>2
  <2> HIDE DEF place
  <2>4. place \in [1..m -> P]
    BY <2>2 DEF place
  <2>5. \A j, k \in 1..m : place[j] = place[k] => j = k
    BY <1>2, <2>2
  <2>6. place \in Bijection(1..m, P)
    BY <2>3, <2>4, <2>5 DEF Bijection, Injection, Surjection, IsInjective
  <2>7. ExistsBijection(1..m, P)
    BY <2>6 DEF ExistsBijection
  <2> HIDE DEF P
  <2> QED BY <1>2, <2>7, FS_CountingElements
<1>9. ranked \in Seq(Clauses) /\ Len(ranked) = n
  <2>1. ranked \in [1..n -> Clauses]
    BY <1>1
  <2> QED BY <1>1, <2>1, FunctionIsSeq
<1>10. \A i \in 1..m : ranked[i] \in Range(g)
  BY <1>7, <1>8
<1>11. \A c \in Range(g) : \E i \in 1..m : ranked[i] = c
  <2> TAKE c \in Range(g)
  <2>1. PICK i \in 1..n : ranked[i] = c
    BY <1>1, <1>4
  <2> QED BY <1>7, <1>8, <2>1
<1>12. m <= n
  BY <1>1, <1>7, <1>8
<1> QED BY <1>9, <1>10, <1>11, <1>12 DEF m, ranked

(***************************************************************************)
(* One case.                                                               *)
(***************************************************************************)

\* A case keeps the first K candidates, or all if there are fewer.
LEMMA SelectedFacts ==
    ASSUME NEW s \in Seq(Clauses)
    PROVE  /\ Selected(s) \in Seq(Clauses)
           /\ Len(Selected(s)) \in Nat /\ Len(Selected(s)) <= K
           /\ DOMAIN Selected(s) = 1..Len(Selected(s))
           /\ Len(Selected(s)) = K \/ Len(Selected(s)) = Len(s)
           /\ \A i \in 1..Len(Selected(s)) : Selected(s)[i] = s[i]
<1> DEFINE m == Min({K, Len(s)})
<1>1. K \in Nat /\ Len(s) \in Nat
  BY EvaluationAssumption, LenProperties
<1>2. m \in Nat /\ m <= K /\ m <= Len(s) /\ (m = K \/ m = Len(s))
  BY <1>1, MinOfTwo
<1>3. Selected(s) = SubSeq(s, 1, m)
  BY DEF Selected
<1> HIDE DEF m
<1> QED BY <1>2, <1>3, PrefixFacts

\* Every variant has candidates, and they are clauses.
LEMMA CandidatesAreClauses ==
    ASSUME NEW variant, NEW l \in LexicalRankings, NEW v \in VectorRankings,
           NEW g, IsRanking(g)
    PROVE  /\ Candidates(variant, l, v, g) \in Seq(Clauses)
           /\ Len(Candidates(variant, l, v, g)) >= 1
<1>1. IsRanking(l) /\ IsRanking(v) /\ v # <<>> /\ IsRanking(<<>>) /\ ListOf(<<>>) = {}
  BY EvaluationAssumption, NoRanking
<1>2. v \in Seq(Clauses) /\ Len(v) \in Nat /\ Len(v) >= 1 /\ 1 \in DOMAIN v
  <2>1. v \in Seq(Clauses)
    BY <1>1 DEF IsRanking
  <2>2. Len(v) # 0
    BY <1>1, <2>1, EmptySeq
  <2> QED BY <2>1, <2>2, LenProperties
<1>3. ASSUME NEW s, IsRanking(s)
      PROVE  /\ WeightedFusion(ListOf(l), ListOf(v), ListOf(s)) \in Seq(Clauses)
             /\ Len(WeightedFusion(ListOf(l), ListOf(v), ListOf(s))) >= 1
  <2> DEFINE all == Range(l) \cup Range(v) \cup Range(s)
             n == Cardinality(all)
             ranked == WeightedFusion(ListOf(l), ListOf(v), ListOf(s))
  <2>1. RanksByScore(l, v, s)
    BY <1>1, <1>3, FusionRanks
  <2>2. /\ n \in Nat /\ all \in SUBSET Clauses /\ ranked \in [1..n -> all]
        /\ \A c \in all : \E i \in 1..n : ranked[i] = c
    BY <2>1 DEF RanksByScore
  <2>3. v[1] \in all
    BY <1>2 DEF Range
  <2> HIDE DEF all, n, ranked
  <2>4. n >= 1
    BY <2>2, <2>3
  <2>5. ranked \in [1..n -> Clauses]
    BY <2>2
  <2>6. ranked \in Seq(Clauses) /\ Len(ranked) = n
    BY <2>2, <2>5, FunctionIsSeq
  <2> QED BY <2>4, <2>6 DEF ranked
<1>4. /\ WeightedFusion(ListOf(l), ListOf(v), ListOf(g)) \in Seq(Clauses)
      /\ Len(WeightedFusion(ListOf(l), ListOf(v), ListOf(g))) >= 1
  BY <1>3
<1>5. /\ WeightedFusion(ListOf(l), ListOf(v), {}) \in Seq(Clauses)
      /\ Len(WeightedFusion(ListOf(l), ListOf(v), {})) >= 1
  BY <1>1, <1>3
<1> QED BY <1>2, <1>4, <1>5 DEF Candidates

\* What a case retrieves, cites and claims are sequences.
CaseIsTyped(case) ==
    /\ case.retrieved \in Seq(Clauses) /\ Len(case.retrieved) \in 1..K
    /\ case.citations \in Seq(Clauses)
    /\ case.claims \in Seq(Clauses)

\* A row whose clauses the corpus has ranks them.
LEMMA KnownAnswersRank ==
    ASSUME NEW g \in KnownAnswers
    PROVE  IsRanking(g.ids)
<1>1. /\ g.ids \in Seq(Nat) /\ Range(g.ids) \subseteq Clauses
      /\ \A i, j \in DOMAIN g.ids : g.ids[i] = g.ids[j] => i = j
  BY EvaluationAssumption DEF KnownAnswers
<1>2. Len(g.ids) \in Nat /\ g.ids \in [1..Len(g.ids) -> Nat]
  BY <1>1, LenProperties
<1>3. g.ids \in [1..Len(g.ids) -> Clauses]
  BY <1>1, <1>2 DEF Range
<1>4. g.ids \in Seq(Clauses)
  BY <1>2, <1>3, FunctionIsSeq
<1> QED BY <1>1, <1>4 DEF IsRanking

\* What every case holds, whatever was asked.
LEMMA CasesAreTyped ==
    ASSUME NEW item, NEW variant, NEW l \in LexicalRankings, NEW v \in VectorRankings,
           NEW g \in KnownAnswers
    PROVE  CaseIsTyped(Case(item, variant, l, v, g))
<1> DEFINE case == Case(item, variant, l, v, g)
           candidates == Candidates(variant, l, v, g.ids)
<1>1. IsRanking(g.ids) /\ K \in Nat /\ K >= 1
  BY KnownAnswersRank, EvaluationAssumption
<1>2. candidates \in Seq(Clauses) /\ Len(candidates) \in Nat /\ Len(candidates) >= 1
  BY <1>1, CandidatesAreClauses, LenProperties
<1>3. /\ case.retrieved = Selected(candidates)
      /\ case.citations = Citations(item, variant, Selected(candidates), g.ids)
      /\ case.claims = Claims(item, variant, Selected(candidates), g.ids)
  BY DEF Case
<1> HIDE DEF candidates, case
<1> DEFINE retrieved == Selected(candidates)
<1>4. retrieved \in Seq(Clauses) /\ Len(retrieved) \in 1..K
  BY <1>1, <1>2, SelectedFacts
<1> HIDE DEF retrieved
<1>5. SubSeq(retrieved, 1, 1) \in Seq(Clauses)
  BY <1>4, PrefixFacts
<1>6. Among(g.ids, Range(retrieved)) \in Seq(Clauses)
  <2>1. Len(g.ids) \in Nat /\ g.ids \in [1..Len(g.ids) -> Clauses]
    BY <1>1, RankingFacts
  <2> QED BY <2>1, AmongIsSeq
<1>7. Citations(item, variant, retrieved, g.ids) \in Seq(Clauses)
  BY <1>5, <1>6 DEF Citations
<1>8. Claims(item, variant, retrieved, g.ids) \in Seq(Clauses)
  BY <1>7 DEF Claims
<1> QED BY <1>3, <1>4, <1>7, <1>8 DEF CaseIsTyped, retrieved, case

\* GraphEvidenceLeads of one case.
GraphLeadsIn(v, case) ==
    LET named == Len(case.graph.ids)
    IN  /\ named <= K =>
            Range(SubSeq(case.retrieved, 1, named)) = Range(case.graph.ids)
        /\ v = "agentic_full" /\ named \in 1..K => case.citations = case.graph.ids

\* The clauses of the graph table come first in every case that has them.
LEMMA GraphLeadsInCases ==
    ASSUME NEW item, NEW variant \in GraphVariants, NEW l \in LexicalRankings,
           NEW v \in VectorRankings, NEW g \in KnownAnswers
    PROVE  GraphLeadsIn(variant, Case(item, variant, l, v, g))
<1> DEFINE case == Case(item, variant, l, v, g)
           ranked == WeightedFusion(ListOf(l), ListOf(v), ListOf(g.ids))
           retrieved == Selected(ranked)
           m == Len(g.ids)
<1>1. IsRanking(l) /\ IsRanking(v) /\ IsRanking(g.ids) /\ K \in 1..15
  BY KnownAnswersRank, EvaluationAssumption
<1>2. /\ case.retrieved = retrieved /\ case.graph = g
      /\ case.citations = Citations(item, variant, retrieved, g.ids)
  BY DEF Case, Candidates, GraphVariants
<1> HIDE DEF case, ranked
<1>3. /\ m \in Nat /\ DOMAIN g.ids = 1..m /\ g.ids = [i \in 1..m |-> g.ids[i]]
  BY <1>1, RankingFacts
<1>4. SUFFICES ASSUME m <= K
               PROVE  /\ Range(SubSeq(retrieved, 1, m)) = Range(g.ids)
                      /\ variant = "agentic_full" /\ m >= 1 =>
                            Citations(item, variant, retrieved, g.ids) = g.ids
  <2> HIDE DEF retrieved
  <2> QED BY <1>2, <1>3 DEF GraphLeadsIn, case
<1>5. /\ ranked \in Seq(Clauses) /\ m <= Len(ranked)
      /\ \A i \in 1..m : ranked[i] \in Range(g.ids)
      /\ \A c \in Range(g.ids) : \E i \in 1..m : ranked[i] = c
  BY <1>1, <1>3, <1>4, GraphLeadsTheFusion DEF ranked
<1> HIDE DEF m
<1>6. /\ retrieved \in Seq(Clauses) /\ Len(retrieved) \in Nat /\ m <= Len(retrieved)
      /\ DOMAIN retrieved = 1..Len(retrieved)
      /\ \A i \in 1..Len(retrieved) : retrieved[i] = ranked[i]
  BY <1>1, <1>4, <1>5, SelectedFacts
<1> HIDE DEF retrieved
<1>7. /\ DOMAIN SubSeq(retrieved, 1, m) = 1..m
      /\ \A i \in 1..m : SubSeq(retrieved, 1, m)[i] = retrieved[i]
  BY <1>3, <1>6, PrefixFacts
<1>8. \A i \in 1..m : i \in 1..Len(retrieved)
  BY <1>3, <1>6
<1>9. Range(SubSeq(retrieved, 1, m)) = Range(g.ids)
  <2> DEFINE t == SubSeq(retrieved, 1, m)
  <2>1. \A i \in 1..m : t[i] = ranked[i]
    BY <1>6, <1>7, <1>8
  <2>2. DOMAIN t = 1..m
    BY <1>7
  <2> HIDE DEF t
  <2>3. Range(t) = {t[i] : i \in 1..m}
    BY <2>2 DEF Range
  <2>4. Range(t) = {ranked[i] : i \in 1..m}
    BY <2>1, <2>3
  <2> QED BY <1>5, <2>4 DEF t
<1>10. ASSUME variant = "agentic_full", m >= 1
       PROVE  Citations(item, variant, retrieved, g.ids) = g.ids
  <2>1. g.ids # <<>>
    BY <1>3, <1>10
  <2>2. Citations(item, variant, retrieved, g.ids) = Among(g.ids, Range(retrieved))
    BY <1>10, <2>1 DEF Citations
  <2>3. Range(g.ids) \subseteq Range(retrieved)
    <3> SUFFICES ASSUME NEW c \in Range(g.ids)
                 PROVE  c \in Range(retrieved)
      OBVIOUS
    <3>1. PICK i \in 1..m : ranked[i] = c
      BY <1>5
    <3>2. i \in DOMAIN retrieved /\ retrieved[i] = c
      BY <1>6, <1>8, <3>1
    <3> QED BY <3>2 DEF Range
  <2> QED BY <1>3, <2>2, <2>3, AmongAll
<1> QED BY <1>9, <1>10

\* ClassesMeanWhatTheySay of one case.
ClassIsTrue(case) ==
    LET is(class) == case.classification = class
        top == case.retrieved[1]
        complete == case.item.relevant \subseteq Range(case.retrieved)
    IN  /\ is("correct") => complete /\ top \notin Obsolete \ case.item.relevant
        /\ is("other_retrieval_miss") => ~complete
        /\ is("superseded_clause_retrieval") => top \in Obsolete \ case.item.relevant
        /\ is("missed_amendment") => case.item.category = "amendment" /\ ~complete
        /\ is("exact_term_displacement") =>
            case.item.category = "direct" /\ top \notin case.item.relevant
        /\ is("correct_abstention") => ~case.item.answerable /\ case.claims = <<>>
        /\ is("unresolved_conflict") =>
            /\ case.item.category = "conflict"
            /\ case.graph.path = {} /\ case.claims = <<>>

\* The first of nine questions that is answered yes.
LEMMA FirstOfNine ==
    ASSUME NEW class, DOMAIN class = 1..9, class[9][1]
    PROVE  LET first == Min({i \in DOMAIN class : class[i][1]})
           IN  /\ first \in 1..9 /\ class[first][1]
               /\ \A i \in 1..9 : i < first => ~class[i][1]
<1> DEFINE S == {i \in DOMAIN class : class[i][1]}
<1>1. S \in SUBSET Nat /\ 9 \in S /\ S \in SUBSET (1..9)
  OBVIOUS
<1>2. IsFiniteSet(S)
  <2>1. 1 \in Int /\ 9 \in Int
    OBVIOUS
  <2>2. IsFiniteSet(1..9)
    BY ONLY <2>1, FS_Interval
  <2> HIDE DEF S
  <2> QED BY <1>1, <2>2, FS_Subset
<1>3. Min(S) \in S /\ \A x \in S : Min(S) <= x
  <2> HIDE DEF S
  <2> QED BY <1>1, <1>2, ExtremesExist
<1>4. \A i \in 1..9 : i < Min(S) => i \notin S
  BY <1>3
<1> QED BY <1>3, <1>4

\* The class of every case is true of it.
LEMMA ClassesAreTrue ==
    ASSUME NEW item, NEW variant, NEW l, NEW v, NEW g
    PROVE  ClassIsTrue(Case(item, variant, l, v, g))
<1> DEFINE retrieved == Selected(Candidates(variant, l, v, g.ids))
           missed == ~(item.relevant \subseteq Range(retrieved))
           top == retrieved[1]
           class == <<
            <<Abstains(item, variant), "correct_abstention">>,
            <<item.category = "ambiguous", "ambiguous_question">>,
            <<item.category = "negative", "missing_evidence">>,
            <<LeftOpen(item, variant), "unresolved_conflict">>,
            <<top \in Obsolete \ item.relevant, "superseded_clause_retrieval">>,
            <<item.category = "amendment" /\ missed, "missed_amendment">>,
            <<item.category = "direct" /\ top \notin item.relevant, "exact_term_displacement">>,
            <<~missed, "correct">>,
            <<TRUE, "other_retrieval_miss">> >>
           first == Min({i \in DOMAIN class : class[i][1]})
           case == Case(item, variant, l, v, g)
<1>1. /\ case.item = item /\ case.retrieved = retrieved
      /\ case.graph = (IF variant \in GraphVariants THEN g ELSE [ids |-> <<>>, path |-> {}])
      /\ case.claims = Claims(item, variant, retrieved, g.ids)
      /\ case.classification = Classified(item, variant, retrieved)
  BY DEF Case
<1> SUFFICES ClassIsTrue(case)
  OBVIOUS
<1> HIDE DEF retrieved, case
<1>2. Classified(item, variant, retrieved) = class[first][2]
  BY DEF Classified
<1>3. DOMAIN class = 1..9 /\ class[9][1]
  OBVIOUS
<1>4. /\ class[1][1] <=> Abstains(item, variant)
      /\ class[4][1] <=> LeftOpen(item, variant)
      /\ class[5][1] <=> top \in Obsolete \ item.relevant
      /\ class[6][1] <=> item.category = "amendment" /\ missed
      /\ class[7][1] <=> item.category = "direct" /\ top \notin item.relevant
      /\ class[8][1] <=> ~missed
  OBVIOUS
<1>5. /\ class[1][2] = "correct_abstention" /\ class[2][2] = "ambiguous_question"
      /\ class[3][2] = "missing_evidence" /\ class[4][2] = "unresolved_conflict"
      /\ class[5][2] = "superseded_clause_retrieval" /\ class[6][2] = "missed_amendment"
      /\ class[7][2] = "exact_term_displacement" /\ class[8][2] = "correct"
      /\ class[9][2] = "other_retrieval_miss"
  OBVIOUS
<1> HIDE DEF class
<1>6. /\ first \in 1..9 /\ class[first][1]
      /\ \A i \in 1..9 : i < first => ~class[i][1]
  BY <1>3, FirstOfNine
<1> HIDE DEF first, top, missed
<1>7. CASE class[first][2] = "correct"
  <2>1. first = 8
    BY <1>5, <1>6, <1>7
  <2>2. ~missed /\ top \notin Obsolete \ item.relevant
    BY <1>4, <1>6, <2>1
  <2> QED BY <1>1, <1>2, <1>7, <2>2 DEF ClassIsTrue, missed, top
<1>8. CASE class[first][2] = "other_retrieval_miss"
  <2>1. first = 9
    BY <1>5, <1>6, <1>8
  <2>2. missed
    BY <1>4, <1>6, <2>1
  <2> QED BY <1>1, <1>2, <1>8, <2>2 DEF ClassIsTrue, missed
<1>9. CASE class[first][2] = "missed_amendment"
  <2>1. first = 6
    BY <1>5, <1>6, <1>9
  <2>2. item.category = "amendment" /\ missed
    BY <1>4, <1>6, <2>1
  <2> QED BY <1>1, <1>2, <1>9, <2>2 DEF ClassIsTrue, missed
<1>10. CASE class[first][2] = "exact_term_displacement"
  <2>1. first = 7
    BY <1>5, <1>6, <1>10
  <2>2. item.category = "direct" /\ top \notin item.relevant
    BY <1>4, <1>6, <2>1
  <2> QED BY <1>1, <1>2, <1>10, <2>2 DEF ClassIsTrue, top
<1>11. CASE class[first][2] = "correct_abstention"
  <2>1. first = 1
    BY <1>5, <1>6, <1>11
  <2>2. Abstains(item, variant)
    BY <1>4, <1>6, <2>1
  <2>3. ~item.answerable /\ Status(item, variant) = "insufficient_evidence"
    BY <2>2 DEF Abstains, Status
  <2>4. Claims(item, variant, retrieved, g.ids) = <<>>
    BY <2>3 DEF Claims
  <2> QED BY <1>1, <1>2, <1>11, <2>3, <2>4 DEF ClassIsTrue
<1>12. CASE class[first][2] = "superseded_clause_retrieval"
  <2>1. first = 5
    BY <1>5, <1>6, <1>12
  <2>2. top \in Obsolete \ item.relevant
    BY <1>4, <1>6, <2>1
  <2> QED BY <1>1, <1>2, <1>12, <2>2 DEF ClassIsTrue, top
<1>13. CASE class[first][2] = "unresolved_conflict"
  <2>1. first = 4
    BY <1>5, <1>6, <1>13
  <2>2. LeftOpen(item, variant)
    BY <1>4, <1>6, <2>1
  <2>3. item.category = "conflict" /\ variant \notin GraphVariants
    BY <2>2 DEF LeftOpen
  <2>4. variant # "agentic_full"
    BY <2>3 DEF GraphVariants
  <2>5. Status(item, variant) # "answered"
    BY <2>2, <2>4 DEF Status, Abstains
  <2>6. case.claims = <<>> /\ case.graph.path = {}
    BY <1>1, <2>3, <2>5 DEF Claims
  <2> QED BY <1>1, <1>2, <1>13, <2>3, <2>6 DEF ClassIsTrue
<1>14. CASE class[first][2] \notin {"correct", "other_retrieval_miss", "missed_amendment",
                                   "exact_term_displacement", "correct_abstention",
                                   "superseded_clause_retrieval", "unresolved_conflict"}
  BY <1>1, <1>2, <1>14 DEF ClassIsTrue
<1> QED BY <1>7, <1>8, <1>9, <1>10, <1>11, <1>12, <1>13, <1>14

(***************************************************************************)
(* The inductive invariant.                                                *)
(***************************************************************************)

Places == {"loading", "evaluating", "json", "markdown"} \cup Ended

\* The cases so far are those of the first items, in every variant.
CasesAreOfItems ==
    /\ golden \in Seq(Range(golden))
    /\ Evaluated \in Nat /\ Evaluated <= Len(golden)
    /\ at = "loading" => Evaluated = 0
    /\ cases = [v \in Variants |-> cases[v]]
    /\ \A v \in Variants :
        /\ cases[v] \in Seq(Range(cases[v])) /\ Len(cases[v]) = Evaluated
        /\ \A i \in 1..Evaluated :
            \E l \in LexicalRankings, r \in VectorRankings, g \in KnownAnswers :
                cases[v][i] = Case(golden[i], v, l, r, g)

\* The JSON file is written before the other, and both before the command ends.
FilesAreInOrder ==
    /\ files \in [{"json", "markdown"} -> {"earlier", "partial", "this"}]
    /\ at \in {"loading", "evaluating", "golden_set_error", "key_error"} =>
        files["json"] = "earlier"
    /\ at = "json" => files["json"] # "this"
    /\ at = "markdown" => files["json"] = "this"
    /\ at \in {"exit_0", "exit_1"} => files["json"] = "this" /\ files["markdown"] = "this"
    /\ files["json"] # "this" => files["markdown"] = "earlier"

VerdictStands ==
    /\ at = "exit_0" => Passed
    /\ at = "exit_1" => ~Passed

EvaluationInv ==
    /\ at \in Places
    /\ Judged => ValidGolden(golden)
    /\ at = "evaluating" => ValidGolden(golden)
    /\ CasesAreOfItems
    /\ FilesAreInOrder
    /\ VerdictStands

\* The command starts without cases.
LEMMA InitGood == Init => EvaluationInv
<1> SUFFICES ASSUME Init
             PROVE  EvaluationInv
  OBVIOUS
<1> USE DEF Init
<1>1. at \in Places /\ ~Judged /\ at # "evaluating"
  BY DEF Places, Judged
<1>2. CasesAreOfItems
  <2>1. /\ <<>> \in Seq(Range(<<>>)) /\ Len(<<>>) = 0
    OBVIOUS
  <2>2. \A v \in Variants : cases[v] = <<>>
    BY DEF NoCases
  <2>3. "agentic_full" \in Variants
    BY DEF Variants, GraphVariants
  <2>4. Evaluated = 0
    BY <2>1, <2>2, <2>3 DEF Evaluated
  <2>5. cases = [v \in Variants |-> cases[v]]
    BY DEF NoCases
  <2>6. 0 \in Nat /\ 0 <= 0 /\ 1..0 = {}
    OBVIOUS
  <2> QED BY <2>1, <2>2, <2>4, <2>5, <2>6 DEF CasesAreOfItems
<1>3. FilesAreInOrder
  BY DEF FilesAreInOrder
<1>4. VerdictStands
  BY DEF VerdictStands
<1> QED BY <1>1, <1>2, <1>3, <1>4 DEF EvaluationInv

\* What one more element makes of a sequence.
LEMMA AppendedSequence ==
    ASSUME NEW s, s \in Seq(Range(s)), NEW e
    PROVE  /\ Len(s) \in Nat /\ Len(Append(s, e)) = Len(s) + 1
           /\ Append(s, e) \in Seq(Range(Append(s, e)))
           /\ \A i \in 1..Len(s) : Append(s, e)[i] = s[i]
           /\ Append(s, e)[Len(s) + 1] = e
<1> DEFINE T == Range(s) \cup {e}
           n == Len(s)
           t == Append(s, e)
<1>1. n \in Nat /\ s \in [1..n -> Range(s)]
  BY LenProperties
<1>2. s \in [1..n -> T] /\ e \in T
  BY <1>1
<1> HIDE DEF T, n
<1>3. s \in Seq(T)
  BY <1>1, <1>2, FunctionIsSeq
<1>4. /\ t \in Seq(T) /\ Len(t) = n + 1
      /\ \A i \in 1..n : t[i] = s[i]
      /\ t[n + 1] = e
  BY <1>2, <1>3, AppendProperties DEF n
<1> HIDE DEF t
<1>5. t \in [1..(n + 1) -> T]
  BY <1>4, LenProperties
<1>6. t \in [1..(n + 1) -> Range(t)]
  BY <1>5 DEF Range
<1>7. t \in Seq(Range(t))
  BY <1>1, <1>6, FunctionIsSeq
<1> QED BY <1>1, <1>4, <1>7 DEF n, t

\* A step that leaves the cases alone leaves the verdict alone.
LEMMA SameCases ==
    ASSUME UNCHANGED cases
    PROVE  (Passed' <=> Passed) /\ Evaluated' = Evaluated
BY DEF Passed, Evaluated

\* Steps that do not evaluate leave the cases to the same items.
LEMMA SameItems ==
    ASSUME EvaluationInv, UNCHANGED <<golden, cases>>, at' # "loading"
    PROVE  CasesAreOfItems'
<1>1. Evaluated' = Evaluated
  BY SameCases
<1> QED BY <1>1 DEF EvaluationInv, CasesAreOfItems

\* A golden set that is loaded is valid and has no cases yet.
LEMMA LoadKeeps ==
    ASSUME EvaluationInv, NEW items \in GoldenSets, Load(items)
    PROVE  EvaluationInv'
<1> USE DEF Load
<1>1. at' \in {"evaluating", "golden_set_error"} /\ at = "loading"
  OBVIOUS
<1>2. at' \in Places /\ ~Judged'
  BY <1>1 DEF Places, Ended, Judged
<1>3. at' = "evaluating" => ValidGolden(golden')
  OBVIOUS
<1>4. CasesAreOfItems'
  <2>1. Evaluated = 0 /\ Evaluated' = 0
    BY SameCases DEF EvaluationInv, CasesAreOfItems
  <2>2. items \in Seq(Range(items)) /\ Len(items) \in Nat
    BY EvaluationAssumption, LenProperties
  <2>3. 1..0 = {} /\ 0 \in Nat /\ \A n \in Nat : 0 <= n
    OBVIOUS
  <2>4. /\ cases = [v \in Variants |-> cases[v]]
        /\ \A v \in Variants : cases[v] \in Seq(Range(cases[v])) /\ Len(cases[v]) = Evaluated
    BY DEF EvaluationInv, CasesAreOfItems
  <2> QED BY <2>1, <2>2, <2>3, <2>4 DEF CasesAreOfItems
<1>5. FilesAreInOrder'
  BY <1>1 DEF EvaluationInv, FilesAreInOrder
<1>6. VerdictStands'
  BY <1>1 DEF VerdictStands
<1> QED BY <1>2, <1>3, <1>4, <1>5, <1>6 DEF EvaluationInv

\* Every variant gets one more case, of the next item.
LEMMA EvaluateItemKeeps ==
    ASSUME EvaluationInv, NEW l \in LexicalRankings, NEW r \in VectorRankings,
           NEW g \in KnownAnswers, EvaluateItem(l, r, g)
    PROVE  EvaluationInv'
<1> USE DEF EvaluateItem
<1>1. /\ at = "evaluating" /\ UNCHANGED <<at, golden, files>>
      /\ Evaluated < Len(golden)
  OBVIOUS
<1>2. at' \in Places /\ ~Judged' /\ ValidGolden(golden')
  BY <1>1 DEF EvaluationInv, Places, Judged
<1>3. CasesAreOfItems'
  <2> DEFINE n == Evaluated
             new(v) == Case(golden[n + 1], v, l, r, g)
  <2>1. /\ golden \in Seq(Range(golden)) /\ n \in Nat
        /\ \A v \in Variants :
            /\ cases[v] \in Seq(Range(cases[v])) /\ Len(cases[v]) = n
            /\ \A i \in 1..n :
                \E a \in LexicalRankings, b \in VectorRankings, c \in KnownAnswers :
                    cases[v][i] = Case(golden[i], v, a, b, c)
    BY DEF EvaluationInv, CasesAreOfItems
  <2>2. Len(golden) \in Nat
    BY <2>1, LenProperties
  <2>3. cases' = [v \in Variants |-> Append(cases[v], new(v))]
    OBVIOUS
  <2> HIDE DEF n, new
  <2>4. \A v \in Variants : cases'[v] = Append(cases[v], new(v))
    BY <2>3
  <2>5. \A v \in Variants :
            /\ cases'[v] \in Seq(Range(cases'[v])) /\ Len(cases'[v]) = n + 1
            /\ \A i \in 1..n : cases'[v][i] = cases[v][i]
            /\ cases'[v][n + 1] = new(v)
    BY <2>1, <2>4, AppendedSequence
  <2>6. "agentic_full" \in Variants
    BY DEF Variants, GraphVariants
  <2>7. Evaluated' = n + 1
    BY <2>5, <2>6 DEF Evaluated
  <2>8. ASSUME NEW v \in Variants, NEW i \in 1..(n + 1)
        PROVE  \E a \in LexicalRankings, b \in VectorRankings, c \in KnownAnswers :
                    cases'[v][i] = Case(golden[i], v, a, b, c)
    <3>1. i \in 1..n \/ i = n + 1
      BY <2>1
    <3>2. CASE i \in 1..n
      BY <2>1, <2>5, <3>2
    <3>3. CASE i = n + 1
      BY <2>5, <3>3 DEF new
    <3> QED BY <3>1, <3>2, <3>3
  <2>9. n + 1 \in Nat /\ n + 1 <= Len(golden)
    BY <1>1, <2>1, <2>2 DEF n
  <2>10. cases' = [v \in Variants |-> cases'[v]]
    BY <2>3
  <2> QED BY <1>1, <2>1, <2>5, <2>7, <2>8, <2>9, <2>10 DEF CasesAreOfItems
<1>4. FilesAreInOrder'
  BY <1>1 DEF EvaluationInv, FilesAreInOrder
<1>5. VerdictStands'
  BY <1>1 DEF VerdictStands
<1> QED BY <1>2, <1>3, <1>4, <1>5 DEF EvaluationInv

\* A row that names no clause of the corpus ends the command.
LEMMA MissGraphClauseKeeps ==
    ASSUME EvaluationInv, MissGraphClause
    PROVE  EvaluationInv'
<1> USE DEF MissGraphClause
<1>1. /\ at = "evaluating" /\ at' = "key_error"
      /\ UNCHANGED <<golden, cases, files>>
  OBVIOUS
<1>2. at' \in Places /\ ~Judged'
  BY <1>1 DEF Places, Ended, Judged
<1>3. CasesAreOfItems'
  BY <1>1, SameItems
<1>4. FilesAreInOrder'
  BY <1>1 DEF EvaluationInv, FilesAreInOrder
<1>5. VerdictStands'
  BY <1>1 DEF VerdictStands
<1> QED BY <1>1, <1>2, <1>3, <1>4, <1>5 DEF EvaluationInv

\* The report is summed up when every item has been evaluated.
LEMMA SummariseKeeps ==
    ASSUME EvaluationInv, Summarise
    PROVE  EvaluationInv'
<1> USE DEF Summarise
<1>1. /\ at = "evaluating" /\ at' \in {"json", "key_error"}
      /\ UNCHANGED <<golden, cases, files>>
  OBVIOUS
<1>2. at' \in Places /\ ValidGolden(golden')
  BY <1>1 DEF EvaluationInv, Places, Ended
<1>3. CasesAreOfItems'
  BY <1>1, SameItems
<1>4. FilesAreInOrder'
  BY <1>1 DEF EvaluationInv, FilesAreInOrder
<1>5. VerdictStands'
  BY <1>1 DEF VerdictStands
<1> QED BY <1>2, <1>3, <1>4, <1>5 DEF EvaluationInv

\* A report file is truncated in its turn.
LEMMA TruncateKeeps ==
    ASSUME EvaluationInv, NEW f \in {"json", "markdown"}, Truncate(f)
    PROVE  EvaluationInv'
<1> USE DEF Truncate
<1>1. at = f /\ UNCHANGED <<at, golden, cases>> /\ files' = [files EXCEPT ![f] = "partial"]
  OBVIOUS
<1>2. at' \in Places /\ ValidGolden(golden')
  BY <1>1 DEF EvaluationInv, Judged
<1>3. CasesAreOfItems'
  BY <1>1, SameItems
<1>4. FilesAreInOrder'
  BY <1>1 DEF EvaluationInv, FilesAreInOrder
<1>5. VerdictStands'
  BY <1>1 DEF VerdictStands
<1> QED BY <1>2, <1>3, <1>4, <1>5 DEF EvaluationInv

\* A report file is filled in its turn; after the second the verdict is given.
LEMMA FillKeeps ==
    ASSUME EvaluationInv, NEW f \in {"json", "markdown"}, Fill(f)
    PROVE  EvaluationInv'
<1> USE DEF Fill
<1>1. /\ at = f /\ UNCHANGED <<golden, cases>> /\ files' = [files EXCEPT ![f] = "this"]
      /\ at' = IF f = "json" THEN "markdown" ELSE ExitCode
  OBVIOUS
<1>2. at' \in Places /\ ValidGolden(golden') /\ at' # "loading"
  BY <1>1 DEF EvaluationInv, Judged, Places, Ended, ExitCode
<1>3. CasesAreOfItems'
  BY <1>1, <1>2, SameItems
<1>4. FilesAreInOrder'
  BY <1>1 DEF EvaluationInv, FilesAreInOrder, ExitCode
<1>5. VerdictStands'
  BY <1>1, SameCases DEF VerdictStands, ExitCode
<1> QED BY <1>2, <1>3, <1>4, <1>5 DEF EvaluationInv

\* A command that is killed leaves the files as they are.
LEMMA VanishKeeps ==
    ASSUME EvaluationInv, Vanish
    PROVE  EvaluationInv'
<1> USE DEF Vanish
<1>1. at' = "killed" /\ UNCHANGED <<golden, cases, files>>
  OBVIOUS
<1>2. at' \in Places /\ ~Judged'
  BY <1>1 DEF Places, Ended, Judged
<1>3. CasesAreOfItems'
  BY <1>1, SameItems
<1>4. FilesAreInOrder'
  BY <1>1 DEF EvaluationInv, FilesAreInOrder
<1>5. VerdictStands'
  BY <1>1 DEF VerdictStands
<1> QED BY <1>1, <1>2, <1>3, <1>4, <1>5 DEF EvaluationInv

\* Every step keeps the invariant.
LEMMA NextKeeps ==
    ASSUME EvaluationInv, [Next]_vars
    PROVE  EvaluationInv'
<1>1. CASE Next
  BY <1>1, LoadKeeps, EvaluateItemKeeps, MissGraphClauseKeeps, SummariseKeeps,
     TruncateKeeps, FillKeeps, VanishKeeps DEF Next
<1>2. CASE UNCHANGED vars
  <2>1. UNCHANGED <<at, golden, cases, files>>
    BY <1>2 DEF vars
  <2>2. (Passed' <=> Passed) /\ Evaluated' = Evaluated
    BY <2>1, SameCases
  <2> QED BY <2>1, <2>2 DEF EvaluationInv, Judged, CasesAreOfItems, FilesAreInOrder,
                          VerdictStands
<1> QED BY <1>1, <1>2

\* Every reachable state satisfies the invariant.
THEOREM EvaluationInvariant == Spec => []EvaluationInv
BY InitGood, NextKeeps, PTL DEF Spec

------------------------------------------------------------------------------

\* The exit code is the verdict of the report both files hold.
THEOREM ExitCodeIsAlwaysTheVerdict == Spec => []ExitCodeIsTheVerdict
<1>1. EvaluationInv => ExitCodeIsTheVerdict
  BY DEF EvaluationInv, FilesAreInOrder, VerdictStands, ExitCodeIsTheVerdict
<1> QED BY <1>1, EvaluationInvariant, PTL

\* The graph's clauses lead the cases of its variants, whatever the retrievers
\* rank first.
THEOREM GraphEvidenceAlwaysLeads == Spec => []GraphEvidenceLeads
<1>1. ASSUME EvaluationInv
      PROVE  GraphEvidenceLeads
  <2>1. ASSUME NEW v \in GraphVariants, NEW i \in DOMAIN cases[v]
        PROVE  GraphLeadsIn(v, cases[v][i])
    <3>1. v \in Variants
      BY DEF Variants
    <3>2. i \in 1..Evaluated
      BY <1>1, <2>1, <3>1, LenProperties DEF EvaluationInv, CasesAreOfItems
    <3>3. PICK l \in LexicalRankings, r \in VectorRankings, g \in KnownAnswers :
                cases[v][i] = Case(golden[i], v, l, r, g)
      BY <1>1, <3>1, <3>2 DEF EvaluationInv, CasesAreOfItems
    <3> QED BY <3>3, GraphLeadsInCases
  <2> QED BY <2>1 DEF GraphEvidenceLeads, GraphLeadsIn
<1> QED BY <1>1, EvaluationInvariant, PTL

\* The class of a case, superseded_clause_retrieval and unresolved_conflict
\* included, is true of the clauses, the evidence and the claims it is given
\* to, for any golden set, rankings and graph table.
THEOREM ClassesAlwaysMeanWhatTheySay == Spec => []ClassesMeanWhatTheySay
<1>1. ASSUME EvaluationInv
      PROVE  ClassesMeanWhatTheySay
  <2>1. ASSUME NEW case \in Cases
        PROVE  ClassIsTrue(case)
    <3>1. PICK v \in Variants : case \in Range(cases[v])
      BY DEF Cases
    <3>2. PICK i \in DOMAIN cases[v] : case = cases[v][i]
      BY <3>1 DEF Range
    <3>3. i \in 1..Evaluated
      BY <1>1, <3>1, <3>2, LenProperties DEF EvaluationInv, CasesAreOfItems
    <3>4. PICK l \in LexicalRankings, r \in VectorRankings, g \in KnownAnswers :
                case = Case(golden[i], v, l, r, g)
      BY <1>1, <3>1, <3>2, <3>3 DEF EvaluationInv, CasesAreOfItems
    <3> QED BY <3>4, ClassesAreTrue
  <2> QED BY <2>1 DEF ClassesMeanWhatTheySay, ClassIsTrue
<1> QED BY <1>1, EvaluationInvariant, PTL

(***************************************************************************)
(* The figures of a report.                                                *)
(***************************************************************************)

\* Cases of valid items, in a finite sequence.
AreResults(results, n) ==
    /\ n \in Nat /\ DOMAIN results = 1..n
    /\ \A i \in 1..n :
        /\ CaseIsTyped(results[i])
        /\ results[i].item.relevant \subseteq Clauses
        /\ results[i].item.category \in DOMAIN Distribution

\* What a metric adds up, case by case.
Found(results) ==
    [i \in DOMAIN results |->
        Cardinality(Range(results[i].retrieved) \cap results[i].item.relevant)]
Cited(results) ==
    [i \in DOMAIN results |->
        Cardinality(Range(results[i].citations) \cap results[i].item.relevant)]
Labelled(results) == [i \in DOMAIN results |-> Cardinality(results[i].item.relevant)]
Grounded(results) ==
    [i \in DOMAIN results |->
        Cardinality({k \in DOMAIN results[i].claims :
                        results[i].claims[k] \in Range(results[i].citations)})]
CitationCount(results) == [i \in DOMAIN results |-> Len(results[i].citations)]
ClaimCount(results) == [i \in DOMAIN results |-> Len(results[i].claims)]

\* Which cases it counts.
EvaluableOnes(results) == {i \in DOMAIN results : Evaluable(results[i])}
RetrievedOnes(results) ==
    {i \in DOMAIN results : Evaluable(results[i]) /\ Retrieved(results[i])}

\* What each figure counts, with the sums and the sets named.
LEMMA MetricsAre ==
    ASSUME NEW results
    PROVE  LET metrics == Metrics(results)
               claims == SumFunction(ClaimCount(results))
               evaluable == Cardinality(EvaluableOnes(results))
           IN  /\ DOMAIN metrics = {"recall", "precision", "contract_accuracy",
                        "clause_accuracy", "graph_path", "citation_precision",
                        "citation_recall", "grounded", "unsupported"}
               /\ metrics.recall = Ratio(SumFunction(Found(results)),
                                         SumFunction(Labelled(results)))
               /\ metrics.precision = Ratio(SumFunction(Found(results)), K * evaluable)
               /\ \E A \in SUBSET EvaluableOnes(results) :
                    metrics.contract_accuracy = Ratio(Cardinality(A), evaluable)
               /\ metrics.clause_accuracy = Ratio(Cardinality(RetrievedOnes(results)),
                                                  evaluable)
               /\ \E B \in SUBSET (DOMAIN results) : \E A \in SUBSET B :
                    metrics.graph_path = Ratio(Cardinality(A), Cardinality(B))
               /\ metrics.citation_precision = Ratio(SumFunction(Cited(results)),
                                                     SumFunction(CitationCount(results)))
               /\ metrics.citation_recall = Ratio(SumFunction(Cited(results)),
                                                  SumFunction(Labelled(results)))
               /\ metrics.grounded = Ratio(SumFunction(Grounded(results)), claims)
               /\ metrics.unsupported =
                    Ratio(claims - SumFunction(Grounded(results)), claims)
<1> DEFINE metrics == Metrics(results)
           rightOnes == {i \in DOMAIN results :
                            /\ Evaluable(results[i])
                            /\ results[i].item.contracts
                                \subseteq {ContractOf(r) : r \in Range(results[i].retrieved)}}
           withPath == {i \in DOMAIN results : HasPath(results[i])}
           following == {i \in DOMAIN results : FollowsPath(results[i])}
<1>1. metrics =
        [recall |-> Ratio(SumFunction(Found(results)), SumFunction(Labelled(results))),
         precision |-> Ratio(SumFunction(Found(results)),
                             K * Cardinality(EvaluableOnes(results))),
         contract_accuracy |-> Ratio(Cardinality(rightOnes),
                                     Cardinality(EvaluableOnes(results))),
         clause_accuracy |-> Ratio(Cardinality(RetrievedOnes(results)),
                                   Cardinality(EvaluableOnes(results))),
         graph_path |-> Ratio(Cardinality(following), Cardinality(withPath)),
         citation_precision |-> Ratio(SumFunction(Cited(results)),
                                      SumFunction(CitationCount(results))),
         citation_recall |-> Ratio(SumFunction(Cited(results)),
                                   SumFunction(Labelled(results))),
         grounded |-> Ratio(SumFunction(Grounded(results)),
                            SumFunction(ClaimCount(results))),
         unsupported |-> Ratio(SumFunction(ClaimCount(results))
                                    - SumFunction(Grounded(results)),
                               SumFunction(ClaimCount(results)))]
  BY Zenon DEF Metrics, Total, CountOf, Found, Cited, Labelled, Grounded, CitationCount, ClaimCount,
         EvaluableOnes, RetrievedOnes
<1>2. /\ rightOnes \in SUBSET EvaluableOnes(results)
      /\ withPath \in SUBSET (DOMAIN results) /\ following \in SUBSET withPath
  BY DEF EvaluableOnes, FollowsPath
<1> HIDE DEF metrics, rightOnes, withPath, following
<1>3. /\ DOMAIN metrics = {"recall", "precision", "contract_accuracy",
                        "clause_accuracy", "graph_path", "citation_precision",
                        "citation_recall", "grounded", "unsupported"}
      /\ metrics.contract_accuracy = Ratio(Cardinality(rightOnes),
                                           Cardinality(EvaluableOnes(results)))
      /\ metrics.graph_path = Ratio(Cardinality(following), Cardinality(withPath))
  BY <1>1
<1>4. \E A \in SUBSET EvaluableOnes(results) :
        metrics.contract_accuracy = Ratio(Cardinality(A), Cardinality(EvaluableOnes(results)))
  BY <1>2, <1>3
<1>5. \E B \in SUBSET (DOMAIN results) : \E A \in SUBSET B :
        metrics.graph_path = Ratio(Cardinality(A), Cardinality(B))
  BY <1>2, <1>3
<1> QED BY <1>1, <1>3, <1>4, <1>5 DEF metrics

\* The terms of one case.
LEMMA CaseCounts ==
    ASSUME NEW case, CaseIsTyped(case), case.item.relevant \subseteq Clauses
    PROVE  LET relevant == case.item.relevant
               found == Cardinality(Range(case.retrieved) \cap relevant)
               cited == Cardinality(Range(case.citations) \cap relevant)
               grounded == Cardinality({k \in DOMAIN case.claims :
                                case.claims[k] \in Range(case.citations)})
           IN  /\ found \in Nat /\ cited \in Nat /\ grounded \in Nat
               /\ Cardinality(relevant) \in Nat
               /\ Len(case.citations) \in Nat /\ Len(case.claims) \in Nat
               /\ found <= Cardinality(relevant) /\ cited <= Cardinality(relevant)
               /\ found <= K /\ (~Evaluable(case) => found = 0)
               /\ Evaluable(case) /\ Retrieved(case) => found >= 1
               /\ cited <= Len(case.citations)
               /\ grounded <= Len(case.claims)
<1> DEFINE relevant == case.item.relevant
           kept == Range(case.retrieved)
           quoted == Range(case.citations)
           good == {k \in DOMAIN case.claims : case.claims[k] \in quoted}
<1>1. IsFiniteSet(relevant) /\ Cardinality(relevant) \in Nat
  <2>1. IsFiniteSet(Clauses) /\ relevant \in SUBSET Clauses
    BY EvaluationAssumption
  <2> HIDE DEF relevant
  <2> QED BY <2>1, FS_Subset, FS_CardinalityType
<1>2. \A s \in Seq(Clauses) : Len(s) \in Nat /\ DOMAIN s = 1..Len(s)
  BY LenProperties
<1>3. \A s \in Seq(Clauses) : IsFiniteSet(Range(s)) /\ Cardinality(Range(s)) <= Len(s)
                                /\ Cardinality(Range(s)) \in Nat
  BY <1>2, RangeIsFinite
<1>4. \A A : IsFiniteSet(A) =>
        /\ Cardinality(A \cap relevant) \in Nat
        /\ Cardinality(A \cap relevant) <= Cardinality(A)
        /\ Cardinality(A \cap relevant) <= Cardinality(relevant)
  <2> HIDE DEF relevant
  <2> SUFFICES ASSUME NEW A, IsFiniteSet(A)
               PROVE  /\ Cardinality(A \cap relevant) \in Nat
                      /\ Cardinality(A \cap relevant) <= Cardinality(A)
                      /\ Cardinality(A \cap relevant) <= Cardinality(relevant)
    OBVIOUS
  <2>1. A \cap relevant \in SUBSET A /\ A \cap relevant \in SUBSET relevant
    OBVIOUS
  <2>2. /\ IsFiniteSet(A \cap relevant)
        /\ Cardinality(A \cap relevant) <= Cardinality(A)
    BY <2>1, FS_Subset
  <2>3. Cardinality(A \cap relevant) <= Cardinality(relevant)
    BY <1>1, <2>1, FS_Subset
  <2> QED BY <2>2, <2>3, FS_CardinalityType
<1>5. /\ case.retrieved \in Seq(Clauses) /\ Len(case.retrieved) \in Nat
      /\ Len(case.retrieved) <= K /\ K \in Nat
      /\ case.citations \in Seq(Clauses) /\ case.claims \in Seq(Clauses)
  BY EvaluationAssumption DEF CaseIsTyped
<1>6. Cardinality(good) \in Nat /\ Cardinality(good) <= Len(case.claims)
  <2> DEFINE m == Len(case.claims)
  <2>1. m \in Nat /\ DOMAIN case.claims = 1..m
    BY <1>2, <1>5
  <2>2. good \in SUBSET (1..m)
    BY <2>1
  <2> HIDE DEF m, good
  <2>3. IsFiniteSet(1..m) /\ Cardinality(1..m) = m
    BY <2>1, FS_Interval
  <2>4. IsFiniteSet(good) /\ Cardinality(good) <= m
    BY <2>2, <2>3, FS_Subset
  <2> QED BY <2>4, FS_CardinalityType DEF m
<1> DEFINE found == Cardinality(kept \cap relevant)
           cited == Cardinality(quoted \cap relevant)
<1>7. /\ found \in Nat /\ found <= Cardinality(kept) /\ found <= Cardinality(relevant)
      /\ Cardinality(kept) \in Nat /\ Cardinality(kept) <= Len(case.retrieved)
  <2> HIDE DEF relevant
  <2> QED BY <1>3, <1>4, <1>5
<1>8. /\ cited \in Nat /\ cited <= Cardinality(quoted) /\ cited <= Cardinality(relevant)
      /\ Cardinality(quoted) \in Nat /\ Cardinality(quoted) <= Len(case.citations)
      /\ Len(case.citations) \in Nat /\ Len(case.claims) \in Nat
  <2> HIDE DEF relevant
  <2> QED BY <1>2, <1>3, <1>4, <1>5
<1>9. ASSUME ~Evaluable(case) PROVE found = 0
  <2>1. kept \cap relevant = {}
    BY <1>9 DEF Evaluable
  <2> QED BY <2>1, FS_EmptySet
<1>10. ASSUME Evaluable(case), Retrieved(case) PROVE found >= 1
  <2>1. kept \cap relevant = relevant /\ relevant # {}
    BY <1>10 DEF Evaluable, Retrieved
  <2> HIDE DEF relevant, kept
  <2>2. Cardinality(relevant) # 0
    BY <1>1, <2>1, FS_EmptySet
  <2>3. found = Cardinality(relevant)
    BY <2>1
  <2> HIDE DEF found
  <2> QED BY <1>1, <2>2, <2>3
<1> HIDE DEF relevant, kept, quoted, good, found, cited
<1>11. found <= K /\ cited <= Len(case.citations)
  <2>1. \A a, b, c, d \in Nat : a <= b /\ b <= c /\ c <= d => a <= d
    OBVIOUS
  <2> QED BY <1>5, <1>7, <1>8, <2>1
<1> QED BY <1>1, <1>6, <1>7, <1>8, <1>9, <1>10, <1>11
        DEF relevant, kept, quoted, good, found, cited

\* Each sum is bounded term by term.
LEMMA SumsAreBounded ==
    ASSUME NEW results, NEW n, AreResults(results, n)
    PROVE  LET sum(fun) == SumFunction(fun)
               evaluable == Cardinality(EvaluableOnes(results))
               retrieved == Cardinality(RetrievedOnes(results))
           IN  /\ sum(Found(results)) \in Nat /\ sum(Cited(results)) \in Nat
               /\ sum(Grounded(results)) \in Nat /\ sum(ClaimCount(results)) \in Nat
               /\ sum(Found(results)) <= sum(Labelled(results))
               /\ sum(Cited(results)) <= sum(Labelled(results))
               /\ sum(Cited(results)) <= sum(CitationCount(results))
               /\ sum(Grounded(results)) <= sum(ClaimCount(results))
               /\ evaluable \in Nat /\ retrieved \in Nat /\ retrieved <= evaluable
               /\ sum(Found(results)) <= K * evaluable
               /\ retrieved <= sum(Found(results))
<1> DEFINE S == 1..n
           found == Found(results)
           cited == Cited(results)
           labelled == Labelled(results)
           grounded == Grounded(results)
           quoted == CitationCount(results)
           claims == ClaimCount(results)
           evaluable == EvaluableOnes(results)
           retrieved == RetrievedOnes(results)
           most == [i \in S |-> IF i \in evaluable THEN K ELSE 0]
           least == [i \in S |-> IF i \in retrieved THEN 1 ELSE 0]
<1>1. n \in Nat /\ DOMAIN results = S
  BY DEF AreResults
<1>2. \A i \in S :
        /\ found[i] \in Nat /\ cited[i] \in Nat /\ labelled[i] \in Nat
        /\ grounded[i] \in Nat /\ quoted[i] \in Nat /\ claims[i] \in Nat
        /\ found[i] <= labelled[i] /\ cited[i] <= labelled[i] /\ cited[i] <= quoted[i]
        /\ grounded[i] <= claims[i]
        /\ found[i] <= K /\ (i \notin evaluable => found[i] = 0)
        /\ i \in retrieved => found[i] >= 1
  <2> TAKE i \in S
  <2>1. CaseIsTyped(results[i]) /\ results[i].item.relevant \subseteq Clauses
    BY DEF AreResults
  <2>2. i \in DOMAIN results
    BY <1>1
  <2> QED BY <2>1, <2>2, CaseCounts DEF Found, Cited, Labelled, Grounded, CitationCount,
                ClaimCount, EvaluableOnes, RetrievedOnes
<1>3. /\ DOMAIN found = S /\ DOMAIN cited = S /\ DOMAIN labelled = S
      /\ DOMAIN grounded = S /\ DOMAIN quoted = S /\ DOMAIN claims = S
  BY <1>1 DEF Found, Cited, Labelled, Grounded, CitationCount, ClaimCount
<1>4. evaluable \in SUBSET S /\ retrieved \in SUBSET evaluable
  BY <1>1 DEF EvaluableOnes, RetrievedOnes
<1>5. IsFiniteSet(S)
  BY <1>1, FS_Interval
<1>6. K \in Nat
  BY EvaluationAssumption
<1> HIDE DEF S, found, cited, labelled, grounded, quoted, claims, evaluable, retrieved
<1>7. /\ IsTally(found, S) /\ IsTally(cited, S) /\ IsTally(labelled, S)
      /\ IsTally(grounded, S) /\ IsTally(quoted, S) /\ IsTally(claims, S)
  BY <1>2, <1>5 DEF IsTally
<1>8. IsTally(most, S) /\ IsTally(least, S)
  BY <1>5, <1>6 DEF IsTally
<1>9. /\ SumFunctionOnSet(found, S) \in Nat /\ SumFunctionOnSet(cited, S) \in Nat
      /\ SumFunctionOnSet(grounded, S) \in Nat /\ SumFunctionOnSet(claims, S) \in Nat
  BY <1>7, SumFacts
<1>10. /\ SumFunctionOnSet(found, S) <= SumFunctionOnSet(labelled, S)
       /\ SumFunctionOnSet(cited, S) <= SumFunctionOnSet(labelled, S)
       /\ SumFunctionOnSet(cited, S) <= SumFunctionOnSet(quoted, S)
       /\ SumFunctionOnSet(grounded, S) <= SumFunctionOnSet(claims, S)
  BY <1>2, <1>7, SumIsMonotone
<1>11. \A i \in S : found[i] <= most[i] /\ least[i] <= found[i]
  BY <1>2, <1>6
<1>12. /\ \A i \in S : most[i] = IF i \in evaluable THEN K ELSE 0
       /\ \A i \in S : least[i] = IF i \in retrieved THEN 1 ELSE 0
  OBVIOUS
<1> HIDE DEF most, least
<1>13. /\ SumFunctionOnSet(found, S) <= SumFunctionOnSet(most, S)
       /\ SumFunctionOnSet(least, S) <= SumFunctionOnSet(found, S)
  BY <1>7, <1>8, <1>11, SumIsMonotone
<1>14. /\ Cardinality(evaluable) \in Nat
       /\ SumFunctionOnSet(most, S) = K * Cardinality(evaluable)
  BY <1>4, <1>6, <1>8, <1>12, SumOfConstant
<1>15. /\ Cardinality(retrieved) \in Nat
       /\ SumFunctionOnSet(least, S) = 1 * Cardinality(retrieved)
  <2>1. retrieved \in SUBSET S /\ 1 \in Nat
    BY <1>4
  <2> QED BY <1>8, <1>12, <2>1, SumOfConstant
<1>16. Cardinality(retrieved) <= Cardinality(evaluable)
  <2>1. IsFiniteSet(evaluable)
    BY <1>4, <1>5, FS_Subset
  <2> QED BY <1>4, <2>1, FS_Subset
<1>17. Cardinality(retrieved) <= SumFunctionOnSet(found, S)
  BY <1>9, <1>13, <1>15
<1> QED BY <1>3, <1>9, <1>10, <1>13, <1>14, <1>15, <1>16, <1>17
        DEF SumFunction, found, cited, labelled, grounded, quoted, claims, evaluable, retrieved

\* Every evaluable case is counted in the category of its item.
LEMMA CategoriesAddUp ==
    ASSUME NEW results, NEW n, AreResults(results, n)
    PROVE  /\ SumFunction([c \in DOMAIN Distribution |->
                            CategoryAccuracy(results, c).numerator])
                = Cardinality(RetrievedOnes(results))
           /\ SumFunction([c \in DOMAIN Distribution |->
                            CategoryAccuracy(results, c).denominator])
                = Cardinality(EvaluableOnes(results))
<1> DEFINE kinds == DOMAIN Distribution
           kind == [i \in DOMAIN results |-> results[i].item.category]
           numerators == [c \in kinds |-> CategoryAccuracy(results, c).numerator]
           denominators == [c \in kinds |-> CategoryAccuracy(results, c).denominator]
           retrieved == RetrievedOnes(results)
           evaluable == EvaluableOnes(results)
<1>1. n \in Nat /\ DOMAIN results = 1..n /\ IsFiniteSet(1..n)
  BY FS_Interval DEF AreResults
<1>2. /\ retrieved \in SUBSET (1..n) /\ evaluable \in SUBSET (1..n)
      /\ \A i \in 1..n : kind[i] \in kinds
  BY <1>1 DEF RetrievedOnes, EvaluableOnes, AreResults
<1>3. IsFiniteSet(kinds)
  BY EvaluationAssumption
<1>4. ASSUME NEW c \in kinds
      PROVE  /\ numerators[c] = Cardinality({i \in retrieved : kind[i] = c})
             /\ denominators[c] = Cardinality({i \in evaluable : kind[i] = c})
  <2>1. CategoryAccuracy(results, c).numerator
            = Cardinality({i \in DOMAIN results :
                                /\ Evaluable(results[i]) /\ results[i].item.category = c
                                /\ Retrieved(results[i])})
    BY DEF CategoryAccuracy, CountOf, Ratio
  <2>2. CategoryAccuracy(results, c).denominator
            = Cardinality({i \in DOMAIN results :
                                Evaluable(results[i]) /\ results[i].item.category = c})
    BY DEF CategoryAccuracy, CountOf, Ratio
  <2>3. {i \in DOMAIN results : /\ Evaluable(results[i]) /\ results[i].item.category = c
                                /\ Retrieved(results[i])}
            = {i \in retrieved : kind[i] = c}
    BY DEF RetrievedOnes
  <2>4. {i \in DOMAIN results : Evaluable(results[i]) /\ results[i].item.category = c}
            = {i \in evaluable : kind[i] = c}
    BY DEF EvaluableOnes
  <2> QED BY <2>1, <2>2, <2>3, <2>4
<1>5. DOMAIN numerators = kinds /\ DOMAIN denominators = kinds
  OBVIOUS
<1> HIDE DEF kinds, kind, numerators, denominators, retrieved, evaluable
<1>6. IsFiniteSet(retrieved) /\ IsFiniteSet(evaluable)
  BY <1>1, <1>2, FS_Subset
<1>7. /\ \A i \in retrieved : kind[i] \in kinds
      /\ \A i \in evaluable : kind[i] \in kinds
  BY <1>2
<1>8. SumFunctionOnSet(numerators, kinds) = Cardinality(retrieved)
  <2>1. CountsKinds(numerators, kinds, kind, retrieved)
    BY <1>4 DEF CountsKinds
  <2>2. IsFiniteSet(kinds) /\ IsFiniteSet(retrieved) /\ \A i \in retrieved : kind[i] \in kinds
    BY <1>3, <1>6, <1>7
  <2> QED BY ONLY <2>1, <2>2, SumOfKinds
<1>9. SumFunctionOnSet(denominators, kinds) = Cardinality(evaluable)
  <2>1. CountsKinds(denominators, kinds, kind, evaluable)
    BY <1>4 DEF CountsKinds
  <2>2. IsFiniteSet(kinds) /\ IsFiniteSet(evaluable) /\ \A i \in evaluable : kind[i] \in kinds
    BY <1>3, <1>6, <1>7
  <2> QED BY ONLY <2>1, <2>2, SumOfKinds
<1> QED BY <1>5, <1>8, <1>9
        DEF SumFunction, kinds, numerators, denominators, retrieved, evaluable

\* The figures of one variant, as ReportAddsUp has them.
FiguresAgree(metrics, results) ==
    /\ metrics.clause_accuracy =
        Ratio(SumFunction([c \in DOMAIN Distribution |->
                            CategoryAccuracy(results, c).numerator]),
              SumFunction([c \in DOMAIN Distribution |->
                            CategoryAccuracy(results, c).denominator]))
    /\ \A name \in DOMAIN metrics :
        metrics[name].numerator <= metrics[name].denominator
    /\ metrics.grounded.numerator + metrics.unsupported.numerator
            = metrics.grounded.denominator
    /\ metrics.clause_accuracy.numerator <= metrics.recall.numerator

\* The figures of one variant agree with each other.
LEMMA FiguresOfOneVariant ==
    ASSUME NEW results, NEW n, AreResults(results, n)
    PROVE  /\ FiguresAgree(Metrics(results), results)
           /\ Metrics(results).recall.denominator = SumFunction(Labelled(results))
<1> DEFINE metrics == Metrics(results)
           found == SumFunction(Found(results))
           cited == SumFunction(Cited(results))
           labelled == SumFunction(Labelled(results))
           grounded == SumFunction(Grounded(results))
           quoted == SumFunction(CitationCount(results))
           claims == SumFunction(ClaimCount(results))
           evaluable == Cardinality(EvaluableOnes(results))
           retrieved == Cardinality(RetrievedOnes(results))
<1>1. PICK A, B, C :
        /\ A \in SUBSET EvaluableOnes(results)
        /\ C \in SUBSET (DOMAIN results) /\ B \in SUBSET C
        /\ DOMAIN metrics = {"recall", "precision", "contract_accuracy",
                        "clause_accuracy", "graph_path", "citation_precision",
                        "citation_recall", "grounded", "unsupported"}
        /\ metrics.recall = Ratio(found, labelled)
        /\ metrics.precision = Ratio(found, K * evaluable)
        /\ metrics.contract_accuracy = Ratio(Cardinality(A), evaluable)
        /\ metrics.clause_accuracy = Ratio(retrieved, evaluable)
        /\ metrics.graph_path = Ratio(Cardinality(B), Cardinality(C))
        /\ metrics.citation_precision = Ratio(cited, quoted)
        /\ metrics.citation_recall = Ratio(cited, labelled)
        /\ metrics.grounded = Ratio(grounded, claims)
        /\ metrics.unsupported = Ratio(claims - grounded, claims)
  <2>1. /\ \E A \in SUBSET EvaluableOnes(results) :
            metrics.contract_accuracy = Ratio(Cardinality(A), evaluable)
        /\ \E C \in SUBSET (DOMAIN results) : \E B \in SUBSET C :
            metrics.graph_path = Ratio(Cardinality(B), Cardinality(C))
    BY MetricsAre
  <2>2. /\ DOMAIN metrics = {"recall", "precision", "contract_accuracy",
                        "clause_accuracy", "graph_path", "citation_precision",
                        "citation_recall", "grounded", "unsupported"}
        /\ metrics.recall = Ratio(found, labelled)
        /\ metrics.precision = Ratio(found, K * evaluable)
        /\ metrics.clause_accuracy = Ratio(retrieved, evaluable)
        /\ metrics.citation_precision = Ratio(cited, quoted)
        /\ metrics.citation_recall = Ratio(cited, labelled)
        /\ metrics.grounded = Ratio(grounded, claims)
        /\ metrics.unsupported = Ratio(claims - grounded, claims)
    BY MetricsAre
  <2> HIDE DEF metrics, found, cited, labelled, grounded, quoted, claims, evaluable, retrieved
  <2> QED BY <2>1, <2>2
<1>2. /\ found \in Nat /\ cited \in Nat /\ grounded \in Nat /\ claims \in Nat
      /\ found <= labelled /\ cited <= labelled /\ cited <= quoted /\ grounded <= claims
      /\ evaluable \in Nat /\ retrieved \in Nat /\ retrieved <= evaluable
      /\ found <= K * evaluable /\ retrieved <= found
  BY SumsAreBounded
<1>3. /\ Cardinality(A) <= evaluable
      /\ Cardinality(B) <= Cardinality(C)
  <2>1. DOMAIN results = 1..n /\ IsFiniteSet(1..n)
    BY FS_Interval DEF AreResults
  <2>2. EvaluableOnes(results) \in SUBSET (1..n) /\ C \in SUBSET (1..n)
        /\ A \in SUBSET EvaluableOnes(results) /\ B \in SUBSET C
    BY <1>1, <2>1 DEF EvaluableOnes
  <2>3. IsFiniteSet(EvaluableOnes(results)) /\ IsFiniteSet(C)
    BY <2>1, <2>2, FS_Subset
  <2>4. Cardinality(A) <= Cardinality(EvaluableOnes(results))
    BY <2>2, <2>3, FS_Subset
  <2>5. Cardinality(B) <= Cardinality(C)
    BY <2>2, <2>3, FS_Subset
  <2> QED BY <2>4, <2>5
<1>4. /\ SumFunction([c \in DOMAIN Distribution |->
                        CategoryAccuracy(results, c).numerator]) = retrieved
      /\ SumFunction([c \in DOMAIN Distribution |->
                        CategoryAccuracy(results, c).denominator]) = evaluable
  BY CategoriesAddUp
<1> HIDE DEF metrics, found, cited, labelled, grounded, quoted, claims, evaluable, retrieved
<1>5. \A a, b : Ratio(a, b).numerator = a /\ Ratio(a, b).denominator = b
  BY DEF Ratio
<1>6. \A name \in DOMAIN metrics : metrics[name].numerator <= metrics[name].denominator
  <2>1. claims - grounded <= claims
    BY <1>2
  <2>2. /\ metrics.recall.numerator <= metrics.recall.denominator
        /\ metrics.precision.numerator <= metrics.precision.denominator
        /\ metrics.contract_accuracy.numerator <= metrics.contract_accuracy.denominator
        /\ metrics.clause_accuracy.numerator <= metrics.clause_accuracy.denominator
        /\ metrics.graph_path.numerator <= metrics.graph_path.denominator
        /\ metrics.citation_precision.numerator <= metrics.citation_precision.denominator
        /\ metrics.citation_recall.numerator <= metrics.citation_recall.denominator
        /\ metrics.grounded.numerator <= metrics.grounded.denominator
        /\ metrics.unsupported.numerator <= metrics.unsupported.denominator
    BY <1>1, <1>2, <1>3, <1>5, <2>1
  <2> QED BY <1>1, <2>2
<1>7. metrics.grounded.numerator + metrics.unsupported.numerator
            = metrics.grounded.denominator
  <2>1. grounded + (claims - grounded) = claims
    BY <1>2
  <2> QED BY <1>1, <1>5, <2>1
<1>8. metrics.clause_accuracy.numerator <= metrics.recall.numerator
  BY <1>1, <1>2, <1>5
<1>9. metrics.recall.denominator = labelled
  BY <1>1, <1>5
<1>10. FiguresAgree(metrics, results)
  BY <1>1, <1>4, <1>6, <1>7, <1>8 DEF FiguresAgree
<1> QED BY <1>9, <1>10 DEF metrics, labelled

\* The cases of every variant are of the same items.
LEMMA VariantsAreResults ==
    ASSUME EvaluationInv, Judged, NEW v \in Variants
    PROVE  /\ AreResults(cases[v], Evaluated)
           /\ \A i \in 1..Evaluated : cases[v][i].item = golden[i]
<1> DEFINE n == Evaluated
<1>1. /\ cases[v] \in Seq(Range(cases[v])) /\ Len(cases[v]) = n
      /\ \A i \in 1..n :
            \E l \in LexicalRankings, r \in VectorRankings, g \in KnownAnswers :
                cases[v][i] = Case(golden[i], v, l, r, g)
      /\ n \in Nat /\ n <= Len(golden) /\ golden \in Seq(Range(golden))
  BY DEF EvaluationInv, CasesAreOfItems
<1> HIDE DEF n
<1>2. DOMAIN cases[v] = 1..n
  BY <1>1, LenProperties
<1>3. \A i \in 1..n : i \in DOMAIN golden
  BY <1>1, LenProperties
<1>4. ASSUME NEW i \in 1..n
      PROVE  /\ CaseIsTyped(cases[v][i]) /\ cases[v][i].item = golden[i]
             /\ golden[i].relevant \subseteq Clauses
             /\ golden[i].category \in DOMAIN Distribution
  <2>1. PICK l \in LexicalRankings, r \in VectorRankings, g \in KnownAnswers :
                cases[v][i] = Case(golden[i], v, l, r, g)
    BY <1>1
  <2>2. Case(golden[i], v, l, r, g).item = golden[i]
    BY DEF Case
  <2>3. CaseIsTyped(cases[v][i])
    BY <2>1, CasesAreTyped
  <2>4. ValidGolden(golden) /\ i \in DOMAIN golden
    BY <1>3 DEF EvaluationInv
  <2> QED BY <2>1, <2>2, <2>3, <2>4 DEF ValidGolden
<1> QED BY <1>1, <1>2, <1>4 DEF AreResults, n

\* The figures of every report agree with each other.
THEOREM ReportAlwaysAddsUp == Spec => []ReportAddsUp
<1>1. ASSUME EvaluationInv, Judged
      PROVE  ReportAddsUp
  <2>1. ASSUME NEW v \in Variants
        PROVE  /\ FiguresAgree(Metrics(cases[v]), cases[v])
               /\ Metrics(cases[v]).recall.denominator = SumFunction(Labelled(cases[v]))
    BY <1>1, VariantsAreResults, FiguresOfOneVariant
  <2>2. "vector_only" \in Variants
    BY DEF Variants
  <2>3. ASSUME NEW v \in Variants
        PROVE  Labelled(cases[v]) = Labelled(cases["vector_only"])
    <3>1. \A u \in Variants : /\ DOMAIN cases[u] = 1..Evaluated
                              /\ \A i \in 1..Evaluated : cases[u][i].item = golden[i]
      BY <1>1, VariantsAreResults DEF AreResults
    <3>2. \A u \in Variants :
            Labelled(cases[u]) = [i \in 1..Evaluated |-> Cardinality(golden[i].relevant)]
      <4> TAKE u \in Variants
      <4>1. Labelled(cases[u])
                = [i \in DOMAIN cases[u] |-> Cardinality(cases[u][i].item.relevant)]
        BY DEF Labelled
      <4>2. \A i \in 1..Evaluated :
                Cardinality(cases[u][i].item.relevant) = Cardinality(golden[i].relevant)
        BY <3>1
      <4> QED BY <3>1, <4>1, <4>2
    <3> QED BY <2>2, <3>2
  <2> QED BY <2>1, <2>2, <2>3 DEF ReportAddsUp, FiguresAgree
<1>2. EvaluationInv => ReportAddsUp
  BY <1>1 DEF ReportAddsUp
<1> QED BY <1>2, EvaluationInvariant, PTL
================================================================================
