-------------------------- MODULE RetrievalStackProofs --------------------------
(***************************************************************************)
(* For any corpus, any scores and any bound: reranking is inspectable and  *)
(* degradation is visible.                                                 *)
(***************************************************************************)
EXTENDS RetrievalStackProperties, FiniteProofs

\* If above[i] holds i and every element ranked above it, in a total order,
\* then the sizes of these sets number the elements from 1 to n.
LEMMA RanksAreAPermutation ==
    ASSUME NEW n \in Nat, NEW above \in [1..n -> SUBSET (1..n)],
           \A i \in 1..n : i \in above[i],
           \A i, j \in 1..n : i # j =>
                \/ above[i] \subseteq above[j] /\ j \notin above[i]
                \/ above[j] \subseteq above[i] /\ i \notin above[j]
    PROVE  /\ \A i \in 1..n : Cardinality(above[i]) \in 1..n
           /\ \A i, j \in 1..n : Cardinality(above[i]) = Cardinality(above[j]) => i = j
           /\ \A k \in 1..n : \E i \in 1..n : Cardinality(above[i]) = k
<1>1. IsFiniteSet(1..n) /\ Cardinality(1..n) = n
  BY FS_Interval
<1>2. ASSUME NEW i \in 1..n
      PROVE  IsFiniteSet(above[i]) /\ Cardinality(above[i]) \in 1..n
  <2>1. above[i] \in SUBSET (1..n) /\ above[i] # {}
    OBVIOUS
  <2>2. IsFiniteSet(above[i]) /\ Cardinality(above[i]) <= n
    BY <1>1, <2>1, FS_Subset
  <2>3. Cardinality(above[i]) \in Nat /\ Cardinality(above[i]) # 0
    BY <2>1, <2>2, FS_CardinalityType, FS_EmptySet
  <2> QED BY <2>2, <2>3
<1>3. ASSUME NEW i \in 1..n, NEW j \in 1..n,
             above[i] \subseteq above[j], j \notin above[i]
      PROVE  Cardinality(above[i]) # Cardinality(above[j])
  <2>1. above[i] # above[j]
    BY <1>3
  <2> QED BY <1>2, <1>3, <2>1, FS_Subset
<1>4. \A i, j \in 1..n : Cardinality(above[i]) = Cardinality(above[j]) => i = j
  BY <1>3
<1>5. \A k \in 1..n : \E i \in 1..n : Cardinality(above[i]) = k
  <2> DEFINE rank == [i \in 1..n |-> Cardinality(above[i])]
  <2>1. rank \in [1..n -> 1..n]
    BY <1>2
  <2>2. \A i, j \in 1..n : rank[i] = rank[j] => i = j
    BY <1>4
  <2> HIDE DEF rank
  <2>3. rank \in Injection(1..n, 1..n)
    BY <2>1, <2>2 DEF Injection, IsInjective
  <2>4. rank \in Surjection(1..n, 1..n)
    BY <1>1, <2>3, FS_Injection
  <2>5. \A k \in 1..n : \E i \in 1..n : rank[i] = k
    BY <2>4 DEF Surjection
  <2> QED BY <2>5 DEF rank
<1> QED BY <1>2, <1>4, <1>5

------------------------------------------------------------------------------

\* A sequence of distinct results, each numbered by its place.
Numbered(s) ==
    /\ s \in Seq(Results)
    /\ \A i \in DOMAIN s : s[i].rank = i
    /\ \A i, j \in DOMAIN s : s[i].clause_id = s[j].clause_id => i = j

\* The clauses among the results of s.
ClausesOf(s) == {s[i].clause_id : i \in DOMAIN s}

\* Reranking permutes the candidates and renumbers them.
LEMMA RerankedIsNumbered ==
    ASSUME NEW candidates, Numbered(candidates),
           NEW scores \in [DOMAIN candidates -> Scores]
    PROVE  /\ Numbered(Reranked(candidates, scores))
           /\ ClausesOf(Reranked(candidates, scores)) = ClausesOf(candidates)
<1> DEFINE n == Len(candidates)
           above == [i \in 1..n |-> {j \in 1..n :
                        \/ scores[j] > scores[i]
                        \/ /\ scores[j] = scores[i]
                           /\ candidates[j].clause_id <= candidates[i].clause_id}]
           place == [k \in 1..n |-> CHOOSE i \in 1..n : Cardinality(above[i]) = k]
           after == Reranked(candidates, scores)
<1>1. /\ n \in Nat /\ DOMAIN candidates = 1..n /\ candidates \in [1..n -> Results]
      /\ \A i \in 1..n : candidates[i].clause_id \in Nat
      /\ \A i \in 1..n : scores[i] \in Nat
      /\ \A i, j \in 1..n : candidates[i].clause_id = candidates[j].clause_id => i = j
  <2>1. n \in Nat /\ DOMAIN candidates = 1..n /\ candidates \in [1..n -> Results]
    BY LenProperties DEF Numbered
  <2>2. \A r \in Results : r.clause_id \in Nat
    BY StackAssumption DEF Results
  <2>3. \A i \in 1..n : scores[i] \in Nat
    BY <2>1, StackAssumption
  <2> QED BY <2>1, <2>2, <2>3 DEF Numbered
<1>2. above \in [1..n -> SUBSET (1..n)]
  OBVIOUS
<1>3. \A i \in 1..n : i \in above[i]
  BY <1>1
<1>4. \A i, j \in 1..n : i # j =>
            \/ above[i] \subseteq above[j] /\ j \notin above[i]
            \/ above[j] \subseteq above[i] /\ i \notin above[j]
  <2> SUFFICES ASSUME NEW i \in 1..n, NEW j \in 1..n, i # j
               PROVE  \/ above[i] \subseteq above[j] /\ j \notin above[i]
                      \/ above[j] \subseteq above[i] /\ i \notin above[j]
    OBVIOUS
  <2>1. candidates[i].clause_id # candidates[j].clause_id
    BY <1>1
  <2>2. CASE \/ scores[i] > scores[j]
             \/ /\ scores[i] = scores[j]
                /\ candidates[i].clause_id < candidates[j].clause_id
    BY <1>1, <2>1, <2>2
  <2>3. CASE \/ scores[j] > scores[i]
             \/ /\ scores[i] = scores[j]
                /\ candidates[j].clause_id < candidates[i].clause_id
    BY <1>1, <2>1, <2>3
  <2> QED BY <1>1, <2>1, <2>2, <2>3
<1> HIDE DEF above
<1>5. /\ \A i \in 1..n : Cardinality(above[i]) \in 1..n
      /\ \A i, j \in 1..n : Cardinality(above[i]) = Cardinality(above[j]) => i = j
      /\ \A k \in 1..n : \E i \in 1..n : Cardinality(above[i]) = k
  BY <1>1, <1>2, <1>3, <1>4, RanksAreAPermutation
<1>6. /\ \A k \in 1..n : place[k] \in 1..n /\ Cardinality(above[place[k]]) = k
      /\ \A i \in 1..n : place[Cardinality(above[i])] = i
  BY <1>5
<1>7. after = [k \in 1..n |-> [clause_id |-> candidates[place[k]].clause_id, rank |-> k]]
  BY <1>1 DEF Reranked, above
<1> HIDE DEF place, after
<1>8. after \in [1..n -> Results]
  <2>1. \A k \in 1..n : candidates[k].rank = k
    BY <1>1 DEF Numbered
  <2>2. \A k \in 1..n : k \in 1..Limit
    BY <1>1, <2>1 DEF Results
  <2> QED BY <1>1, <1>6, <1>7, <2>2 DEF Results
<1>9. after \in Seq(Results) /\ DOMAIN after = 1..n
  BY <1>1, <1>8, SeqDef
<1>10. \A k, m \in 1..n : after[k].clause_id = after[m].clause_id => k = m
  <2> SUFFICES ASSUME NEW k \in 1..n, NEW m \in 1..n,
                      after[k].clause_id = after[m].clause_id
               PROVE  k = m
    OBVIOUS
  <2>1. candidates[place[k]].clause_id = candidates[place[m]].clause_id
    BY <1>7
  <2>2. place[k] = place[m]
    BY <1>1, <1>6, <2>1
  <2> QED BY <1>6, <2>2
<1>11. Numbered(after)
  BY <1>7, <1>9, <1>10 DEF Numbered
<1>12. ClausesOf(after) = ClausesOf(candidates)
  <2>1. \A k \in 1..n : after[k].clause_id \in ClausesOf(candidates)
    BY <1>1, <1>6, <1>7 DEF ClausesOf
  <2>2. \A i \in 1..n : candidates[i].clause_id = after[Cardinality(above[i])].clause_id
    BY <1>5, <1>6, <1>7
  <2>3. \A i \in 1..n : candidates[i].clause_id \in ClausesOf(after)
    <3> TAKE i \in 1..n
    <3>1. PICK k \in 1..n : k = Cardinality(above[i])
      BY <1>5
    <3>2. k \in DOMAIN after /\ candidates[i].clause_id = after[k].clause_id
      BY <1>9, <2>2, <3>1
    <3> QED BY <3>2 DEF ClausesOf
  <2>4. ClausesOf(candidates) \subseteq ClausesOf(after)
    BY <1>1, <2>3 DEF ClausesOf
  <2>5. ClausesOf(after) \subseteq ClausesOf(candidates)
    BY <1>9, <2>1 DEF ClausesOf
  <2> QED BY <2>4, <2>5
<1> QED BY <1>11, <1>12 DEF after

\* Of two numberings of the same clauses, the changes lead from the places in
\* the one to the places in the other, one for every clause.
LEMMA ChangesPairPlaces ==
    ASSUME NEW before, Numbered(before), NEW after, Numbered(after),
           ClausesOf(before) = ClausesOf(after), NEW scores
    PROVE  /\ Cardinality(Changes(before, after, scores)) = Len(before)
           /\ \A c \in Changes(before, after, scores) :
                /\ c.before \in DOMAIN before /\ before[c.before].clause_id = c.clause_id
                /\ c.after \in DOMAIN after /\ after[c.after].clause_id = c.clause_id
                /\ c.reranker_score = scores[c.before]
<1> DEFINE n == Len(before)
           change(i, j) == [clause_id |-> before[i].clause_id, before |-> before[i].rank,
                            after |-> after[j].rank, reranker_score |-> scores[i]]
           place == [i \in 1..n |->
                        CHOOSE j \in DOMAIN after : after[j].clause_id = before[i].clause_id]
           f == [i \in 1..n |-> change(i, place[i])]
           changes == Changes(before, after, scores)
<1>1. n \in Nat /\ DOMAIN before = 1..n
  BY LenProperties DEF Numbered
<1>2. \A i \in 1..n : \E j \in DOMAIN after : after[j].clause_id = before[i].clause_id
  BY <1>1 DEF ClausesOf
<1>3. \A i \in 1..n : /\ place[i] \in DOMAIN after
                      /\ after[place[i]].clause_id = before[i].clause_id
  BY <1>2
<1>4. \A i \in 1..n : \A j \in DOMAIN after :
            before[i].clause_id = after[j].clause_id => j = place[i]
  BY <1>3 DEF Numbered
<1> HIDE DEF place
<1>5. \A c \in changes : \E i \in 1..n : c = f[i]
  BY <1>1, <1>4 DEF Changes
<1>6. \A i \in 1..n : f[i] \in changes
  <2> SUFFICES ASSUME NEW i \in 1..n PROVE f[i] \in changes
    OBVIOUS
  <2>1. <<i, place[i]>> \in {r \in (DOMAIN before) \X (DOMAIN after) :
                                before[r[1]].clause_id = after[r[2]].clause_id}
    BY <1>1, <1>3
  <2> QED BY <2>1 DEF Changes
<1>7. \A i, j \in 1..n : f[i] = f[j] => i = j
  BY <1>1 DEF Numbered
<1>8. f \in Bijection(1..n, changes)
  <2>1. f \in [1..n -> changes]
    BY <1>6
  <2> HIDE DEF f, changes
  <2>2. f \in Injection(1..n, changes)
    BY <1>7, <2>1 DEF Injection, IsInjective
  <2>3. f \in Surjection(1..n, changes)
    BY <1>5, <2>1 DEF Surjection
  <2> QED BY <2>2, <2>3 DEF Bijection
<1>9. Cardinality(changes) = n
  BY <1>1, <1>8, FS_CountingElements DEF ExistsBijection
<1>10. ASSUME NEW c \in changes
       PROVE  /\ c.before \in DOMAIN before /\ before[c.before].clause_id = c.clause_id
              /\ c.after \in DOMAIN after /\ after[c.after].clause_id = c.clause_id
              /\ c.reranker_score = scores[c.before]
  <2>1. PICK i \in 1..n : c = change(i, place[i])
    BY <1>5
  <2>2. before[i].rank = i /\ after[place[i]].rank = place[i]
    BY <1>1, <1>3 DEF Numbered
  <2> QED BY <1>1, <1>3, <2>1, <2>2
<1> QED BY <1>9, <1>10

\* Cutting a sequence off keeps its first elements.
LEMMA FirstOfFacts ==
    ASSUME NEW T, NEW s \in Seq(T), NEW n \in Nat
    PROVE  /\ FirstOf(s, n) \in Seq(T)
           /\ Len(FirstOf(s, n)) <= n /\ Len(FirstOf(s, n)) <= Len(s)
           /\ \A i \in 1..Len(FirstOf(s, n)) : FirstOf(s, n)[i] = s[i]
<1> DEFINE m == Min({n, Len(s)})
<1>1. Len(s) \in Nat /\ \A i \in 1..Len(s) : s[i] \in T
  BY LenProperties
<1>2. m \in {n, Len(s)} /\ m <= n /\ m <= Len(s)
  <2>1. \E x \in {n, Len(s)} : \A y \in {n, Len(s)} : x <= y
    BY <1>1
  <2> QED BY <1>1, <2>1 DEF Min
<1>3. m \in Nat
  BY <1>1, <1>2
<1> HIDE DEF m
<1>4. /\ SubSeq(s, 1, m) \in Seq(T)
      /\ Len(SubSeq(s, 1, m)) = IF 1 <= m THEN m - 1 + 1 ELSE 0
      /\ \A i \in 1..(m - 1 + 1) : SubSeq(s, 1, m)[i] = s[1 + i - 1]
  <2>1. \A i \in 1..m : s[i] \in T
    BY <1>1, <1>2, <1>3
  <2> QED BY <1>3, <2>1, SubSeqProperties
<1>5. FirstOf(s, n) = SubSeq(s, 1, m)
  BY DEF FirstOf, m
<1> QED BY <1>1, <1>2, <1>3, <1>4, <1>5

\* Numbering an order of distinct clauses and cutting it off at the bound.
LEMMA RankedIsNumbered ==
    ASSUME NEW S, S \subseteq Clauses \cup Unknown, IsFiniteSet(S),
           NEW order \in SetToSeqs(S)
    PROVE  Numbered(FirstOf(Ranked(order), Limit))
<1> DEFINE n == Cardinality(S)
           all == [clause_id: Clauses \cup Unknown, rank: Nat]
           cut == FirstOf(Ranked(order), Limit)
<1>1. /\ n \in Nat /\ order \in [1..n -> S]
      /\ \A i, j \in 1..n : order[i] = order[j] => i = j
  BY FS_CardinalityType DEF SetToSeqs
<1>2. Ranked(order) = [i \in 1..n |-> [clause_id |-> order[i], rank |-> i]]
  BY <1>1 DEF Ranked
<1>3. Ranked(order) \in [1..n -> all]
  BY <1>1, <1>2
<1>4. Ranked(order) \in Seq(all) /\ Len(Ranked(order)) = n
  <2> HIDE DEF n, all
  <2> QED BY <1>1, <1>3, FunctionIsSeq
<1>5. Limit \in Nat
  BY StackAssumption
<1>6. /\ cut \in Seq(all) /\ Len(cut) <= Limit /\ Len(cut) <= n
      /\ \A i \in 1..Len(cut) : cut[i] = Ranked(order)[i]
  BY <1>4, <1>5, FirstOfFacts
<1> HIDE DEF cut
<1>7. Len(cut) \in Nat /\ DOMAIN cut = 1..Len(cut)
  BY <1>6, LenProperties
<1>8. \A i \in 1..Len(cut) : /\ i \in 1..n /\ i \in 1..Limit
                             /\ cut[i] = [clause_id |-> order[i], rank |-> i]
  <2> TAKE i \in 1..Len(cut)
  <2>1. i \in 1..n /\ i \in 1..Limit
    BY <1>1, <1>5, <1>6, <1>7
  <2> QED BY <1>2, <1>6, <2>1
<1>9. cut \in Seq(Results)
  <2>1. cut \in [1..Len(cut) -> all]
    BY <1>6, LenProperties
  <2>2. \A i \in 1..Len(cut) : cut[i] \in Results
    <3> TAKE i \in 1..Len(cut)
    <3>1. order[i] \in Clauses \cup Unknown
      BY <1>1, <1>8
    <3>2. cut[i] = [clause_id |-> order[i], rank |-> i] /\ i \in 1..Limit
      BY <1>8
    <3> QED BY <3>1, <3>2 DEF Results
  <2>3. cut \in [1..Len(cut) -> Results]
    BY <2>1, <2>2
  <2> QED BY <1>7, <2>3, SeqDef
<1>10. \A i, j \in DOMAIN cut : cut[i].clause_id = cut[j].clause_id => i = j
  BY <1>1, <1>7, <1>8
<1> QED BY <1>7, <1>8, <1>9, <1>10 DEF Numbered, cut

\* There are only finitely many clauses to fuse.
LEMMA FusedIsFinite ==
    ASSUME NEW a \in Seq(Results), NEW b \in Seq(Results), NEW c \in Seq(Results)
    PROVE  /\ IsFiniteSet(Fused(Placed(a), Placed(b), Placed(c)))
           /\ Fused(Placed(a), Placed(b), Placed(c)) \subseteq Clauses \cup Unknown
<1>1. ASSUME NEW s \in Seq(Results)
      PROVE  IsFiniteSet(ClausesOf(s)) /\ ClausesOf(s) \subseteq Clauses \cup Unknown
  <2>1. Len(s) \in Nat /\ DOMAIN s = 1..Len(s) /\ s \in [1..Len(s) -> Results]
    BY LenProperties
  <2> DEFINE f == [i \in 1..Len(s) |-> s[i].clause_id]
  <2>2. f \in Surjection(1..Len(s), ClausesOf(s))
    BY <2>1 DEF Surjection, ClausesOf
  <2>3. IsFiniteSet(1..Len(s))
    BY <2>1, FS_Interval
  <2> HIDE DEF f
  <2>4. IsFiniteSet(ClausesOf(s))
    BY <2>2, <2>3, FS_Surjection
  <2> QED BY <2>1, <2>4 DEF ClausesOf, Results
<1>2. Fused(Placed(a), Placed(b), Placed(c)) = ClausesOf(a) \cup ClausesOf(b) \cup ClausesOf(c)
  <2>1. \A s : {r.clause_id : r \in Placed(s)} = ClausesOf(s)
    <3> TAKE s
    <3>1. \A r \in Placed(s) : r.clause_id \in ClausesOf(s)
      BY DEF Placed, ClausesOf
    <3>2. ASSUME NEW i \in DOMAIN s
          PROVE  s[i].clause_id \in {r.clause_id : r \in Placed(s)}
      <4>1. [clause_id |-> s[i].clause_id, rank |-> s[i].rank, place |-> i] \in Placed(s)
        BY DEF Placed
      <4> QED BY <4>1
    <3> QED BY <3>1, <3>2 DEF ClausesOf
  <2>2. Fused(Placed(a), Placed(b), Placed(c))
            = {r.clause_id : r \in Placed(a)} \cup {r.clause_id : r \in Placed(b)}
                \cup {r.clause_id : r \in Placed(c)}
    BY DEF Fused
  <2> QED BY <2>1, <2>2
<1>3. /\ IsFiniteSet(ClausesOf(a)) /\ IsFiniteSet(ClausesOf(b)) /\ IsFiniteSet(ClausesOf(c))
      /\ ClausesOf(a) \cup ClausesOf(b) \cup ClausesOf(c) \subseteq Clauses \cup Unknown
  BY <1>1
<1>4. IsFiniteSet(ClausesOf(a) \cup ClausesOf(b))
  BY <1>3, FS_Union
<1> QED BY <1>2, <1>3, <1>4, FS_Union

------------------------------------------------------------------------------

Places == {"ready", "retrieved", "embedding_error", "fused", "key_error", "done"}

\* Where the search is fixes what the lists, the fused candidates and the
\* outcome hold: a finished search has either reranked the fused candidates by
\* some scores or kept them as they were and given the reason.
StackInv ==
    /\ outcome.at \in Places
    /\ models.scorer \in BOOLEAN
    /\ outcome.at = "retrieved" =>
        /\ lists.lexical \in Seq(Results)
        /\ lists.vector \in Seq(Results)
        /\ lists.graph \in Seq(Results)
    /\ outcome.at \in {"fused", "done"} => Numbered(fused)
    /\ outcome.at = "done" =>
        \/ /\ models.scorer
           /\ outcome.reason = "none"
           /\ \E scores \in [DOMAIN fused -> Scores] :
                /\ outcome.results = Reranked(fused, scores)
                /\ outcome.changes = Changes(fused, Reranked(fused, scores), scores)
        \/ /\ outcome.reason = Reason(models.scorer)
           /\ outcome.results = fused
           /\ outcome.changes = Changes(fused, fused, [i \in DOMAIN fused |-> NoScore])

\* A search starts with nothing.
LEMMA StackInvInit == Init => StackInv
BY DEF Init, StackInv, At, Places

\* The lists are rankings of the clauses and results of the caller.
LEMMA RetrieveKeeps ==
    ASSUME StackInv, NEW l \in SetToSeqs(Clauses), NEW v \in SetToSeqs(Clauses),
           NEW g \in BoundedSeq(Results, Limit), Retrieve(l, v, g)
    PROVE  StackInv'
<1>1. /\ outcome'.at = "retrieved" /\ models' = models
      /\ lists'.lexical = FirstOf(Ranked(l), Limit)
      /\ lists'.vector = FirstOf(Ranked(v), Limit)
      /\ lists'.graph = FirstOf(g, Limit)
  BY DEF Retrieve, At
<1>2. lists'.lexical \in Seq(Results) /\ lists'.vector \in Seq(Results)
  <2>1. Clauses \subseteq Clauses \cup Unknown /\ IsFiniteSet(Clauses)
    BY StackAssumption
  <2> QED BY <1>1, <2>1, RankedIsNumbered DEF Numbered
<1>3. lists'.graph \in Seq(Results)
  <2>1. Limit \in Nat
    BY StackAssumption
  <2>2. PICK m \in 0..Limit : g \in [1..m -> Results]
    BY DEF BoundedSeq, SeqOf
  <2>3. g \in Seq(Results)
    <3> HIDE DEF Results
    <3> QED BY <2>1, <2>2, FunctionIsSeq
  <2> QED BY <1>1, <2>1, <2>3, FirstOfFacts
<1> QED BY <1>1, <1>2, <1>3 DEF StackInv, Places

\* A failing embedding leaves nothing behind.
LEMMA EmbeddingFailsKeeps == StackInv /\ EmbeddingFails => StackInv'
BY DEF StackInv, EmbeddingFails, At, Places

\* The fused candidates are different clauses, ranked by their place.
LEMMA FuseKeeps ==
    ASSUME StackInv, NEW order \in FusedOrders(lists), Fuse(order)
    PROVE  StackInv'
<1>1. /\ outcome.at = "retrieved" /\ outcome'.at \in {"fused", "key_error"}
      /\ models' = models /\ fused' = FirstOf(Ranked(order), Limit)
  BY DEF Fuse, At
<1> DEFINE all == Fused(Placed(lists.lexical), Placed(lists.vector), Placed(lists.graph))
<1>2. IsFiniteSet(all) /\ all \subseteq Clauses \cup Unknown
  BY <1>1, FusedIsFinite DEF StackInv
<1>3. order \in SetToSeqs(all)
  BY DEF FusedOrders
<1> HIDE DEF all
<1>4. Numbered(fused')
  BY <1>1, <1>2, <1>3, RankedIsNumbered
<1> QED BY <1>1, <1>4 DEF StackInv, Places

\* A rerank numbers the candidates anew and records every change.
LEMMA RerankKeeps ==
    ASSUME StackInv, NEW scores \in [DOMAIN fused -> Scores], Rerank(scores)
    PROVE  StackInv'
BY DEF StackInv, Rerank, Places

\* A fallback keeps the candidates as they are.
LEMMA DegradeKeeps == StackInv /\ Degrade => StackInv'
BY DEF StackInv, Degrade, Places

\* The next search starts with nothing.
LEMMA ReturnKeeps == StackInv /\ Return => StackInv'
BY DEF StackInv, Return, At, Places

\* What a finished search returns is one of two things, for any models.
THEOREM StackInvariant == Spec => []StackInv
<1>1. Init => StackInv
  BY StackInvInit
<1>2. StackInv /\ [Next]_vars => StackInv'
  <2> SUFFICES ASSUME StackInv, [Next]_vars PROVE StackInv'
    OBVIOUS
  <2>1. CASE Next
    BY <2>1, RetrieveKeeps, EmbeddingFailsKeeps, FuseKeeps, RerankKeeps, DegradeKeeps,
       ReturnKeeps
       DEF Next
  <2>2. CASE UNCHANGED vars
    BY <2>2 DEF StackInv, vars
  <2> QED BY <2>1, <2>2
<1> QED BY <1>1, <1>2, PTL DEF Spec

\* The results of a finished search number the fused candidates, and its
\* changes lead from the one to the other; scores are those it was reranked by.
LEMMA FinishedSearch ==
    ASSUME StackInv, Done
    PROVE  \E scores \in [DOMAIN fused -> Scores \cup {NoScore}] :
            /\ Numbered(fused) /\ Numbered(outcome.results)
            /\ ClausesOf(outcome.results) = ClausesOf(fused)
            /\ outcome.changes = Changes(fused, outcome.results, scores)
            /\ Fallback => /\ outcome.results = fused
                           /\ outcome.reason = Reason(models.scorer)
            /\ ~Fallback => models.scorer /\ outcome.reason = "none"
            /\ \A i \in DOMAIN fused : scores[i] = NoScore <=> Fallback
<1>1. Numbered(fused)
  BY DEF StackInv, Done
<1>2. CASE /\ models.scorer
           /\ outcome.reason = "none"
           /\ \E scores \in [DOMAIN fused -> Scores] :
                /\ outcome.results = Reranked(fused, scores)
                /\ outcome.changes = Changes(fused, Reranked(fused, scores), scores)
  <2>1. PICK scores \in [DOMAIN fused -> Scores] :
                /\ outcome.results = Reranked(fused, scores)
                /\ outcome.changes = Changes(fused, Reranked(fused, scores), scores)
    BY <1>2
  <2>2. Numbered(outcome.results) /\ ClausesOf(outcome.results) = ClausesOf(fused)
    BY <1>1, <2>1, RerankedIsNumbered
  <2>3. ~Fallback
    BY <1>2 DEF Fallback
  <2>4. \A i \in DOMAIN fused : scores[i] # NoScore
    BY StackAssumption
  <2>5. scores \in [DOMAIN fused -> Scores \cup {NoScore}]
    OBVIOUS
  <2> QED BY <1>1, <1>2, <2>1, <2>2, <2>3, <2>4, <2>5
<1>3. CASE /\ outcome.reason = Reason(models.scorer)
           /\ outcome.results = fused
           /\ outcome.changes = Changes(fused, fused, [i \in DOMAIN fused |-> NoScore])
  <2> DEFINE scores == [i \in DOMAIN fused |-> NoScore]
  <2>1. Fallback
    BY <1>3 DEF Fallback, Reason
  <2>2. scores \in [DOMAIN fused -> Scores \cup {NoScore}]
    OBVIOUS
  <2>3. \A i \in DOMAIN fused : scores[i] = NoScore
    OBVIOUS
  <2> HIDE DEF scores
  <2>4. outcome.changes = Changes(fused, outcome.results, scores)
    BY <1>3 DEF scores
  <2> QED BY <1>1, <1>3, <2>1, <2>2, <2>3, <2>4
<1> QED BY <1>2, <1>3 DEF StackInv, Done

\* Reranking loses, adds and repeats nothing, and every recorded change of
\* position is true, for any corpus, scores and bound.
THEOREM RerankingIsAlwaysInspectable == Spec => []RerankingIsInspectable
<1>1. StackInv => RerankingIsInspectable
  <2> SUFFICES ASSUME StackInv, Done
               PROVE  /\ \A i, j \in DOMAIN outcome.results :
                            outcome.results[i].clause_id = outcome.results[j].clause_id
                                => i = j
                      /\ {r.clause_id : r \in Range(outcome.results)}
                            = {r.clause_id : r \in Range(fused)}
                      /\ \A i \in DOMAIN outcome.results : outcome.results[i].rank = i
                      /\ Cardinality(outcome.changes) = Len(fused)
                      /\ \A c \in outcome.changes :
                            /\ fused[c.before].clause_id = c.clause_id
                            /\ outcome.results[c.after].clause_id = c.clause_id
    BY DEF RerankingIsInspectable
  <2>1. PICK scores \in [DOMAIN fused -> Scores \cup {NoScore}] :
            /\ Numbered(fused) /\ Numbered(outcome.results)
            /\ ClausesOf(outcome.results) = ClausesOf(fused)
            /\ outcome.changes = Changes(fused, outcome.results, scores)
    BY FinishedSearch
  <2>2. \A s : {r.clause_id : r \in Range(s)} = ClausesOf(s)
    BY DEF Range, ClausesOf
  <2>3. /\ Cardinality(outcome.changes) = Len(fused)
        /\ \A c \in outcome.changes :
            /\ fused[c.before].clause_id = c.clause_id
            /\ outcome.results[c.after].clause_id = c.clause_id
    BY <2>1, ChangesPairPlaces
  <2> QED BY <2>1, <2>2, <2>3 DEF Numbered
<1> QED BY <1>1, StackInvariant, PTL

\* An order that the cross-encoder did not decide is the fused order, with the
\* reason, and no change of position carries a score.
THEOREM DegradationIsAlwaysVisible == Spec => []DegradationIsVisible
<1>1. StackInv => DegradationIsVisible
  <2> SUFFICES ASSUME StackInv, Done
               PROVE  /\ ~models.scorer => Fallback
                      /\ Fallback => outcome.results = fused
                      /\ outcome.reason = "cross_encoder_not_cached" <=>
                            "cross_encoder_not_cached" \in DegradedComponents
                      /\ \A c \in outcome.changes : c.reranker_score = NoScore <=> Fallback
    BY DEF DegradationIsVisible
  <2>1. PICK scores \in [DOMAIN fused -> Scores \cup {NoScore}] :
            /\ Numbered(fused) /\ Numbered(outcome.results)
            /\ ClausesOf(outcome.results) = ClausesOf(fused)
            /\ outcome.changes = Changes(fused, outcome.results, scores)
            /\ Fallback => /\ outcome.results = fused
                           /\ outcome.reason = Reason(models.scorer)
            /\ ~Fallback => models.scorer /\ outcome.reason = "none"
            /\ \A i \in DOMAIN fused : scores[i] = NoScore <=> Fallback
    BY FinishedSearch
  <2>2. outcome.reason = "cross_encoder_not_cached" <=> ~models.scorer
    BY <2>1 DEF Reason
  <2>3. "cross_encoder_not_cached" \in DegradedComponents <=> ~models.scorer
    BY DEF DegradedComponents
  <2>4. \A c \in outcome.changes :
            c.before \in DOMAIN fused /\ c.reranker_score = scores[c.before]
    BY <2>1, ChangesPairPlaces
  <2> QED BY <2>1, <2>2, <2>3, <2>4
<1> QED BY <1>1, StackInvariant, PTL

(***************************************************************************)
(* The fused order.                                                        *)
(***************************************************************************)

\* The places at which a list has a clause.
PlacesOf(list, c) == {i \in DOMAIN list : list[i].clause_id = c}

\* one / (60 + rank) is a whole number for every result of the list.
Divides(one, list) ==
    /\ one \in Nat \ {0}
    /\ \A i \in DOMAIN list : \E q \in Nat \ {0} :
        /\ one = (RankConstant + list[i].rank) * q
        /\ one \div (RankConstant + list[i].rank) = q

\* A list of results is finite and its ranks are within the bound.
LEMMA ListFacts ==
    ASSUME NEW s \in Seq(Results)
    PROVE  /\ Len(s) \in Nat /\ DOMAIN s = 1..Len(s) /\ IsFiniteSet(DOMAIN s)
           /\ \A i \in DOMAIN s : /\ s[i].rank \in Nat /\ s[i].rank >= 1
                                  /\ s[i].rank <= Limit
<1>1. Len(s) \in Nat /\ DOMAIN s = 1..Len(s) /\ s \in [1..Len(s) -> Results]
  BY LenProperties
<1>2. IsFiniteSet(1..Len(s))
  BY <1>1, FS_Interval
<1>3. Limit \in Nat
  BY StackAssumption
<1> QED BY <1>1, <1>2, <1>3 DEF Results

\* The common denominator is a multiple of 60 plus any rank that occurs.
LEMMA DenominatorDivides ==
    ASSUME NEW a \in Seq(Results), NEW b \in Seq(Results), NEW c \in Seq(Results)
    PROVE  LET one == Denominator(Placed(a), Placed(b), Placed(c))
           IN  Divides(one, a) /\ Divides(one, b) /\ Divides(one, c)
<1> DEFINE all == Placed(a) \cup Placed(b) \cup Placed(c)
           factors == {RankConstant + r.rank : r \in all}
           one == Denominator(Placed(a), Placed(b), Placed(c))
<1>1. Limit \in Nat
  BY StackAssumption
<1>2. \A r \in all : r.rank \in Nat /\ r.rank <= Limit
  BY ListFacts DEF Placed
<1>3. factors \in SUBSET (Nat \ {0}) /\ \A x \in factors : x <= RankConstant + Limit
  BY <1>1, <1>2 DEF RankConstant
<1>4. IsFiniteSet(factors)
  <2>1. RankConstant + Limit \in Nat /\ factors \in SUBSET Nat
    BY <1>1, <1>3 DEF RankConstant
  <2> HIDE DEF factors
  <2> QED BY <1>3, <2>1, FS_BoundedSetOfNaturals
<1>5. one = ProductSet(factors)
  BY DEF Denominator
<1>6. ASSUME NEW s, Placed(s) \subseteq all, NEW i \in DOMAIN s
      PROVE  RankConstant + s[i].rank \in factors
  <2> DEFINE r == [clause_id |-> s[i].clause_id, rank |-> s[i].rank, place |-> i]
  <2>1. r \in Placed(s) /\ r.rank = s[i].rank
    BY DEF Placed
  <2> QED BY <1>6, <2>1
<1> HIDE DEF factors, one
<1>7. /\ one \in Nat \ {0}
      /\ \A x \in factors : \E q \in Nat \ {0} : one = x * q /\ one \div x = q
  BY <1>3, <1>4, <1>5, ProductIsDivisible
<1>8. ASSUME NEW s, Placed(s) \subseteq all
      PROVE  Divides(one, s)
  BY <1>6, <1>7, <1>8 DEF Divides
<1> QED BY <1>8 DEF one

\* What a list adds to the score of a clause: nothing, if it does not have the
\* clause, at least the quotient of each of its ranks, and that of its only one.
LEMMA ShareFacts ==
    ASSUME NEW s \in Seq(Results), NEW one, Divides(one, s), NEW c
    PROVE  LET share == Share(one, 1, Placed(s), c)
               part(i) == one \div (RankConstant + s[i].rank)
           IN  /\ share \in Nat
               /\ PlacesOf(s, c) = {} => share = 0
               /\ \A i \in PlacesOf(s, c) : part(i) <= share
               /\ \A i \in PlacesOf(s, c) : PlacesOf(s, c) = {i} => share = part(i)
<1> DEFINE listed == {r \in Placed(s) : r.clause_id = c}
           fun == [r \in listed |-> 1 * (one \div (RankConstant + r.rank))]
           result(i) == [clause_id |-> s[i].clause_id, rank |-> s[i].rank, place |-> i]
           part(i) == one \div (RankConstant + s[i].rank)
           share == Share(one, 1, Placed(s), c)
<1>1. share = SumFunctionOnSet(fun, listed)
  BY DEF Share, SumFunction
<1>2. listed = {result(i) : i \in PlacesOf(s, c)}
  BY DEF Placed, PlacesOf
<1>3. \A i \in DOMAIN s : part(i) \in Nat
  BY DEF Divides
<1>4. ASSUME NEW i \in PlacesOf(s, c)
      PROVE  result(i) \in listed /\ fun[result(i)] = part(i)
  <2>1. result(i) \in listed
    BY <1>2
  <2>2. result(i).rank = s[i].rank
    OBVIOUS
  <2>3. part(i) \in Nat
    BY <1>3 DEF PlacesOf
  <2>4. fun[result(i)] = 1 * part(i)
    <3> HIDE DEF listed, result
    <3> QED BY <2>1, <2>2
  <2>5. \A n \in Nat : 1 * n = n
    OBVIOUS
  <2> HIDE DEF fun, part, listed, result
  <2> QED BY <2>1, <2>3, <2>4, <2>5
<1>5. IsFiniteSet(listed)
  <2> DEFINE f == [i \in PlacesOf(s, c) |-> result(i)]
  <2>1. PlacesOf(s, c) \in SUBSET (DOMAIN s) /\ IsFiniteSet(DOMAIN s)
    BY ListFacts DEF PlacesOf
  <2>2. IsFiniteSet(PlacesOf(s, c))
    BY <2>1, FS_Subset
  <2>3. f \in Surjection(PlacesOf(s, c), listed)
    BY <1>2 DEF Surjection
  <2> HIDE DEF f, listed
  <2> QED BY <2>2, <2>3, FS_Surjection
<1>6. IsTally(fun, listed)
  <2>1. \A r \in listed : fun[r] \in Nat
    <3> TAKE r \in listed
    <3>1. PICK i \in PlacesOf(s, c) : r = result(i)
      BY <1>2
    <3>2. fun[r] = part(i) /\ part(i) \in Nat
      BY <1>3, <1>4, <3>1 DEF PlacesOf
    <3> QED BY <3>2
  <2> HIDE DEF fun, listed
  <2> QED BY <1>5, <2>1 DEF IsTally
<1> HIDE DEF fun, listed, result, part
<1>7. share \in Nat
  <2>1. SumFunctionOnSet(fun, listed) \in Nat
    BY <1>6, SumFacts
  <2> QED BY <1>1, <2>1
<1>8. ASSUME PlacesOf(s, c) = {}
      PROVE  share = 0
  <2>1. listed = {}
    BY <1>2, <1>8
  <2>2. SumFunctionOnSet(fun, {}) = 0
    BY <1>6, SumFacts
  <2> QED BY <1>1, <2>1, <2>2
<1>9. ASSUME NEW i \in PlacesOf(s, c)
      PROVE  part(i) <= share
  <2>1. fun[result(i)] <= SumFunctionOnSet(fun, listed)
    BY <1>4, <1>6, SumIsAtLeast
  <2> QED BY <1>1, <1>4, <2>1
<1>10. ASSUME NEW i \in PlacesOf(s, c), PlacesOf(s, c) = {i}
       PROVE  share = part(i)
  <2>1. listed = {result(i)}
    BY <1>2, <1>10
  <2>2. fun[result(i)] \in Nat
    BY <1>4, <1>6 DEF IsTally
  <2>3. SumFunctionOnSet(fun, {result(i)}) = fun[result(i)]
    BY <2>2, SumOfOne
  <2> QED BY <1>1, <1>4, <2>1, <2>3
<1> QED BY <1>7, <1>8, <1>9, <1>10 DEF part

\* The best rank of a clause is that of one of its results, or none.
LEMMA RankInFacts ==
    ASSUME NEW s \in Seq(Results), NEW c
    PROVE  /\ RankIn(s, c) \in Nat /\ RankIn(s, c) <= Limit + 21
           /\ \A i \in PlacesOf(s, c) : RankIn(s, c) <= s[i].rank
           /\ RankIn(s, c) < Limit + 21 =>
                \E i \in PlacesOf(s, c) : s[i].rank = RankIn(s, c)
<1> DEFINE ranks == {s[i].rank : i \in PlacesOf(s, c)}
           S == ranks \cup {Limit + 21}
<1>1. RankIn(s, c) = Min(S)
  BY DEF RankIn, PlacesOf
<1>2. Limit \in Nat
  BY StackAssumption
<1>3. \A x \in S : x \in Nat /\ x <= Limit + 21
  BY <1>2, ListFacts DEF PlacesOf
<1>4. IsFiniteSet(S)
  <2>1. Limit + 21 \in Nat /\ S \in SUBSET Nat
    BY <1>2, <1>3
  <2> HIDE DEF S
  <2> QED BY <1>3, <2>1, FS_BoundedSetOfNaturals
<1>5. Min(S) \in S /\ \A x \in S : Min(S) <= x
  <2>1. S \in SUBSET Nat /\ S # {}
    BY <1>3
  <2> HIDE DEF S
  <2> QED BY <1>4, <2>1, ExtremesExist
<1>6. \A i \in PlacesOf(s, c) : s[i].rank \in S
  OBVIOUS
<1>7. Min(S) # Limit + 21 => \E i \in PlacesOf(s, c) : s[i].rank = Min(S)
  BY <1>5
<1> HIDE DEF S, ranks
<1> QED BY <1>1, <1>2, <1>3, <1>5, <1>6, <1>7

\* A smaller divisor has the greater quotient.
LEMMA QuotientsDescend ==
    ASSUME NEW m \in Nat, NEW n \in Nat, NEW p \in Nat \ {0}, NEW q \in Nat \ {0},
           (RankConstant + m) * p = (RankConstant + n) * q
    PROVE  /\ m <= n => q <= p
           /\ m < n => q < p
<1>1. (60 + m) * p = (60 + n) * q
  BY DEF RankConstant
<1>2. ASSUME m <= n, p < q
      PROVE  FALSE
  <2>1. PICK k \in Nat \ {0} : q = p + k
    <3>1. q - p \in Nat \ {0} /\ q = p + (q - p)
      BY <1>2
    <3> QED BY <3>1
  <2>2. PICK j \in Nat : n = m + j
    <3>1. n - m \in Nat /\ n = m + (n - m)
      BY <1>2
    <3> QED BY <3>1
  <2>3. (60 + n) * q = (60 + m) * p + (60 + m) * k + j * p + j * k
    BY <2>1, <2>2
  <2>4. (60 + m) * k > 0 /\ j * p >= 0 /\ j * k >= 0
    BY <2>1, <2>2
  <2>5. /\ (60 + m) * p \in Nat /\ (60 + m) * k \in Nat /\ j * p \in Nat /\ j * k \in Nat
    BY <2>1, <2>2
  <2>6. \A a, b, d, e, f \in Nat : a = f /\ f = a + b + d + e => b = 0
    OBVIOUS
  <2> QED BY <1>1, <2>3, <2>4, <2>5, <2>6
<1>3. ASSUME m < n, p = q
      PROVE  FALSE
  <2>1. PICK j \in Nat \ {0} : n = m + j
    <3>1. n - m \in Nat \ {0} /\ n = m + (n - m)
      BY <1>3
    <3> QED BY <3>1
  <2>2. (60 + n) * q = (60 + m) * p + j * p
    BY <1>3, <2>1
  <2>3. j * p \in Nat \ {0} /\ (60 + m) * p \in Nat
    BY <2>1
  <2>4. \A a, f \in Nat, b \in Nat \ {0} : a = f /\ f = a + b => FALSE
    OBVIOUS
  <2> QED BY <1>1, <2>2, <2>3, <2>4
<1> QED BY <1>2, <1>3

\* In one list: the better the best rank, the greater the share.
LEMMA BetterRankGreaterShare ==
    ASSUME NEW s \in Seq(Results), NEW one, Divides(one, s), NEW c, NEW d,
           RankIn(s, c) <= RankIn(s, d), Listings(s, d) <= 1
    PROVE  LET share(x) == Share(one, 1, Placed(s), x)
           IN  /\ share(c) \in Nat /\ share(d) \in Nat
               /\ share(d) <= share(c)
               /\ RankIn(s, c) < RankIn(s, d) => share(d) < share(c)
<1> DEFINE share(x) == Share(one, 1, Placed(s), x)
<1>1. share(c) \in Nat /\ share(d) \in Nat
  BY ShareFacts
<1>2. /\ RankIn(s, c) \in Nat /\ RankIn(s, d) \in Nat /\ Limit \in Nat
      /\ \A i \in DOMAIN s : s[i].rank \in Nat /\ s[i].rank <= Limit
  BY RankInFacts, ListFacts, StackAssumption
<1>3. CASE PlacesOf(s, d) = {}
  <2>1. share(d) = 0
    BY <1>3, ShareFacts
  <2>2. ASSUME RankIn(s, c) < RankIn(s, d)
        PROVE  share(c) > 0
    <3>1. RankIn(s, d) <= Limit + 21
      BY RankInFacts
    <3>2. PICK i \in PlacesOf(s, c) : s[i].rank = RankIn(s, c)
      BY <1>2, <2>2, <3>1, RankInFacts
    <3>3. PICK q \in Nat \ {0} : one \div (RankConstant + s[i].rank) = q
      BY DEF Divides, PlacesOf
    <3>4. one \div (RankConstant + s[i].rank) <= share(c)
      BY ShareFacts
    <3> HIDE DEF share
    <3> QED BY <1>1, <3>3, <3>4
  <2> HIDE DEF share
  <2>3. share(d) <= share(c) /\ (RankIn(s, c) < RankIn(s, d) => share(d) < share(c))
    BY <1>1, <2>1, <2>2
  <2> QED BY <1>1, <2>3 DEF share
<1>4. CASE PlacesOf(s, d) # {}
  <2>1. PICK i \in PlacesOf(s, d) : TRUE
    BY <1>4
  <2>2. PlacesOf(s, d) = {i}
    <3>1. PlacesOf(s, d) \in SUBSET (DOMAIN s) /\ IsFiniteSet(DOMAIN s)
      BY ListFacts DEF PlacesOf
    <3>2. IsFiniteSet(PlacesOf(s, d))
      BY <3>1, FS_Subset
    <3>3. {i} \in SUBSET PlacesOf(s, d) /\ Cardinality({i}) = 1
      BY FS_Singleton
    <3>4. Cardinality(PlacesOf(s, d)) <= 1 /\ Cardinality(PlacesOf(s, d)) \in Nat
      BY <3>2, FS_CardinalityType DEF Listings, PlacesOf
    <3>5. Cardinality({i}) <= Cardinality(PlacesOf(s, d))
      BY <3>2, <3>3, FS_Subset
    <3>6. Cardinality({i}) = Cardinality(PlacesOf(s, d))
      BY <3>3, <3>4, <3>5
    <3> QED BY <3>2, <3>3, <3>6, FS_Subset
  <2>3. share(d) = one \div (RankConstant + s[i].rank)
    BY <2>2, ShareFacts
  <2>4. RankIn(s, d) = s[i].rank
    <3>1. RankIn(s, d) <= s[i].rank /\ s[i].rank <= Limit /\ s[i].rank \in Nat
      BY <1>2, RankInFacts DEF PlacesOf
    <3>2. RankIn(s, d) < Limit + 21
      BY <1>2, <3>1
    <3> QED BY <2>2, <3>2, RankInFacts
  <2>5. PICK j \in PlacesOf(s, c) : s[j].rank = RankIn(s, c)
    <3>1. RankIn(s, c) <= s[i].rank /\ s[i].rank <= Limit /\ s[i].rank \in Nat
      BY <1>2, <2>4 DEF PlacesOf
    <3>2. RankIn(s, c) < Limit + 21
      BY <1>2, <3>1
    <3> QED BY <3>2, RankInFacts
  <2>6. one \div (RankConstant + s[j].rank) <= share(c)
    BY ShareFacts
  <2>7. PICK p \in Nat \ {0} : /\ one = (RankConstant + s[j].rank) * p
                               /\ one \div (RankConstant + s[j].rank) = p
    BY DEF Divides, PlacesOf
  <2>8. PICK q \in Nat \ {0} : /\ one = (RankConstant + s[i].rank) * q
                               /\ one \div (RankConstant + s[i].rank) = q
    BY DEF Divides, PlacesOf
  <2>9. /\ RankIn(s, c) <= RankIn(s, d) => q <= p
        /\ RankIn(s, c) < RankIn(s, d) => q < p
    <3>1. (RankConstant + s[j].rank) * p = (RankConstant + s[i].rank) * q
      BY <2>7, <2>8
    <3>2. s[j].rank \in Nat /\ s[i].rank \in Nat
      BY <1>2 DEF PlacesOf
    <3> QED BY <2>4, <2>5, <3>1, <3>2, QuotientsDescend
  <2>10. p <= share(c) /\ share(d) = q
    BY <2>3, <2>6, <2>7, <2>8
  <2> HIDE DEF share
  <2>11. share(d) <= share(c) /\ (RankIn(s, c) < RankIn(s, d) => share(d) < share(c))
    BY <1>1, <2>9, <2>10
  <2> QED BY <1>1, <2>11 DEF share
<1> QED BY <1>3, <1>4

\* An order of a set has every element of it.
LEMMA OrdersEnumerate ==
    ASSUME NEW S, IsFiniteSet(S), NEW order \in SetToSeqs(S)
    PROVE  /\ Cardinality(S) \in Nat /\ order \in [1..Cardinality(S) -> S]
           /\ \A x \in S : \E j \in 1..Cardinality(S) : order[j] = x
<1> DEFINE n == Cardinality(S)
<1>1. /\ n \in Nat /\ order \in [1..n -> S]
      /\ \A i, j \in 1..n : order[i] = order[j] => i = j
  BY FS_CardinalityType DEF SetToSeqs
<1>2. IsFiniteSet(1..n) /\ Cardinality(1..n) = n
  BY <1>1, FS_Interval
<1> DEFINE D == 1..n
<1>3. order \in Injection(D, S)
  BY <1>1 DEF Injection, IsInjective
<1>4. IsFiniteSet(D) /\ Cardinality(D) = Cardinality(S)
  BY <1>2
<1> HIDE DEF D, n
<1>5. order \in Surjection(D, S)
  BY <1>3, <1>4, FS_Injection
<1> QED BY <1>1, <1>5 DEF Surjection, D, n

\* The candidates that are kept are the first of the order.
LEMMA RankedIsPrefix ==
    ASSUME NEW S, S \subseteq Clauses \cup Unknown, IsFiniteSet(S),
           NEW order \in SetToSeqs(S)
    PROVE  LET cut == FirstOf(Ranked(order), Limit)
           IN  /\ DOMAIN cut \in SUBSET (1..Cardinality(S))
               /\ \A i \in DOMAIN cut : /\ cut[i].clause_id = order[i]
                                        /\ \A j \in 1..i : j \in DOMAIN cut
<1> DEFINE n == Cardinality(S)
           all == [clause_id: Clauses \cup Unknown, rank: Nat]
           cut == FirstOf(Ranked(order), Limit)
<1>1. n \in Nat /\ order \in [1..n -> S]
  BY OrdersEnumerate
<1>2. Ranked(order) = [i \in 1..n |-> [clause_id |-> order[i], rank |-> i]]
  BY <1>1 DEF Ranked
<1>3. Ranked(order) \in [1..n -> all]
  BY <1>1, <1>2
<1>4. Ranked(order) \in Seq(all) /\ Len(Ranked(order)) = n
  <2> HIDE DEF n, all
  <2> QED BY <1>1, <1>3, FunctionIsSeq
<1>5. Limit \in Nat
  BY StackAssumption
<1>6. /\ cut \in Seq(all) /\ Len(cut) <= n
      /\ \A i \in 1..Len(cut) : cut[i] = Ranked(order)[i]
  BY <1>4, <1>5, FirstOfFacts
<1> HIDE DEF cut
<1>7. Len(cut) \in Nat /\ DOMAIN cut = 1..Len(cut)
  BY <1>6, LenProperties
<1>8. \A i \in 1..Len(cut) : i \in 1..n /\ cut[i].clause_id = order[i]
  <2> TAKE i \in 1..Len(cut)
  <2>1. i \in 1..n
    BY <1>1, <1>6, <1>7
  <2>2. cut[i] = [clause_id |-> order[i], rank |-> i]
    BY <1>2, <1>6, <2>1
  <2> QED BY <2>1, <2>2
<1>9. \A i \in 1..Len(cut) : \A j \in 1..i : j \in 1..Len(cut)
  BY <1>7
<1> QED BY <1>7, <1>8, <1>9 DEF cut

\* Whatever its lists, a search gives a dominating clause the greater score.
LEMMA DominatingScoresHigher ==
    ASSUME lists.lexical \in Seq(Results), lists.vector \in Seq(Results),
           lists.graph \in Seq(Results), DOMAIN lists = {"lexical", "vector", "graph"},
           NEW c, NEW d, Dominates(c, d)
    PROVE  LET score(x) == Score(Placed(lists.lexical), Placed(lists.vector),
                                 Placed(lists.graph), x)
           IN  score(c) \in Nat /\ score(d) \in Nat /\ score(d) < score(c)
<1> DEFINE one == Denominator(Placed(lists.lexical), Placed(lists.vector),
                              Placed(lists.graph))
           share(list, x) == Share(one, 1, Placed(list), x)
<1>1. /\ Divides(one, lists.lexical) /\ Divides(one, lists.vector)
      /\ Divides(one, lists.graph)
  BY DenominatorDivides
<1>2. \A x : Score(Placed(lists.lexical), Placed(lists.vector), Placed(lists.graph), x)
                = share(lists.lexical, x) + share(lists.vector, x) + share(lists.graph, x)
  BY DEF Score
<1>3. \A part \in {"lexical", "vector", "graph"} :
        /\ RankIn(lists[part], c) <= RankIn(lists[part], d)
        /\ Listings(lists[part], d) <= 1
  BY DEF Dominates
<1> HIDE DEF one
<1>4. ASSUME NEW part \in {"lexical", "vector", "graph"}
      PROVE  /\ share(lists[part], c) \in Nat /\ share(lists[part], d) \in Nat
             /\ share(lists[part], d) <= share(lists[part], c)
             /\ RankIn(lists[part], c) < RankIn(lists[part], d)
                    => share(lists[part], d) < share(lists[part], c)
  <2>1. lists[part] \in Seq(Results) /\ Divides(one, lists[part])
    BY <1>1
  <2>2. RankIn(lists[part], c) <= RankIn(lists[part], d) /\ Listings(lists[part], d) <= 1
    BY <1>3
  <2> QED BY <2>1, <2>2, BetterRankGreaterShare
<1> HIDE DEF share
<1>5. \E part \in {"lexical", "vector", "graph"} :
            share(lists[part], d) < share(lists[part], c)
  BY <1>4 DEF Dominates
<1>6. /\ share(lists.lexical, c) \in Nat /\ share(lists.lexical, d) \in Nat
      /\ share(lists.vector, c) \in Nat /\ share(lists.vector, d) \in Nat
      /\ share(lists.graph, c) \in Nat /\ share(lists.graph, d) \in Nat
      /\ share(lists.lexical, d) <= share(lists.lexical, c)
      /\ share(lists.vector, d) <= share(lists.vector, c)
      /\ share(lists.graph, d) <= share(lists.graph, c)
  BY <1>4
<1>7. \/ share(lists.lexical, d) < share(lists.lexical, c)
      \/ share(lists.vector, d) < share(lists.vector, c)
      \/ share(lists.graph, d) < share(lists.graph, c)
  BY <1>5
<1>8. share(lists.lexical, d) + share(lists.vector, d) + share(lists.graph, d)
        < share(lists.lexical, c) + share(lists.vector, c) + share(lists.graph, c)
  BY <1>6, <1>7
<1>9. \A a, b, n \in Nat : a + b + n \in Nat
  OBVIOUS
<1> QED BY <1>2, <1>6, <1>8, <1>9

\* A clause that is better placed in some list is in that list.
LEMMA DominatingIsListed ==
    ASSUME lists.lexical \in Seq(Results), lists.vector \in Seq(Results),
           lists.graph \in Seq(Results), DOMAIN lists = {"lexical", "vector", "graph"},
           NEW c, NEW d, Dominates(c, d)
    PROVE  c \in Fused(Placed(lists.lexical), Placed(lists.vector), Placed(lists.graph))
<1>1. PICK part \in {"lexical", "vector", "graph"} :
            RankIn(lists[part], c) < RankIn(lists[part], d)
  BY DEF Dominates
<1>2. lists[part] \in Seq(Results)
  OBVIOUS
<1>3. PICK i \in PlacesOf(lists[part], c) : TRUE
  <2>1. /\ RankIn(lists[part], c) \in Nat /\ RankIn(lists[part], d) \in Nat
        /\ RankIn(lists[part], d) <= Limit + 21 /\ Limit \in Nat
    BY <1>2, RankInFacts, StackAssumption
  <2>2. RankIn(lists[part], c) < Limit + 21
    BY <1>1, <2>1
  <2> QED BY <1>2, <2>2, RankInFacts
<1> DEFINE r == [clause_id |-> lists[part][i].clause_id,
                 rank |-> lists[part][i].rank, place |-> i]
<1>4. r \in Placed(lists[part]) /\ r.clause_id = c
  BY <1>3 DEF Placed, PlacesOf
<1>5. r \in Placed(lists.lexical) \cup Placed(lists.vector) \cup Placed(lists.graph)
  BY <1>4
<1> QED BY <1>4, <1>5 DEF Fused

\* As long as there are fused candidates, they are the first of an order that
\* the sums of the search's own lists allow.
FusedStands ==
    /\ outcome.at \in {"ready", "retrieved", "embedding_error"} => fused = <<>>
    /\ outcome.at \notin {"ready", "embedding_error"} =>
        /\ DOMAIN lists = {"lexical", "vector", "graph"}
        /\ lists.lexical \in Seq(Results)
        /\ lists.vector \in Seq(Results)
        /\ lists.graph \in Seq(Results)
    /\ outcome.at \in {"fused", "key_error", "done"} =>
        \E order \in FusedOrders(lists) : fused = FirstOf(Ranked(order), Limit)

\* The fused order stays one that the lists allow.
LEMMA FusedStandsKept == StackInv /\ StackInv' /\ FusedStands /\ [Next]_vars => FusedStands'
<1> SUFFICES ASSUME StackInv, StackInv', FusedStands, [Next]_vars
             PROVE  FusedStands'
  OBVIOUS
<1>1. ASSUME NEW l \in SetToSeqs(Clauses), NEW v \in SetToSeqs(Clauses),
             NEW g \in BoundedSeq(Results, Limit), Retrieve(l, v, g)
      PROVE  FusedStands'
  <2>1. /\ outcome.at = "ready" /\ outcome'.at = "retrieved" /\ fused' = fused
        /\ DOMAIN lists' = {"lexical", "vector", "graph"}
    BY <1>1 DEF Retrieve, At
  <2> QED BY <2>1 DEF FusedStands, StackInv
<1>2. ASSUME NEW order \in FusedOrders(lists), Fuse(order)
      PROVE  FusedStands'
  <2>1. /\ outcome.at = "retrieved" /\ outcome'.at \in {"fused", "key_error"}
        /\ lists' = lists /\ fused' = FirstOf(Ranked(order), Limit)
    BY <1>2 DEF Fuse, At
  <2>2. \E o \in FusedOrders(lists') : fused' = FirstOf(Ranked(o), Limit)
    BY <2>1
  <2> QED BY <2>1, <2>2 DEF FusedStands
<1>3. ASSUME NEW scores \in [DOMAIN fused -> Scores], Rerank(scores)
      PROVE  FusedStands'
  <2>1. /\ outcome.at = "fused" /\ outcome'.at = "done"
        /\ lists' = lists /\ fused' = fused
    BY <1>3 DEF Rerank
  <2> QED BY <2>1 DEF FusedStands
<1>4. ASSUME Degrade
      PROVE  FusedStands'
  <2>1. /\ outcome.at = "fused" /\ outcome'.at = "done"
        /\ lists' = lists /\ fused' = fused
    BY <1>4 DEF Degrade
  <2> QED BY <2>1 DEF FusedStands
<1>5. ASSUME Return
      PROVE  FusedStands'
  <2>1. outcome'.at = "ready" /\ fused' = <<>>
    BY <1>5 DEF Return, At
  <2> QED BY <2>1 DEF FusedStands
<1>6. ASSUME EmbeddingFails
      PROVE  FusedStands'
  <2>1. outcome.at = "ready" /\ outcome'.at = "embedding_error" /\ fused' = fused
    BY <1>6 DEF EmbeddingFails, At
  <2> QED BY <2>1 DEF FusedStands
<1>7. CASE UNCHANGED vars
  BY <1>7 DEF vars, FusedStands
<1> QED BY <1>1, <1>2, <1>3, <1>4, <1>5, <1>6, <1>7 DEF Next

\* An order that the lists allow puts no clause above one that dominates it.
LEMMA FusedPrecedes ==
    ASSUME StackInv, FusedStands
    PROVE  DominatedNeverAbove
<1>1. CASE outcome.at \in {"ready", "retrieved", "embedding_error"}
  BY <1>1 DEF FusedStands, DominatedNeverAbove
<1>2. CASE outcome.at \in {"fused", "key_error", "done"}
  <2> DEFINE all == Fused(Placed(lists.lexical), Placed(lists.vector), Placed(lists.graph))
             n == Cardinality(all)
             score(x) == Score(Placed(lists.lexical), Placed(lists.vector),
                               Placed(lists.graph), x)
  <2>1. /\ DOMAIN lists = {"lexical", "vector", "graph"}
        /\ lists.lexical \in Seq(Results) /\ lists.vector \in Seq(Results)
        /\ lists.graph \in Seq(Results)
    BY <1>2 DEF FusedStands
  <2>2. PICK order \in FusedOrders(lists) : fused = FirstOf(Ranked(order), Limit)
    BY <1>2 DEF FusedStands
  <2>3. /\ order \in SetToSeqs(all)
        /\ \A i, j \in DOMAIN order : i < j => MayPrecede(lists, order[i], order[j])
    BY DEF FusedOrders
  <2>4. IsFiniteSet(all) /\ all \subseteq Clauses \cup Unknown
    BY <2>1, FusedIsFinite
  <2>5. \A i, j \in DOMAIN order : i < j =>
            score(order[i]) > score(order[j]) \/ score(order[i]) = score(order[j])
    BY <2>3 DEF MayPrecede
  <2> HIDE DEF all, score
  <2>6. n \in Nat /\ order \in [1..n -> all] /\ \A x \in all : \E j \in 1..n : order[j] = x
    BY <2>3, <2>4, OrdersEnumerate
  <2>7. /\ DOMAIN fused \in SUBSET (1..n)
        /\ \A i \in DOMAIN fused : /\ fused[i].clause_id = order[i]
                                   /\ \A j \in 1..i : j \in DOMAIN fused
    BY <2>2, <2>3, <2>4, RankedIsPrefix
  <2>8. ASSUME NEW i \in DOMAIN fused, NEW c \in Clauses, Dominates(c, fused[i].clause_id)
        PROVE  \E j \in 1..(i - 1) : fused[j].clause_id = c
    <3> DEFINE d == fused[i].clause_id
    <3>1. i \in 1..n /\ order[i] = d
      BY <2>7
    <3>2. score(c) \in Nat /\ score(d) \in Nat /\ score(d) < score(c)
      BY <2>1, <2>8, DominatingScoresHigher DEF score
    <3>3. PICK j \in 1..n : order[j] = c
      BY <2>1, <2>6, <2>8, DominatingIsListed DEF all
    <3>4. ~(i < j) /\ i # j
      <4>1. i < j => score(d) > score(c) \/ score(d) = score(c)
        BY <2>5, <2>6, <3>1, <3>3
      <4> HIDE DEF d
      <4> QED BY <3>1, <3>2, <3>3, <4>1
    <3>5. j \in 1..(i - 1) /\ j \in 1..i
      BY <2>6, <3>1, <3>3, <3>4
    <3> QED BY <2>7, <3>3, <3>5
  <2> QED BY <2>8 DEF DominatedNeverAbove
<1> QED BY <1>1, <1>2 DEF StackInv, Places

\* No clause of the fused order comes before one that dominates it, for any
\* corpus, rankings, bound, and graph results of ranks up to the bound.
THEOREM DominatedIsNeverAbove == Spec => []DominatedNeverAbove
<1>1. Init => FusedStands
  BY DEF Init, FusedStands, At
<1>2. StackInv /\ FusedStands => DominatedNeverAbove
  BY FusedPrecedes
<1> QED BY <1>1, <1>2, FusedStandsKept, StackInvariant, PTL DEF Spec
==============================================================================
