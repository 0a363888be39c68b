----------------------------- MODULE RetrievalStack -----------------------------
(***************************************************************************)
(* The local retrieval stack (retrieval_stack.py, reranking.py,            *)
(* local_models.py): two retrievers and the caller's graph results are     *)
(* fused by rank, and the fused candidates are reranked by a cross-encoder *)
(* that may not be cached and may fail.                                    *)
(*                                                                         *)
(* What a retriever or the cross-encoder computes is arbitrary: any order  *)
(* of the clauses, any scores.  Fused scores are compared exactly, as in   *)
(* Fusion; where floating-point rounding can separate equal sums, either   *)
(* order is possible.  That rounding reverses no difference is taken to    *)
(* be so: it is for a clause that another dominates, since rounded sums    *)
(* are monotone and 1 / (60 + rank) falls by more than 1 / 6400 between    *)
(* any two ranks up to 20.                                                 *)
(***************************************************************************)
EXTENDS Fusion, Sequences, SequencesExt

CONSTANTS
    Clauses,        \* the clauses of the corpus
    Unknown,        \* ids a caller may pass that are no clauses
    Limit,          \* candidate_limit, which is also the reranker's top_n
    Scores,         \* what the cross-encoder may answer for a passage
    NoScore         \* None

ASSUME StackAssumption ==
    /\ Scores \subseteq Nat /\ NoScore \notin Scores
    /\ Clauses \cup Unknown \subseteq Nat /\ Clauses \cap Unknown = {}
    /\ IsFiniteSet(Clauses)
    /\ Limit \in 1..20

VARIABLES
    models,         \* which models could be loaded
    lists,          \* the three result lists of the search
    fused,          \* the fused candidates
    outcome         \* where the search has got to, and its reranked results

vars == <<models, lists, fused, outcome>>

NoLists == [lexical |-> <<>>, vector |-> <<>>, graph |-> <<>>]

At(place) ==
    [at |-> place, results |-> <<>>, changes |-> {}, reason |-> "none"]

\* __init__: load_embedder and load_cross_encoder find their weights or not.
Init ==
    /\ models \in [embedder: BOOLEAN, scorer: BOOLEAN]
    /\ lists = NoLists
    /\ fused = <<>>
    /\ outcome = At("ready")

DegradedComponents ==
    {r \in {"embedding_model_not_cached", "cross_encoder_not_cached"} :
        \/ r = "embedding_model_not_cached" /\ ~models.embedder
        \/ r = "cross_encoder_not_cached" /\ ~models.scorer}

------------------------------------------------------------------------------

FirstOf(s, n) == SubSeq(s, 1, Min({n, Len(s)}))

\* Results are numbered in their order.
Ranked(order) == [i \in DOMAIN order |-> [clause_id |-> order[i], rank |-> i]]

\* Both retrievers score every clause; the caller's results keep their ranks.
Retrieve(lexical, vector, graph) ==
    /\ outcome.at = "ready"
    /\ lists' = [lexical |-> FirstOf(Ranked(lexical), Limit),
                 vector |-> FirstOf(Ranked(vector), Limit),
                 graph |-> FirstOf(graph, Limit)]
    /\ outcome' = At("retrieved")
    /\ UNCHANGED <<models, fused>>

\* The cached embedding model raises while it encodes the query and the
\* clauses; nothing in search catches it.
EmbeddingFails ==
    /\ outcome.at = "ready"
    /\ models.embedder
    /\ outcome' = At("embedding_error")
    /\ UNCHANGED <<models, lists, fused>>

\* The places of a list, so that a clause may be listed twice.
Placed(list) ==
    {[clause_id |-> list[i].clause_id, rank |-> list[i].rank, place |-> i] :
        i \in DOMAIN list}

Contributions(l, c) ==
    {q \in (DOMAIN l) \X (1..Limit) :
        q[2] \in DOMAIN l[q[1]] /\ l[q[1]][q[2]].clause_id = c}

\* Fault: ranks are added up, and the least sum comes first.
MayPrecedeByRankSum(l, c, d) ==
    LET sum(x) == MapThenSumSet(LAMBDA q : l[q[1]][q[2]].rank, Contributions(l, x))
    IN  sum(c) <= sum(d)

\* c may come before d: by a greater score, by the lesser id, or by rounding
\* when one of the two equal sums has three terms or more.
MayPrecede(l, c, d) ==
    LET score(x) == Score(Placed(l.lexical), Placed(l.vector), Placed(l.graph), x)
        terms(x) == Cardinality(Contributions(l, x))
    IN  \/ score(c) > score(d)
        \/ score(c) = score(d) /\ (c < d \/ terms(c) > 2 \/ terms(d) > 2)

\* Every order reciprocal_rank_fusion can put the clauses of the lists in.
FusedOrders(l) ==
    LET clauses == Fused(Placed(l.lexical), Placed(l.vector), Placed(l.graph))
    IN  {o \in SetToSeqs(clauses) :
            \A i, j \in DOMAIN o : i < j => MayPrecede(l, o[i], o[j])}

\* An unknown clause among the candidates is a KeyError for the caller.
Fuse(order) ==
    /\ outcome.at = "retrieved"
    /\ order \in FusedOrders(lists)
    /\ fused' = FirstOf(Ranked(order), Limit)
    /\ outcome' = At(IF \E i \in DOMAIN fused' : fused'[i].clause_id \in Unknown
                     THEN "key_error" ELSE "fused")
    /\ UNCHANGED <<models, lists>>

------------------------------------------------------------------------------

\* Fault: a reranked result keeps the rank it came with.
RerankedWithOldRank(candidates, scores) ==
    LET above(i) == {j \in DOMAIN candidates :
                        \/ scores[j] > scores[i]
                        \/ /\ scores[j] = scores[i]
                           /\ candidates[j].clause_id <= candidates[i].clause_id}
    IN  [n \in DOMAIN candidates |->
            candidates[CHOOSE i \in DOMAIN candidates : Cardinality(above(i)) = n]]

\* The candidates by score, the lesser clause id first among equals.
Reranked(candidates, scores) ==
    LET above(i) == {j \in DOMAIN candidates :
                        \/ scores[j] > scores[i]
                        \/ /\ scores[j] = scores[i]
                           /\ candidates[j].clause_id <= candidates[i].clause_id}
    IN  [n \in DOMAIN candidates |->
            [clause_id |->
                candidates[CHOOSE i \in DOMAIN candidates :
                            Cardinality(above(i)) = n].clause_id,
             rank |-> n]]

\* NoScore where the cross-encoder gave none.
Changes(before, after, scores) ==
    {[clause_id |-> before[q[1]].clause_id, before |-> before[q[1]].rank,
      after |-> after[q[2]].rank, reranker_score |-> scores[q[1]]] :
        q \in {r \in (DOMAIN before) \X (DOMAIN after) :
                    before[r[1]].clause_id = after[r[2]].clause_id}}

Rerank(scores) ==
    /\ outcome.at = "fused"
    /\ models.scorer
    /\ scores \in [DOMAIN fused -> Scores]
    /\ outcome' = [at |-> "done", results |-> Reranked(fused, scores),
                   changes |-> Changes(fused, Reranked(fused, scores), scores),
                   reason |-> "none"]
    /\ UNCHANGED <<models, lists, fused>>

\* Fault: the failure of the scorer is swallowed.
SilentReason(scorer) == IF scorer THEN "none" ELSE "cross_encoder_not_cached"

Reason(scorer) ==
    IF scorer THEN "cross_encoder_error" ELSE "cross_encoder_not_cached"

\* Without a scorer, or when it raises, the fused order stands.
Degrade ==
    /\ outcome.at = "fused"
    /\ outcome' = [at |-> "done", results |-> fused,
                   changes |-> Changes(fused, fused, [i \in DOMAIN fused |-> NoScore]),
                   reason |-> Reason(models.scorer)]
    /\ UNCHANGED <<models, lists, fused>>

\* The caller has the outcome or the exception; the stack keeps nothing.
Return ==
    /\ outcome.at \in {"done", "key_error", "embedding_error"}
    /\ lists' = NoLists
    /\ fused' = <<>>
    /\ outcome' = At("ready")
    /\ UNCHANGED models

\* What a caller may pass; its ranks are those of a list of the retrievers.
Results == [clause_id: Clauses \cup Unknown, rank: 1..Limit]

Next ==
    \/ \E l, v \in SetToSeqs(Clauses), g \in BoundedSeq(Results, Limit) :
        Retrieve(l, v, g)
    \/ EmbeddingFails
    \/ \E order \in FusedOrders(lists) : Fuse(order)
    \/ \E scores \in [DOMAIN fused -> Scores] : Rerank(scores)
    \/ Degrade
    \/ Return

Spec == Init /\ [][Next]_vars
==============================================================================
