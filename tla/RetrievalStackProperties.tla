------------------------ MODULE RetrievalStackProperties ------------------------
(***************************************************************************)
(* What fusion and reranking may and may not do to the candidates.         *)
(***************************************************************************)
EXTENDS RetrievalStack

Done == outcome.at = "done"

Fallback == outcome.reason # "none"

\* Reranking loses, adds and repeats nothing: the results are the fused
\* candidates, numbered by their place, and every recorded change of position
\* leads from the fused rank to the final one (rerank).
RerankingIsInspectable ==
    Done =>
        /\ \A i, j \in DOMAIN outcome.results :
            outcome.results[i].clause_id = outcome.results[j].clause_id => i = j
        /\ {r.clause_id : r \in Range(outcome.results)}
                = {r.clause_id : r \in Range(fused)}
        /\ \A i \in DOMAIN outcome.results : outcome.results[i].rank = i
        /\ Cardinality(outcome.changes) = Len(fused)
        /\ \A c \in outcome.changes :
            /\ fused[c.before].clause_id = c.clause_id
            /\ outcome.results[c.after].clause_id = c.clause_id

\* "When model weights are unavailable, structured degradation reasons show
\* the deterministic semantic fallback and unchanged RRF order" (README.md:29):
\* an order the cross-encoder did not decide is the fused order and says so,
\* at run time as well as at load time.
DegradationIsVisible ==
    Done =>
        /\ ~models.scorer => Fallback
        /\ Fallback => outcome.results = fused
        /\ outcome.reason = "cross_encoder_not_cached" <=>
            "cross_encoder_not_cached" \in DegradedComponents
        /\ \A c \in outcome.changes : c.reranker_score = NoScore <=> Fallback

\* The best rank of a clause in a list; Limit + 21 stands for its absence.
RankIn(list, c) ==
    Min({list[i].rank : i \in {j \in DOMAIN list : list[j].clause_id = c}}
        \cup {Limit + 21})

Listings(list, c) == Cardinality({i \in DOMAIN list : list[i].clause_id = c})

\* c is at least as good as d in every list, better in one, and d is listed at
\* most once where both are.
Dominates(c, d) ==
    /\ \A part \in DOMAIN lists :
        /\ RankIn(lists[part], c) <= RankIn(lists[part], d)
        /\ Listings(lists[part], d) <= 1
    /\ \E part \in DOMAIN lists : RankIn(lists[part], c) < RankIn(lists[part], d)

\* Whatever rounding does to equal sums, and for a caller's ranks up to the
\* limit, a clause that is better in one list and as good in the others never
\* comes after the other clause, nor is it left out for it
\* (reciprocal_rank_fusion, and the same sums at workflow.py:684).
DominatedNeverAbove ==
    \A i \in DOMAIN fused :
        \A c \in Clauses :
            Dominates(c, fused[i].clause_id) =>
                \E j \in 1..(i - 1) : fused[j].clause_id = c
==============================================================================
