-------------------------------- MODULE Fusion --------------------------------
(***************************************************************************)
(* Reciprocal rank fusion of the workflow's three result lists.            *)
(*                                                                         *)
(* A result list is a set of records [clause_id, rank].  The code adds     *)
(* 1 / (60 + rank) as floating-point numbers; here the sums are exact,     *)
(* scaled by a common denominator of the ranks that occur.                 *)
(***************************************************************************)
EXTENDS Naturals, FiniteSets, FiniteSetsExt, Functions

RankConstant == 60

Fused(lexical, vector, graph) == {r.clause_id : r \in lexical \cup vector \cup graph}

Denominator(lexical, vector, graph) ==
    ProductSet({RankConstant + r.rank : r \in lexical \cup vector \cup graph})

\* What one list adds to the score of a clause, one being the denominator.
Share(one, weight, results, c) ==
    SumFunction([r \in {s \in results : s.clause_id = c} |->
                    weight * (one \div (RankConstant + r.rank))])

Score(lexical, vector, graph, c) ==
    LET one == Denominator(lexical, vector, graph)
    IN  Share(one, 1, lexical, c) + Share(one, 1, vector, c) + Share(one, 1, graph, c)

\* Higher score first, then the smaller clause id.
RankedAbove(lexical, vector, graph, c, d) ==
    LET score(x) == Score(lexical, vector, graph, x)
    IN  score(c) > score(d) \/ (score(c) = score(d) /\ c < d)

\* The first limit candidates of the fused order.
ReciprocalRankFusion(lexical, vector, graph, limit) ==
    {c \in Fused(lexical, vector, graph) :
        Cardinality({d \in Fused(lexical, vector, graph) :
                        RankedAbove(lexical, vector, graph, d, c)}) < limit}
==============================================================================
