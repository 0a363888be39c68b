------------------------------ MODULE MCEvaluation ------------------------------
(***************************************************************************)
(* Five questions, one of each of five categories, over four clauses of    *)
(* two contracts, two results each.  Clause 1 is superseded by clause 3,   *)
(* clause 4 is of another contract; clause 1 leads both retrievers, or the *)
(* vector search finds the operative clause by itself.                     *)
(***************************************************************************)
EXTENDS EvaluationProperties

MCContractOf(clause) == IF clause = 4 THEN 2 ELSE 1

MCDistribution ==
    [amendment |-> 1, multi_hop |-> 1, direct |-> 1, conflict |-> 1, negative |-> 1]

MCLexicalRankings == {<<1, 2, 4, 3>>}

MCVectorRankings == {<<1, 2, 4, 3>>, <<3, 1>>}

\* The last row names a clause that is not in the corpus.
MCGraphAnswers ==
    {[ids |-> <<>>, path |-> {}],
     [ids |-> <<3>>, path |-> {"AMENDS"}],
     [ids |-> <<4, 3>>, path |-> {"AMENDS", "SUPERSEDES"}],
     [ids |-> <<3, 6>>, path |-> {"CONFLICTS_WITH"}]}

Item(id, category, relevant, path, answerable) ==
    [id |-> id, category |-> category, answerable |-> answerable,
     relevant |-> relevant, contracts |-> {MCContractOf(c) : c \in relevant},
     path |-> path]

Amendment == Item(10, "amendment", {3}, {"AMENDS"}, TRUE)
MultiHop == Item(14, "multi_hop", {3, 4}, {"AMENDS", "SUPERSEDES"}, TRUE)
Conflict == Item(19, "conflict", {1, 3}, {"SUPERSEDES"}, TRUE)
Direct(relevant) == Item(2, "direct", relevant, {}, TRUE)
NegativeItem(id, answerable) == Item(id, "negative", {}, {}, answerable)

\* Questions that pass the criteria; that cannot, and are not all labelled; that
\* lack the negative question's id; and four files the loader rejects.
MCGoldenSets ==
    {<<Amendment, MultiHop, Conflict, Direct({2}), NegativeItem(23, FALSE)>>,
     <<Amendment, MultiHop, Conflict, Direct({}), NegativeItem(23, TRUE)>>,
     <<Amendment, MultiHop, Conflict, Direct({2}), NegativeItem(24, FALSE)>>,
     <<Amendment, MultiHop, Conflict, Direct({2}), NegativeItem(14, FALSE)>>,
     <<Amendment, MultiHop, Conflict, Direct({2}), Conflict>>,
     <<Amendment, MultiHop, Conflict, Direct({5}), NegativeItem(23, FALSE)>>,
     <<Amendment, MultiHop, Conflict, Direct({2})>>}
==============================================================================
