------------------------------ MODULE MCWorkflow ------------------------------
(***************************************************************************)
(* A small corpus for model checking the workflow.                         *)
(*                                                                         *)
(* Clauses 1 and 2 belong to the agreement and its exhibit, 3 and 4 to two *)
(* amendments.                                                             *)
(***************************************************************************)
EXTENDS WorkflowProperties

CONSTANTS Agreement, Ghost, FirstAmendment, SecondAmendment

T(s, p, o, source) ==
    [subject |-> s, predicate |-> p, object |-> o, source_clause_id |-> source]

Amends(amendment, clause) ==
    <<T(amendment, "AMENDS", Agreement, clause),
      T(amendment, "CONTAINS", clause, clause)>>
Supersedes(clause) == <<T(clause, "SUPERSEDES", 1, clause)>>

\* Triples as build_corpus sorts them.  The amendment that is met first holds
\* the clause with the greater id.
OneAmendment == Amends(FirstAmendment, 3) \o Supersedes(3)
TwoAmendments == Amends(FirstAmendment, 4) \o Amends(SecondAmendment, 3) \o
                    Supersedes(3) \o Supersedes(4)
SingleConflict == <<T(1, "CONFLICTS_WITH", 2, 2)>>
WideConflict == SingleConflict \o <<T(1, "CONFLICTS_WITH", 3, 3)>>
SupersededConflict ==
    Amends(FirstAmendment, 3) \o <<T(3, "CONFLICTS_WITH", 1, 3)>> \o Supersedes(3)

AllArtifacts == {OneAmendment, TwoAmendments, SingleConflict, WideConflict,
                 SupersededConflict}

\* Within two candidates the vague query misses clause 1 and the exact one
\* finds it, second with BM25 and first with the vector retriever.
MCQueries == {"vague", "exact"}
MCLexicalRanking ==
    [q \in MCQueries |-> IF q = "exact" THEN <<3, 1, 2, 4>> ELSE <<2, 4, 1, 3>>]
MCVectorRanking ==
    [q \in MCQueries |-> IF q = "exact" THEN <<1, 4, 2, 3>> ELSE <<2, 3, 4, 1>>]

Plan(intent, contract, base, query, required) ==
    [intent |-> intent, contract_id |-> contract, base_clause_id |-> base,
     retrieval_query |-> query, required_evidence |-> required]

AmendmentEvidence ==
    {"base_clause", "applicable_amendment", "supersession_path",
     "operative_clause", "source_provenance"}
ConflictEvidence == {"base_clause", "competing_evidence", "unresolved_precedence"}

AmendmentPlans ==
    {Plan("amendment_sensitive_obligation", Agreement, 1, q, AmendmentEvidence) :
        q \in MCQueries}
ConflictPlans ==
    {Plan(Conflict, Agreement, b, "vague", ConflictEvidence) : b \in {1, 3}}
\* A plan for an unknown contract, one for an unknown clause, one that asks
\* for evidence no retriever supplies, and one that is easily content.
OddPlans ==
    {Plan("contract_restriction", Ghost, 1, "exact", {"base_clause"}),
     Plan("contract_restriction", Agreement, 9, "exact", {"base_clause"}),
     Plan("missing_reference", Agreement, 1, "exact", {"base_clause", "schedule"}),
     Plan(Conflict, Agreement, 2, "exact", {})}
AllPlans == AmendmentPlans \cup ConflictPlans \cup OddPlans

\* No claim; one without evidence; a grounded one; one citing a clause that
\* may not have been selected; one citing what is no clause at all.
MCSyntheses == {{}, {{}}, {{1}}, {{1}, {1, 3}}, {{2}, {9}}}

Limits(iterations, depth, candidates, evidence, calls, steps) ==
    [max_retrieval_iterations |-> iterations, max_graph_depth |-> depth,
     max_candidates_per_retriever |-> candidates, max_fused_candidates |-> 2,
     max_evidence_items |-> evidence, max_model_calls |-> calls,
     recursion_limit |-> steps]

DefaultLimits == {Limits(2, 3, 20, 6, 3, 30)}

AllLimits ==
    {Limits(i, d, c, e, m, s) :
        i \in 1..2, d \in 2..3, c \in {1, 2, 4}, e \in {1, 3}, m \in 2..3,
        s \in {10, 13, 14}}
==============================================================================
