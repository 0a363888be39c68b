------------------------------- MODULE Evaluation -------------------------------
(***************************************************************************)
(* The `evaluate` command (evaluation.py): a golden set is loaded and      *)
(* checked, every item is answered by five retrieval variants, the cases   *)
(* are classified and summed up, and two report files are written.         *)
(*                                                                         *)
(* Rankings of the two retrievers are arbitrary, and so is the row of the  *)
(* graph table a question matches; scores are compared exactly.  Latency,  *)
(* tokens, cost, MRR, nDCG and the wording of the reports are left out.    *)
(***************************************************************************)
EXTENDS Fusion, FiniteOrders, Sequences, SequencesExt

CONSTANTS
    Clauses,            \* the clauses of the corpus
    ContractOf(_),      \* the contract of a clause's document
    Obsolete,           \* the clauses _classify names as superseded
    GoldenSets,         \* what the golden file may hold
    Distribution,       \* items by category: EXPECTED_DISTRIBUTION
    LexicalRankings,    \* the orders BM25 may put the clauses in
    VectorRankings,     \* the orders the vector search may put them in
    GraphAnswers,       \* rows of the graph table, and no match; a row may
                        \*   name a clause that the corpus does not have
    K,                  \* results a case keeps: 5 in the code
    Hero, Demo, Negative, Adversarial,      \* ids the criteria name
    HeroClause, AdversarialClause           \* the clauses they expect

\* A retriever names a clause once.
IsRanking(s) ==
    /\ s \in Seq(Clauses)
    /\ \A i, j \in DOMAIN s : s[i] = s[j] => i = j

\* Numbers stand for ids.  Fusion keeps the first 15 candidates, from which the
\* first K are taken; the vector search ranks every clause it is given.
ASSUME EvaluationAssumption ==
    /\ K \in 1..15
    /\ Clauses \subseteq Nat /\ IsFiniteSet(Clauses)
    /\ IsFiniteSet(DOMAIN Distribution)
    /\ \A l \in LexicalRankings : IsRanking(l)
    /\ \A v \in VectorRankings : IsRanking(v) /\ v # <<>>
    /\ \A g \in GraphAnswers :
        /\ g.ids \in Seq(Nat) /\ (g.ids = <<>> <=> g.path = {})
        /\ \A i, j \in DOMAIN g.ids : g.ids[i] = g.ids[j] => i = j
    /\ \A items \in GoldenSets : items \in Seq(Range(items))

VARIABLES
    at,                 \* where the command has got to
    golden,             \* the golden items
    cases,              \* by variant: the cases so far
    files               \* the report files; "earlier": as they were, or none

vars == <<at, golden, cases, files>>

GraphVariants == {"lexical_vector_graph", "agentic_full"}
RerankedVariants == {"lexical_vector_reranking", "agentic_full"}
Variants == {"vector_only", "lexical_vector"} \cup GraphVariants \cup RerankedVariants

NoCases == [v \in Variants |-> <<>>]

Init ==
    /\ at = "loading"
    /\ golden = <<>>
    /\ cases = NoCases
    /\ files = [file \in {"json", "markdown"} |-> "earlier"]

------------------------------------------------------------------------------

\* What load_golden_set requires.  It does not require the ids of the criteria.
ValidGolden(items) ==
    /\ Cardinality({items[i].id : i \in DOMAIN items}) = Len(items)
    /\ \A c \in DOMAIN Distribution :
        Cardinality({i \in DOMAIN items : items[i].category = c}) = Distribution[c]
    /\ \A i \in DOMAIN items :
        /\ items[i].category \in DOMAIN Distribution
        /\ items[i].relevant \subseteq Clauses
        /\ items[i].contracts \subseteq {ContractOf(c) : c \in Clauses}

Load(items) ==
    /\ at = "loading"
    /\ golden' = items
    /\ at' = IF ValidGolden(items) THEN "evaluating" ELSE "golden_set_error"
    /\ UNCHANGED <<cases, files>>

------------------------------------------------------------------------------

ListOf(order) == {[clause_id |-> order[i], rank |-> i] : i \in DOMAIN order}

\* Fault: the graph counts as much as a retriever.
EvenWeight == 2

\* Twice the weights 1.0, 1.0 and 2.5.
GraphWeight == 5

\* The score of _rrf, times two and a common denominator.
WeightedScore(lexical, vector, graph, c) ==
    LET one == Denominator(lexical, vector, graph)
    IN  Share(one, 2, lexical, c) + Share(one, 2, vector, c)
            + Share(one, GraphWeight, graph, c)

WeightedFusion(lexical, vector, graph) ==
    LET fused == Fused(lexical, vector, graph)
        score == [c \in fused |-> WeightedScore(lexical, vector, graph, c)]
    IN  InOrder([c \in fused |->
            {d \in fused : score[d] > score[c] \/ (score[d] = score[c] /\ d < c)}])

\* The candidates of a variant; without a scorer reranking changes nothing.
Candidates(variant, lexical, vector, graph) ==
    IF variant = "vector_only" THEN vector
    ELSE WeightedFusion(ListOf(lexical), ListOf(vector),
                        IF variant \in GraphVariants THEN ListOf(graph) ELSE {})

Selected(candidates) == SubSeq(candidates, 1, Min({K, Len(candidates)}))

\* The full variant abstains on the items that are labelled unanswerable.
Abstains(item, variant) == variant = "agentic_full" /\ ~item.answerable

LeftOpen(item, variant) == item.category = "conflict" /\ variant \notin GraphVariants

Status(item, variant) ==
    CASE Abstains(item, variant) -> "insufficient_evidence"
      [] ~Abstains(item, variant) /\ LeftOpen(item, variant) -> "conflict"
      [] OTHER -> "answered"

\* What a case cites, and what each claim of an answer cites.
Citations(item, variant, retrieved, graph) ==
    IF variant = "agentic_full" /\ (graph # <<>> \/ Abstains(item, variant))
    THEN Among(graph, Range(retrieved))
    ELSE SubSeq(retrieved, 1, 1)

Claims(item, variant, retrieved, graph) ==
    IF Status(item, variant) = "answered" THEN Citations(item, variant, retrieved, graph)
    ELSE <<>>

\* Fault: one labelled clause is enough.
ClassifiedByAny(item, variant, retrieved) ==
    IF Range(retrieved) \cap item.relevant # {} THEN "correct"
    ELSE "other_retrieval_miss"

\* _classify; a claim without citation, its fourth test, does not occur.
Classified(item, variant, retrieved) ==
    LET missed == ~(item.relevant \subseteq Range(retrieved))
        top == retrieved[1]
        class == <<
            <<Abstains(item, variant), "correct_abstention">>,
            <<item.category = "ambiguous", "ambiguous_question">>,
            <<item.category = "negative", "missing_evidence">>,
            <<LeftOpen(item, variant), "unresolved_conflict">>,
            <<top \in Obsolete \ item.relevant, "superseded_clause_retrieval">>,
            <<item.category = "amendment" /\ missed, "missed_amendment">>,
            <<item.category = "direct" /\ top \notin item.relevant, "exact_term_displacement">>,
            <<~missed, "correct">>,
            <<TRUE, "other_retrieval_miss">> >>
    IN  class[Min({i \in DOMAIN class : class[i][1]})][2]

Case(item, variant, lexical, vector, graph) ==
    LET retrieved == Selected(Candidates(variant, lexical, vector, graph.ids))
    IN  [item |-> item,
         retrieved |-> retrieved,
         graph |-> IF variant \in GraphVariants THEN graph ELSE [ids |-> <<>>, path |-> {}],
         status |-> Status(item, variant),
         citations |-> Citations(item, variant, retrieved, graph.ids),
         claims |-> Claims(item, variant, retrieved, graph.ids),
         classification |-> Classified(item, variant, retrieved),
         degraded |-> variant \in RerankedVariants]

Evaluated == Len(cases["agentic_full"])

\* The rows whose clauses the corpus has.
KnownAnswers == {g \in GraphAnswers : Range(g.ids) \subseteq Clauses}

\* _graph_result looks a clause of another row up in vain, before any variant
\* has its case of the item.
MissGraphClause ==
    /\ at = "evaluating"
    /\ Evaluated < Len(golden)
    /\ KnownAnswers # GraphAnswers
    /\ at' = "key_error"
    /\ UNCHANGED <<golden, cases, files>>

\* One round of the loop over the items.
EvaluateItem(lexical, vector, graph) ==
    /\ at = "evaluating"
    /\ Evaluated < Len(golden)
    /\ cases' = [v \in Variants |->
                    Append(cases[v],
                           Case(golden[Evaluated + 1], v, lexical, vector, graph))]
    /\ UNCHANGED <<at, golden, files>>

------------------------------------------------------------------------------

CountOf(results, Test(_)) == Cardinality({i \in DOMAIN results : Test(results[i])})

Total(results, Size(_)) == SumFunction([i \in DOMAIN results |-> Size(results[i])])

Evaluable(case) == case.item.relevant # {}
Retrieved(case) == case.item.relevant \subseteq Range(case.retrieved)
HasPath(case) == case.item.path # {}
FollowsPath(case) == HasPath(case) /\ case.item.path \subseteq case.graph.path

Ratio(numerator, denominator) == [numerator |-> numerator, denominator |-> denominator]

\* Fault: every case of a category counts.
AccuracyOfAll(results, category) ==
    Ratio(CountOf(results, LAMBDA c : c.item.category = category /\ Retrieved(c)),
          CountOf(results, LAMBDA c : c.item.category = category))

CategoryAccuracy(results, category) ==
    LET counts(c) == Evaluable(c) /\ c.item.category = category
    IN  Ratio(CountOf(results, LAMBDA c : counts(c) /\ Retrieved(c)),
              CountOf(results, counts))

\* The metrics of _aggregate, of the cases of one variant.
Metrics(results) ==
    LET found(c) == Cardinality(Range(c.retrieved) \cap c.item.relevant)
        cited(c) == Cardinality(Range(c.citations) \cap c.item.relevant)
        labelled(c) == Cardinality(c.item.relevant)
        grounded(c) == Cardinality({i \in DOMAIN c.claims : c.claims[i] \in Range(c.citations)})
        rightContracts(c) ==
            Evaluable(c) /\ c.item.contracts \subseteq {ContractOf(r) : r \in Range(c.retrieved)}
        evaluable == CountOf(results, Evaluable)
        claims == Total(results, LAMBDA c : Len(c.claims))
    IN  [recall |-> Ratio(Total(results, found), Total(results, labelled)),
         precision |-> Ratio(Total(results, found), K * evaluable),
         contract_accuracy |-> Ratio(CountOf(results, rightContracts), evaluable),
         clause_accuracy |->
            Ratio(CountOf(results, LAMBDA c : Evaluable(c) /\ Retrieved(c)), evaluable),
         graph_path |-> Ratio(CountOf(results, FollowsPath), CountOf(results, HasPath)),
         citation_precision |->
            Ratio(Total(results, cited), Total(results, LAMBDA c : Len(c.citations))),
         citation_recall |-> Ratio(Total(results, cited), Total(results, labelled)),
         grounded |-> Ratio(Total(results, grounded), claims),
         unsupported |-> Ratio(claims - Total(results, grounded), claims)]

CaseOf(results, id) == results[CHOOSE i \in DOMAIN results : results[i].item.id = id]

\* The criteria of _success_criteria; the same items are evaluable in every
\* variant, so rates compare as their numerators do.
Criteria(vector, full) ==
    LET better(category) ==
            CategoryAccuracy(full, category).numerator
                > CategoryAccuracy(vector, category).numerator
        path == Metrics(full).graph_path
        demo == {CaseOf(full, id) : id \in Demo}
    IN  [full_outperforms_vector_on_amendments |-> better("amendment"),
         full_outperforms_vector_on_multi_hop |-> better("multi_hop"),
         hero_returns_operative_clause |-> CaseOf(full, Hero).retrieved[1] = HeroClause,
         full_exposes_expected_graph_paths |->
            path.denominator > 0 /\ path.numerator = path.denominator,
         five_demo_citation_precision |->
            /\ \E c \in demo : c.citations # <<>>
            /\ \A c \in demo : Range(c.citations) \subseteq c.item.relevant,
         five_demo_zero_unsupported_claims |->
            \A c \in demo : Range(c.claims) \subseteq Range(c.citations),
         negative_question_abstains |->
            CaseOf(full, Negative).status = "insufficient_evidence",
         degraded_reranking_is_visible_and_safe |->
            \A i \in DOMAIN full : full[i].degraded,
         retrieved_instruction_does_not_control_flow |->
            /\ CaseOf(full, Adversarial).status = "answered"
            /\ CaseOf(full, Adversarial).retrieved[1] = AdversarialClause]

PassedBy(vector, full) ==
    \A name \in DOMAIN Criteria(vector, full) : Criteria(vector, full)[name]

Passed == PassedBy(cases["vector_only"], cases["agentic_full"])

\* The report is summed up in memory; a golden set without one of the ids of
\* the criteria ends here.
Summarise ==
    /\ at = "evaluating"
    /\ Evaluated = Len(golden)
    /\ at' = IF {Hero, Negative, Adversarial} \cup Demo
                    \subseteq {golden[i].id : i \in DOMAIN golden}
             THEN "json" ELSE "key_error"
    /\ UNCHANGED <<golden, cases, files>>

\* write_text truncates a file before it fills it.
Truncate(file) ==
    /\ at = file
    /\ files[file] # "partial"
    /\ files' = [files EXCEPT ![file] = "partial"]
    /\ UNCHANGED <<at, golden, cases>>

\* Fault: the exit code does not depend on the criteria.
AlwaysZero == "exit_0"

ExitCode == IF Passed THEN "exit_0" ELSE "exit_1"

Fill(file) ==
    /\ at = file
    /\ files[file] = "partial"
    /\ files' = [files EXCEPT ![file] = "this"]
    /\ at' = IF file = "json" THEN "markdown" ELSE ExitCode
    /\ UNCHANGED <<golden, cases>>

Ended == {"golden_set_error", "key_error", "exit_0", "exit_1", "killed"}

Vanish ==
    /\ at \notin Ended
    /\ at' = "killed"
    /\ UNCHANGED <<golden, cases, files>>

Next ==
    \/ \E items \in GoldenSets : Load(items)
    \/ \E l \in LexicalRankings, v \in VectorRankings, g \in KnownAnswers :
        EvaluateItem(l, v, g)
    \/ MissGraphClause
    \/ Summarise
    \/ \E f \in {"json", "markdown"} : Truncate(f) \/ Fill(f)
    \/ Vanish

Spec == Init /\ [][Next]_vars
==============================================================================
