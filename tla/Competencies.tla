------------------------------ MODULE Competencies ------------------------------
(***************************************************************************)
(* The competency service (competencies.py) and the hero comparison        *)
(* (comparison.py): one action per question, answered from the corpus the  *)
(* service was constructed with, which ingestion built from its sources.   *)
(* Between questions authors rearrange the sources and ingest builds them  *)
(* again; what overlapping programs do to the files is in Ingestion.       *)
(***************************************************************************)
EXTENDS CorpusBuild, GraphQueries

CONSTANTS
    Contracts,        \* the ids a caller may ask about, known or not:
    AskedClauses,     \*   contracts, clauses,
    Parties,          \*   parties
    Events,           \*   and events
    Titles,           \* titles of clauses
    Sentinels,        \* ids that start with MISSING-
    MaxResults,       \* the default limit and candidate bound: 20 in the code
    MaxCompared       \* parties or contracts in one comparison: 6 in the code

ASSUME BoundsArePositive ==
    MaxResults \in Nat \ {0} /\ MaxCompared \in Nat \ {0}

VARIABLES
    asked,            \* the question being answered
    answer            \* what the service returned or raised

vars == <<source, artifact, asked, answer>>

triples == artifact.triples

Nothing == [kind |-> "nothing"]
GraphLookupError == [kind |-> "lookup_error"]
ValueError == [kind |-> "value_error"]
KeyError == [kind |-> "key_error"]

Asks(operation, subjects, object, value) ==
    /\ asked = Nothing
    /\ asked' = [operation |-> operation, subjects |-> subjects, object |-> object]
    /\ answer' = value
    /\ UNCHANGED <<source, artifact>>

Init ==
    /\ BuildInit
    /\ asked = Nothing
    /\ answer = Nothing

------------------------------------------------------------------------------

ClauseIds == {c.clause_id : c \in Range(artifact.clauses)}

ClausesAnswer(clauses) == [kind |-> "clauses", clauses |-> clauses]

ExhibitClausesOf(contract) ==
    Asks("exhibit_clauses", {contract}, contract,
         ClausesAnswer(ExhibitClauses(triples, contract, MaxResults)))

ObligationsAnswer(parties, event) ==
    IF ~(parties \subseteq Nodes(artifact)) THEN GraphLookupError
    ELSE [kind |-> "obligations",
          obligations |-> UNION {ObligationsForParty(triples, p, event, MaxResults) :
                                    p \in parties}]

TriggeredObligations(party, event) ==
    Asks("triggered_obligations", {party}, event, ObligationsAnswer({party}, event))

CompareTriggeredObligations(parties, event) ==
    Asks("triggered_obligations", parties, event,
         IF Cardinality(parties) \notin 1..MaxCompared THEN ValueError
         ELSE ObligationsAnswer(parties, event))

Compare(contracts, titles) ==
    Asks("compare", contracts, titles,
         IF Cardinality(contracts) \notin 1..MaxCompared THEN ValueError
         ELSE [kind |-> "comparison",
               comparison |-> CompareContracts(artifact, contracts, titles, MaxResults)])

\* resolve_operative_clause with the depth and the candidates of the service.
Resolution(contract, base) ==
    IF {contract, base} \subseteq Nodes(artifact)
    THEN [kind |-> "resolution",
          operative_clause_id |-> OperativeClause(triples, contract, base, MaxResults),
          path |-> OperativePath(triples, contract, base, MaxResults)]
    ELSE GraphLookupError

OperativeClauseOf(contract, base) ==
    Asks("operative_clause", {contract}, base, Resolution(contract, base))

Conflicts(clause) ==
    Asks("conflicts", {clause}, clause,
         [kind |-> "conflicts", path |-> ConflictPath(triples, clause, MaxResults)])

MissingEvidence(clause) ==
    Asks("missing_evidence", {clause}, clause,
         ClausesAnswer(FirstOutgoing(triples, clause, "REFERENCES", MaxResults)
                            \cap Sentinels))

Provenance(clause) ==
    Asks("provenance", {clause}, clause,
         IF clause \in ClauseIds
         THEN [kind |-> "provenance", trace |-> TraceProvenance(artifact, clause)]
         ELSE GraphLookupError)

\* The dictionary of clauses has the clause to render.
Citable(resolution) == resolution.operative_clause_id \in ClauseIds

\* The vector retriever may put any clause first; the service then asks for
\* the operative clause in the contract of the document it is from.
HeroComparison(base) ==
    LET document == TraceProvenance(artifact, base).document_id
        contract == (CHOOSE d \in Range(artifact.documents) :
                        d.document_id = document).contract_id
        resolution == Resolution(contract, base)
    IN  /\ base \in ClauseIds
        /\ Asks("hero_comparison", {contract}, base,
                IF Citable(resolution) THEN resolution ELSE KeyError)

ClauseQuestion(c) ==
    \/ Conflicts(c)
    \/ MissingEvidence(c)
    \/ Provenance(c)
    \/ HeroComparison(c)
    \/ \E contract \in Contracts : OperativeClauseOf(contract, c)

\* The caller has the answer; the service keeps nothing of it.
Return ==
    /\ asked # Nothing
    /\ asked' = Nothing
    /\ answer' = Nothing
    /\ UNCHANGED <<source, artifact>>

\* The program that asks is not running.
Ingest ==
    /\ asked = Nothing
    /\ BuildNext
    /\ UNCHANGED <<asked, answer>>

\* What a service constructed with a corpus is asked.
Question ==
    \/ \E c \in Contracts : ExhibitClausesOf(c)
    \/ \E c \in AskedClauses : ClauseQuestion(c)
    \/ \E S \in SUBSET Contracts, T \in SUBSET Titles : Compare(S, T)
    \/ \E e \in Events :
        \/ \E p \in Parties : TriggeredObligations(p, e)
        \/ \E S \in SUBSET Parties : CompareTriggeredObligations(S, e)

Next == Ingest \/ (Built /\ Question) \/ Return

Spec == Init /\ [][Next]_vars
==============================================================================
