------------------------- MODULE CompetenciesProperties -------------------------
(***************************************************************************)
(* What the answers of the competency service mean for the reviewed        *)
(* assertions they come from.                                              *)
(***************************************************************************)
EXTENDS Competencies

Answered(operation) == asked # Nothing /\ asked.operation = operation

Resolved == answer.kind = "resolution"

\* The assertion a step of a path stands for.
Reviewed(step) ==
    \E t \in Range(triples) :
        /\ t.subject = step.subject
        /\ t.predicate = step.predicate
        /\ t.object = step.object
        /\ t.source_clause_id = step.source_clause_id

\* Every step of every path is one reviewed assertion with the source clause
\* it was asserted from (resolve_operative_clause, obligations_for_party and
\* conflicts_for_clause over edges that are overwritten).
PathsAreReviewed ==
    /\ answer.kind \in {"resolution", "conflicts"} =>
        \A step \in answer.path : Reviewed(step)
    /\ answer.kind = "obligations" =>
        \A o \in answer.obligations : \A step \in o.path : Reviewed(step)

\* What an answer would list if nothing bounded it.
OwedWithin(parties, event) ==
    {q \in parties \X {t.object : t \in Range(triples)} :
        /\ Edge(triples, q[2], "OWED_BY", q[1])
        /\ Edge(triples, q[2], "TRIGGERED_BY", event)
        /\ \E c \in {t.subject : t \in Range(triples)} :
            Edge(triples, c, "CREATES_OBLIGATION", q[2])}

\* The clauses with one of the titles in the base agreements of contracts.
Matching(contracts, titles) ==
    {clause.clause_id : clause \in {c \in Range(artifact.clauses) :
        /\ c.title \in titles
        /\ \E d \in Range(artifact.documents) :
            /\ c.document_id = d.document_id
            /\ d.contract_id \in contracts /\ d.document_type = "Contract"}}

\* found is what there is, or as much of it as the bound allows.
Answers(found, wanted) ==
    /\ found \subseteq wanted
    /\ Cardinality(wanted) <= MaxResults => found = wanted

\* What the service lists is so, over the whole graph: "Returned obligation is
\* connected to the requested event within three hops" (CONTEXT.md:22), "Only
\* requested contracts and bounded matching clauses are returned"
\* (CONTEXT.md:24).  And below the bound it leaves nothing out, as long as no
\* obligation has two triggers; a clause of two exhibits counts twice
\* (competencies.py with the default limits).
AnswersMatchTheCorpus ==
    /\ answer.kind = "obligations" =>
        LET owed == OwedWithin(asked.subjects, asked.object)
            found == {<<o.owed_by, o.obligation_id>> : o \in answer.obligations}
        IN  /\ found \subseteq owed
            /\ /\ \A q \in owed : Cardinality(Outgoing(triples, q[2], "TRIGGERED_BY")) = 1
               /\ \A p \in asked.subjects :
                    Cardinality({q \in owed : q[1] = p}) <= MaxResults
               => found = owed
            /\ \A o \in answer.obligations :
                Edge(triples, o.clause_id, "CREATES_OBLIGATION", o.obligation_id)
    /\ answer.kind = "comparison" =>
        Answers(answer.comparison.clause_ids, Matching(asked.subjects, asked.object))
    /\ Answered("missing_evidence") =>
        LET references == Outgoing(triples, asked.object, "REFERENCES")
        IN  /\ answer.clauses \subseteq references \cap Sentinels
            /\ Cardinality(references) <= MaxResults
                => references \cap Sentinels \subseteq answer.clauses
    /\ Answered("exhibit_clauses") =>
        LET exhibited == Exhibited(triples, asked.object)
        IN  /\ answer.clauses \subseteq {q[2] : q \in exhibited}
            /\ Cardinality(exhibited) <= MaxResults
                => {q[2] : q \in exhibited} \subseteq answer.clauses

\* The clauses of the contract's amendments that supersede clause.
Superseders(contract, clause) ==
    {q[2] : q \in Superseding(triples, contract, clause)}

\* The conditions under which the greatest candidate is the latest language:
\* the assertions hold every supersession of a clause, later amendments have
\* greater clause ids, and the bound does not cut the candidates.
WellReviewed(contract, base) ==
    LET found == Superseding(triples, contract, base) IN
    /\ Cardinality(found) <= MaxResults
    /\ \A c \in Superseders(contract, base) : \A d \in Superseders(contract, c) :
        c < d /\ d \in Superseders(contract, base)

\* "What language is operative after amendments?" (CONTEXT.md:19): the clause
\* returned is the base clause or a clause of the contract's amendments that
\* supersedes it, and where the assertions are well reviewed no amendment of
\* the contract supersedes it in turn (resolve_operative_clause).
OperativeLanguageIsCurrent ==
    Resolved =>
        \A contract \in asked.subjects :
            LET base == asked.object
                operative == answer.operative_clause_id
            IN  /\ operative = base \/ operative \in Superseders(contract, base)
                /\ WellReviewed(contract, base) => Superseders(contract, operative) = {}
==============================================================================
