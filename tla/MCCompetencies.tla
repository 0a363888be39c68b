----------------------------- MODULE MCCompetencies -----------------------------
(***************************************************************************)
(* Corpora of one contract, two amendments and two exhibits, built by      *)
(* ingestion from every choice of assertions out of three pools: one       *)
(* about amendments, one about obligations, one about exhibits.            *)
(***************************************************************************)
EXTENDS CompetenciesProperties

MCPageId(document, number) == 100 * document + number
MCChunkId(clause) == 1000 + clause

Document(id, contract, type, clauses) ==
    [document_id |-> id, contract_id |-> contract, document_type |-> type,
     amends |-> {10},
     items |-> <<[kind |-> "page", id |-> 1]>>
               \o [i \in DOMAIN clauses |->
                    [kind |-> "clause", id |-> clauses[i],
                     title |-> IF clauses[i] % 2 = 1 THEN "odd" ELSE "even"]]]

Files ==
    <<Document(2, 10, "Contract", <<21, 22>>), Document(3, 10, "Amendment", <<31>>),
      Document(4, 10, "Amendment", <<41, 42>>), Document(5, 10, "Exhibit", <<51, 52>>),
      Document(6, 10, "Exhibit", <<53>>), Document(7, 11, "Contract", <<71>>)>>

Entities ==
    [i \in 1..9 |->
        CASE i \in {1, 2} -> [entity_id |-> 80 + i, entity_type |-> "Party"]
          [] i \in {3, 4} -> [entity_id |-> 80 + i, entity_type |-> "Event"]
          [] i \in {5, 6} -> [entity_id |-> 80 + i, entity_type |-> "Obligation"]
          [] i = 7 -> [entity_id |-> 87, entity_type |-> "Policy"]
          [] i = 8 -> [entity_id |-> 88, entity_type |-> "MissingReference"]
          [] i = 9 -> [entity_id |-> 89, entity_type |-> "ProductOrService"]]

Triple(s, p, o, c) ==
    [subject |-> s, predicate |-> p, object |-> o, source_clause_id |-> c,
     population_method |-> "reviewed_assertion"]

Amending ==
    {Triple(3, "AMENDS", 10, 31), Triple(4, "AMENDS", 10, 41),
     Triple(3, "CONTAINS", 31, 31), Triple(4, "CONTAINS", 41, 41),
     Triple(4, "CONTAINS", 42, 42)}

Supersessions ==
    {Triple(31, "SUPERSEDES", 21, 31), Triple(31, "MODIFIES", 21, 41),
     Triple(41, "SUPERSEDES", 21, 41), Triple(41, "SUPERSEDES", 31, 41),
     Triple(42, "SUPERSEDES", 21, 42), Triple(42, "SUPERSEDES", 41, 42),
     Triple(41, "CONFLICTS_WITH", 21, 21), Triple(4, "CONTAINS", 87, 41),
     Triple(87, "SUPERSEDES", 21, 41)}

Obligations ==
    {Triple(51, "CREATES_OBLIGATION", 85, 51), Triple(52, "CREATES_OBLIGATION", 86, 52),
     Triple(85, "OWED_BY", 81, 51), Triple(86, "OWED_BY", 81, 52),
     Triple(86, "OWED_BY", 82, 52), Triple(85, "TRIGGERED_BY", 83, 51),
     Triple(85, "TRIGGERED_BY", 84, 51), Triple(86, "TRIGGERED_BY", 84, 52),
     Triple(51, "REFERENCES", 87, 51), Triple(51, "REFERENCES", 88, 51)}

Exhibits ==
    {Triple(10, "HAS_EXHIBIT", 5, 21), Triple(10, "HAS_EXHIBIT", 6, 21),
     Triple(5, "CONTAINS", 51, 51), Triple(5, "CONTAINS", 52, 52),
     Triple(6, "CONTAINS", 53, 53), Triple(6, "CONTAINS", 51, 51),
     Triple(11, "COVERS", 89, 71),
     Triple(51, "REFERENCES", 22, 51), Triple(51, "REFERENCES", 88, 51)}

\* The elements of a set of triples in some order.
Listed(S) ==
    LET n == Cardinality(S)
        rest[i \in 0..n] ==
            IF i = 0 THEN S ELSE rest[i - 1] \ {CHOOSE t \in rest[i - 1] : TRUE}
    IN  [i \in 1..n |-> CHOOSE t \in rest[i - 1] : TRUE]

Sourced(assertions) ==
    [files |-> Files, manifest |-> <<6, 1, 2, 3, 5, 4>>,
     entities |-> Entities,
     assertions |-> Listed(assertions)]

Reviews ==
    {Sourced(Amending \cup S) : S \in SUBSET Supersessions}
    \cup {Sourced(S) : S \in SUBSET Obligations \cup SUBSET Exhibits}

------------------------------------------------------------------------------

Page(n) == [kind |-> "page", id |-> n]
Clause(c) == [kind |-> "clause", id |-> c, title |-> "any"]

\* Texts: one page, two pages, a clause before its page, pages out of order,
\* a clause twice, no clause.
Texts(c, d) ==
    {<<Page(1), Clause(d), Clause(c)>>,
     <<Page(1), Clause(c), Page(2), Clause(d)>>,
     <<Page(1), Page(2), Clause(c)>>,
     <<Clause(c), Page(1)>>,
     <<Page(2), Clause(c), Page(1), Clause(d)>>,
     <<Page(1), Clause(c), Clause(c)>>,
     <<Page(1)>>}

Draft(id, type, amends, items) ==
    [document_id |-> id, contract_id |-> 10, document_type |-> type,
     amends |-> amends, items |-> items]

\* The contract's clauses are 21 and 22; the amendment may reuse 21.
DraftContracts == {Draft(2, "Contract", {}, t) : t \in Texts(21, 22)}
DraftAmendments ==
    {Draft(d, "Amendment", a, t) :
        d \in {1, 2}, a \in {{}, {10}},
        t \in {<<Page(1), Clause(23)>>, <<Page(1), Clause(21)>>}}

DraftAssertions ==
    {Triple(23, "SUPERSEDES", 21, 23), Triple(23, "SUPERSEDES", 21, 21),
     Triple(1, "AMENDS", 10, 23), Triple(1, "AMENDS", 10, 24),
     Triple(1, "OWNS", 10, 23), Triple(21, "OWED_BY", 31, 21)}

DraftEntities ==
    {<<>>, <<[entity_id |-> 31, entity_type |-> "Party"]>>,
     <<[entity_id |-> 32, entity_type |-> "Event"],
       [entity_id |-> 31, entity_type |-> "Party"]>>,
     <<[entity_id |-> 31, entity_type |-> "Party"],
       [entity_id |-> 31, entity_type |-> "Event"]>>,
     <<[entity_id |-> 31, entity_type |-> "Risk"]>>}

\* Small sources, with every defect.  Every part varies at its own time: texts
\* without assertions, assertions over well-formed texts.
Drafts ==
    LET sources(files, manifests, entities, assertions) ==
            [files: files, manifest: manifests, entities: entities,
             assertions: assertions]
        good == [i \in {1, 2} |->
                    IF i = 1
                    THEN Draft(2, "Contract", {},
                                  <<Page(1), Clause(22), Clause(21)>>)
                    ELSE Draft(1, "Amendment", {10}, <<Page(1), Clause(23)>>)]
    IN  sources({<<c, a>> : c \in DraftContracts, a \in DraftAmendments},
                {<<1>>, <<2>>, <<1, 2>>, <<2, 2>>}, DraftEntities, {<<>>})
        \cup sources({good}, {<<1, 2>>, <<1>>}, DraftEntities,
                     UNION {[1..n -> DraftAssertions] : n \in 1..3})

MCSources == Reviews \cup Drafts
==============================================================================
