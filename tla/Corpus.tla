--------------------------------- MODULE Corpus ---------------------------------
(***************************************************************************)
(* How the corpus artifact is built from the manifest, the documents, the  *)
(* entities and the reviewed assertions (ingestion.py, parser.py).         *)
(*                                                                         *)
(* Ids and paths are numbers, ordered as the strings sort.  A document is  *)
(* the sequence of its page markers and clauses in the order of the text;  *)
(* a page is identified by its document and number, the chunk of a clause  *)
(* by a number of its own.  Wording is left out, and every error ends in   *)
(* the same way: the sources are rejected.                                 *)
(***************************************************************************)
EXTENDS FiniteOrders, Sequences, FiniteSetsExt, SequencesExt

CONSTANTS
    PageId(_, _),     \* the id of a page of a document
    ChunkId(_)        \* the id of the chunk of a clause

DocumentTypes == {"Contract", "Amendment", "Exhibit"}

PopulationMethods == <<"document_structure", "reviewed_assertion">>

EntityTypes == {"Party", "Obligation", "Event", "Policy", "ProductOrService",
                "MissingReference"}

\* ACTIVE_PREDICATES, in alphabetical order.
Predicates ==
    <<"AMENDS", "CONFLICTS_WITH", "CONTAINS", "COVERS", "CREATES_OBLIGATION",
      "EXTRACTED_FROM", "HAS_EXHIBIT", "LOCATED_ON", "MODIFIES", "OWED_BY",
      "OWED_TO", "REFERENCES", "REPRESENTS", "SUPERSEDES", "TRIGGERED_BY">>

------------------------------------------------------------------------------

LexicographicallyLess(a, b) ==
    \E i \in DOMAIN a : a[i] < b[i] /\ \A j \in 1..(i - 1) : a[j] = b[j]

\* What a stable sort by keys puts before each place.
SortsBefore(key) ==
    [i \in DOMAIN key |->
        {j \in DOMAIN key :
            \/ LexicographicallyLess(key[j], key[i])
            \/ key[j] = key[i] /\ j < i}]

\* sorted(): a stable sort of s by its keys, which are tuples of numbers.
Sorted(s, key) ==
    LET order == InOrder(SortsBefore(key))
    IN  [n \in DOMAIN s |-> s[order[n]]]

------------------------------------------------------------------------------

\* The numbers of the page markers among items.
Markers(items) == {i \in DOMAIN items : items[i].kind = "page"}

ClausePlaces(items) == {i \in DOMAIN items : items[i].kind = "clause"}

\* The markers before a clause, which lies on the page of the last of them.
Preceding(items, i) == {j \in Markers(items) : j < i}

\* What parse_document requires of a document.
WellFormed(document) ==
    LET items == document.items IN
    /\ document.document_type \in DocumentTypes
    /\ document.document_type = "Amendment" => document.amends # {}
    /\ Markers(items) # {} /\ ClausePlaces(items) # {}
    /\ \A i, j \in Markers(items) : i < j => items[i].id < items[j].id
    /\ \A i \in ClausePlaces(items) : Preceding(items, i) # {}
    /\ \A i, j \in ClausePlaces(items) : items[i].id = items[j].id => i = j

\* Fault: a clause lies on the first page of its document.
FirstPage(document, i) == document.items[Min(Preceding(document.items, i))].id

PageNumber(document, i) == document.items[Max(Preceding(document.items, i))].id

Pages(document) ==
    {[page_id |-> PageId(document.document_id, document.items[i].id),
      document_id |-> document.document_id] : i \in Markers(document.items)}

\* Where the clauses of the documents are, in the order of the documents and
\* of the text: the number of a document, and of a clause among its items.
ClauseOrder(documents) ==
    LET places == UNION {{n} \X ClausePlaces(documents[n].items) :
                            n \in DOMAIN documents}
    IN  InOrder([q \in places |-> {r \in places : LexicographicallyLess(r, q)}])

ClauseAt(document, i) ==
    [clause_id |-> document.items[i].id,
     document_id |-> document.document_id,
     page_id |-> PageId(document.document_id, PageNumber(document, i)),
     title |-> document.items[i].title]

Clauses(documents) ==
    LET order == ClauseOrder(documents)
    IN  [n \in DOMAIN order |-> ClauseAt(documents[order[n][1]], order[n][2])]

------------------------------------------------------------------------------

PredicateRank(p) == CHOOSE i \in DOMAIN Predicates : Predicates[i] = p

MethodRank(m) == CHOOSE i \in DOMAIN PopulationMethods : PopulationMethods[i] = m

TripleSortKey(t) ==
    <<t.subject, PredicateRank(t.predicate), t.object, t.source_clause_id,
      MethodRank(t.population_method)>>

\* _triple accepts only these.
InOntology(t) ==
    /\ t.predicate \in Range(Predicates)
    /\ t.population_method \in Range(PopulationMethods)

Ids(records, Id(_)) == {Id(records[i]) : i \in DOMAIN records}

\* _reject_duplicates.  A page or chunk twice means a document or clause twice.
Unique(records, Id(_)) == Cardinality(Ids(records, Id)) = Len(records)

DocumentId(r) == r.document_id
ContractId(r) == r.contract_id
ClauseId(r) == r.clause_id
EntityId(r) == r.entity_id

Rejected == [rejected |-> TRUE]

\* Fault: the documents are taken in the order of the manifest.
ManifestOrder(source) == source.manifest

\* The paths of the manifest in the order in which they are parsed.
PathOrder(source) ==
    Sorted(source.manifest, [i \in DOMAIN source.manifest |-> <<source.manifest[i]>>])

Parsed(source) ==
    LET paths == PathOrder(source)
    IN  [n \in DOMAIN paths |-> source.files[paths[n]]]

\* Every id a triple may name.
Nodes(corpus) ==
    UNION {Ids(corpus.documents, DocumentId), Ids(corpus.documents, ContractId),
           Ids(corpus.clauses, ClauseId),
           {ChunkId(c) : c \in Ids(corpus.clauses, ClauseId)},
           {p.page_id : p \in corpus.pages}, Ids(corpus.entities, EntityId)}

\* The corpus the sources describe, with its parts in canonical order.
Assembled(source) ==
    LET parsed == Parsed(source)
    IN  [documents |-> Sorted(parsed, [i \in DOMAIN parsed |-> <<parsed[i].document_id>>]),
         pages |-> UNION {Pages(parsed[n]) : n \in DOMAIN parsed},
         clauses |-> Clauses(parsed),
         entities |-> Sorted(source.entities, [i \in DOMAIN source.entities |->
                                                <<source.entities[i].entity_id>>]),
         triples |-> Sorted(source.assertions, [i \in DOMAIN source.assertions |->
                                                TripleSortKey(source.assertions[i])])]

\* What the records may contain, and what the triples may name.
InVocabulary(source) ==
    /\ \A i \in DOMAIN source.entities : source.entities[i].entity_type \in EntityTypes
    /\ \A i \in DOMAIN source.assertions : InOntology(source.assertions[i])

NamesAreKnown(corpus) ==
    LET clauses == Ids(corpus.clauses, ClauseId)
        nodes == Nodes(corpus)
    IN  \A t \in Range(corpus.triples) :
            t.source_clause_id \in clauses /\ {t.subject, t.object} \subseteq nodes

\* Fault: clause ids are compared within a document only, by the parser.
DocumentsAreNotTwice(corpus) ==
    /\ Unique(corpus.documents, DocumentId)
    /\ Unique(corpus.entities, EntityId)
    /\ Cardinality(Range(corpus.triples)) = Len(corpus.triples)

NothingIsTwice(corpus) ==
    /\ Unique(corpus.documents, DocumentId)
    /\ Unique(corpus.clauses, ClauseId)
    /\ Unique(corpus.entities, EntityId)
    /\ Cardinality(Range(corpus.triples)) = Len(corpus.triples)

Accepted(source) ==
    /\ \A n \in DOMAIN Parsed(source) : WellFormed(Parsed(source)[n])
    /\ InVocabulary(source)

\* The corpus, or Rejected.
BuildCorpus(source) ==
    IF ~Accepted(source) THEN Rejected
    ELSE LET corpus == Assembled(source)
         IN  IF NamesAreKnown(corpus) /\ NothingIsTwice(corpus) THEN corpus
             ELSE Rejected
==============================================================================
