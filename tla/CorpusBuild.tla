------------------------------ MODULE CorpusBuild ------------------------------
(***************************************************************************)
(* Authors arrange the sources of a corpus, and ingest builds its artifact *)
(* from them whenever it is asked to (build_corpus).                       *)
(***************************************************************************)
EXTENDS Corpus

CONSTANTS
    Sources,      \* manifest, files, entities and assertions to start from
    Unbuilt,      \* no artifact yet
    MaxListed     \* bound: authors rearrange no list that is longer

\* What the sources may hold.  A document has text of its own; so do a page
\* marker and a clause, of which the marker's id is its number.
Items ==
    [kind : {"page"}, id : Nat] \cup [kind : {"clause"}, id : Nat, title : STRING]

SourceDocuments ==
    [document_id : Nat, contract_id : Nat, document_type : STRING,
     amends : SUBSET Nat, items : Seq(Items)]

SourceEntities == [entity_id : Nat, entity_type : STRING]

SourceAssertions ==
    [subject : Nat, predicate : STRING, object : Nat, source_clause_id : Nat,
     population_method : STRING]

\* Different pages of these documents have different ids.
PagesDiffer(files) ==
    \A p, q \in DOMAIN files :
        \A i \in Markers(files[p].items), j \in Markers(files[q].items) :
            LET d == files[p].document_id
                e == files[q].document_id
                m == files[p].items[i].id
                n == files[q].items[j].id
            IN  PageId(d, m) = PageId(e, n) => d = e /\ m = n

\* A manifest of known files, entities and assertions as JSON holds them.
IsSource(s) ==
    /\ DOMAIN s = {"files", "manifest", "entities", "assertions"}
    /\ DOMAIN s.files \subseteq Nat
    /\ \A p \in DOMAIN s.files : s.files[p] \in SourceDocuments
    /\ s.manifest \in Seq(DOMAIN s.files)
    /\ s.entities \in Seq(SourceEntities)
    /\ s.assertions \in Seq(SourceAssertions)
    /\ PagesDiffer(s.files)

ASSUME SourcesAreTyped == \A s \in Sources : IsSource(s)
ASSUME MaxListedAssumption == MaxListed \in Nat

VARIABLES
    source,       \* what lies in the corpus directory
    artifact      \* what the last build of these sources returned

buildVars == <<source, artifact>>

BuildInit ==
    /\ source \in Sources
    /\ artifact = Unbuilt

Build ==
    /\ artifact' = BuildCorpus(source)
    /\ UNCHANGED source

\* s with its elements at i and j exchanged.
Exchanged(s, i, j) == [s EXCEPT ![i] = s[j], ![j] = s[i]]

\* The author lists documents, entities or assertions in another order.
Rearrange(part) ==
    /\ Len(source[part]) <= MaxListed
    /\ \E i, j \in DOMAIN source[part] :
        /\ i < j
        /\ source' = [source EXCEPT ![part] = Exchanged(@, i, j)]
    /\ UNCHANGED artifact

BuildNext ==
    \/ Build
    \/ \E part \in {"manifest", "entities", "assertions"} : Rearrange(part)

------------------------------------------------------------------------------

\* There is a corpus.
Built == artifact \notin {Unbuilt, Rejected}

\* "Re-running ingestion from the canonical Markdown sources produces the same
\* identifiers and logical artifact digest" (README.md:19), in whatever order
\* the manifest, the entities and the assertions list them: what was built, or
\* rejected, is built, or rejected, by every later Build (build_corpus).
RebuildingAgrees ==
    [][artifact # Unbuilt => artifact' = artifact]_buildVars

\* "Clause, page, chunk, and source document all exist" (CONTEXT.md:26), and
\* among the clauses, the pages and the documents no id stands for two: a
\* clause that a triple cites has one place in one document.  Ids are compared
\* within a kind only, so a clause and a page may share one (build_corpus).
ProvenanceIsUnique ==
    Built =>
        /\ \A i \in DOMAIN artifact.clauses :
            LET clause == artifact.clauses[i] IN
            /\ \A j \in DOMAIN artifact.clauses :
                artifact.clauses[j].clause_id = clause.clause_id => j = i
            /\ Cardinality({j \in DOMAIN artifact.documents :
                    artifact.documents[j].document_id = clause.document_id}) = 1
            /\ Cardinality({p \in artifact.pages : p.page_id = clause.page_id}) = 1
        /\ \A i \in DOMAIN artifact.triples :
            \E j \in DOMAIN artifact.clauses :
                artifact.clauses[j].clause_id = artifact.triples[i].source_clause_id

\* Where a clause of a document stands in its file.
PlaceOf(document, clause) ==
    CHOOSE i \in ClausePlaces(document.items) : document.items[i].id = clause.clause_id

\* Two clauses of a document are on one page exactly when no page marker
\* separates them, and they come in the order of the text (parse_document,
\* and the comment at ingestion.py:94).
ClausesAreInReadingOrder ==
    Built =>
        \A i, j \in DOMAIN artifact.clauses :
            LET first == artifact.clauses[i]
                second == artifact.clauses[j]
                document == CHOOSE d \in Range(artifact.documents) :
                                d.document_id = first.document_id
            IN  i < j /\ first.document_id = second.document_id =>
                    /\ PlaceOf(document, first) < PlaceOf(document, second)
                    /\ (first.page_id = second.page_id) <=>
                        \A k \in Markers(document.items) :
                            ~(PlaceOf(document, first) < k
                              /\ k < PlaceOf(document, second))
==============================================================================
