-------------------------- MODULE IngestionProperties --------------------------
(***************************************************************************)
(* What the artifact directory guarantees to those who load a corpus, and  *)
(* when its three files belong together.                                   *)
(***************************************************************************)
EXTENDS Ingestion

\* Every variable keeps its type; a temporary file is as far as the process
\* that writes it, and a program holds a corpus exactly when it has loaded one
\* (_atomic_write, load_corpus).
TypeOK ==
    /\ directory \in [Paths -> Contents]
    /\ ingest \in [Ingesters ->
                    {Idle}
                    \cup [at: {"open"}, file: 1..3, corpus: Corpora, temporary: {Absent}]
                    \cup [at: {"write"}, file: 1..3, corpus: Corpora, temporary: {Partial}]
                    \cup [at: {"replace"}, file: 1..3, corpus: Corpora, temporary: Corpora]]
    /\ overlapped \in [Ingesters -> BOOLEAN]
    /\ load \in [Loaders ->
                    [at: {"closed", "read"}, artifact: {Absent}]
                    \cup [at: {"loaded"}, artifact: Contents]]

\* However many ingests run and wherever one of them dies, whatever lies at
\* an artifact's path is whole, a file that was found to exist is still there
\* to be read, and what a program works with is a whole corpus
\* (_atomic_write replaces, load_corpus reads one file only).
NothingPartialIsSeen ==
    /\ \A f \in Paths : directory[f] # Partial
    /\ \A l \in Loaders :
        /\ load[l].at = "read" => directory["corpus.json"] # Absent
        /\ load[l].at = "loaded" => load[l].artifact \in Corpora

\* What an ingest that no other overlaps has got done: the files before the
\* one it is at hold its corpus, and a temporary file holds nothing else.
IngestInv ==
    \A p \in Ingesters :
        Active(p) =>
            /\ ingest[p].at = "replace" => ingest[p].temporary = ingest[p].corpus
            /\ ~overlapped[p] =>
                /\ \A q \in Ingesters : Active(q) => q = p
                /\ \A i \in 1..3 :
                    i < ingest[p].file => directory[Files[i]] = ingest[p].corpus

\* The inductive invariant: types, wholeness and the place of every ingest
\* (persist_corpus, _atomic_write, load_corpus).
IInv == TypeOK /\ NothingPartialIsSeen /\ IngestInv

FilesAgreeOn(c) == \A f \in Paths : directory'[f] = c

\* An ingest that reaches its end without another one beside it leaves three
\* files of its own corpus, whatever earlier ingests that died or collided
\* left behind: ingesting again repairs the directory (persist_corpus).
UndisturbedIngestsAgree ==
    [][\A p \in Ingesters :
        Replace(p) /\ ingest'[p] = Idle /\ ~overlapped[p] =>
            FilesAgreeOn(ingest[p].corpus)]_vars

\* Loads see one register: a whole corpus, published at one instant of the
\* call (load_corpus, render_artifact over _atomic_write).
LoadsAreOfARegister == Register!Spec
==============================================================================
