------------------------------- MODULE Ingestion -------------------------------
(***************************************************************************)
(* The artifact directory: processes that run `contractgraph ingest` and   *)
(* replace its three files one after another, and programs that load the   *)
(* corpus from it, all at any time (ingestion.py, artifacts.py,            *)
(* inspection.py).                                                         *)
(*                                                                         *)
(* A file's content is named by the corpus it was rendered from: the       *)
(* rendering is canonical and the digest is taken to be injective, so two  *)
(* files agree exactly when they name the same corpus.                     *)
(***************************************************************************)
EXTENDS Naturals

CONSTANTS
    Ingesters,    \* processes that run ingest, again and again
    Loaders,      \* programs that load corpus.json
    Corpora,      \* what build_corpus can return
    Absent,       \* no such file; nothing held
    Partial,      \* a file whose text has not been flushed completely
    CanVanish     \* whether an ingest may be killed

ASSUME ContentsAreDistinct ==
    /\ Absent \notin Corpora /\ Partial \notin Corpora
    /\ Absent # Partial
    /\ CanVanish \in BOOLEAN

VARIABLES
    directory,    \* by path: the content of the file there
    ingest,       \* by process: where persist_corpus has got to
    overlapped,   \* by process: whether another ingest ran during this one
    load          \* by program: where load_corpus has got to

vars == <<directory, ingest, overlapped, load>>

Files == <<"corpus.json", "triples.jsonl", "sha256.txt">>
Paths == {Files[i] : i \in 1..3}

Contents == Corpora \cup {Absent, Partial}

\* A process about to create, fill or move the temporary file number i of
\* its corpus c.
At(place, i, c, content) ==
    [at |-> place, file |-> i, corpus |-> c, temporary |-> content]

Idle == At("idle", 1, Absent, Absent)

Active(p) == ingest[p].at # "idle"

Init ==
    /\ directory = [f \in Paths |-> Absent]
    /\ ingest = [p \in Ingesters |-> Idle]
    /\ overlapped = [p \in Ingesters |-> FALSE]
    /\ load = [l \in Loaders |-> [at |-> "closed", artifact |-> Absent]]

------------------------------------------------------------------------------

\* build_corpus accepts the sources; an IngestionError would leave every file
\* as it is.
Build(p, c) ==
    /\ ~Active(p)
    /\ ingest' = [ingest EXCEPT ![p] = At("open", 1, c, Absent)]
    /\ overlapped' = [q \in Ingesters |->
                        IF q = p THEN \E r \in Ingesters : Active(r)
                        ELSE overlapped[q] \/ Active(q)]
    /\ UNCHANGED <<directory, load>>

\* _atomic_write, step by step: a temporary file of its own name is created,
\* filled and closed, and then takes the place of the artifact.
OpenTemporary(p) ==
    /\ ingest[p].at = "open"
    /\ ingest' = [ingest EXCEPT ![p] = At("write", @.file, @.corpus, Partial)]
    /\ UNCHANGED <<directory, overlapped, load>>

\* Fault: the text is written straight to its path.
WriteInPlace(p) ==
    /\ ingest[p].at = "write"
    /\ ingest' = [ingest EXCEPT ![p] = At("replace", @.file, @.corpus, @.corpus)]
    /\ directory' = [directory EXCEPT ![Files[ingest[p].file]] = Partial]
    /\ UNCHANGED <<overlapped, load>>

WriteTemporary(p) ==
    /\ ingest[p].at = "write"
    /\ ingest' = [ingest EXCEPT ![p] = At("replace", @.file, @.corpus, @.corpus)]
    /\ UNCHANGED <<directory, overlapped, load>>

\* Fault: triples.jsonl is not written again.
AdvancedToTheDigest(i) ==
    IF i.file = 3 THEN Idle
    ELSE At("open", 3, i.corpus, Absent)

\* The next file, or the end of persist_corpus.
Advanced(i) ==
    IF i.file = 3 THEN Idle
    ELSE At("open", i.file + 1, i.corpus, Absent)

Replace(p) ==
    /\ ingest[p].at = "replace"
    /\ directory' = [directory EXCEPT ![Files[ingest[p].file]] = ingest[p].temporary]
    /\ ingest' = [ingest EXCEPT ![p] = Advanced(ingest[p])]
    /\ UNCHANGED <<overlapped, load>>

\* The process is killed; a temporary file it leaves is never read.
Vanish(p) ==
    /\ CanVanish
    /\ Active(p)
    /\ ingest' = [ingest EXCEPT ![p] = Idle]
    /\ UNCHANGED <<directory, overlapped, load>>

------------------------------------------------------------------------------

\* The existence test of load_corpus and render_artifact.  Without the file
\* they raise FileNotFoundError and nothing changes.
Look(l) ==
    /\ load[l].at = "closed"
    /\ directory["corpus.json"] # Absent
    /\ load' = [load EXCEPT ![l].at = "read"]
    /\ UNCHANGED <<directory, ingest, overlapped>>

\* An opened file keeps its text when its path is replaced.
Read(l) ==
    /\ load[l].at = "read"
    /\ load' = [load EXCEPT ![l] = [at |-> "loaded",
                                    artifact |-> directory["corpus.json"]]]
    /\ UNCHANGED <<directory, ingest, overlapped>>

Close(l) ==
    /\ load[l].at = "loaded"
    /\ load' = [load EXCEPT ![l] = [at |-> "closed", artifact |-> Absent]]
    /\ UNCHANGED <<directory, ingest, overlapped>>

IngestStep(p) ==
    \/ \E c \in Corpora : Build(p, c)
    \/ OpenTemporary(p)
    \/ WriteTemporary(p)
    \/ Replace(p)
    \/ Vanish(p)

LoadStep(l) == Look(l) \/ Read(l) \/ Close(l)

Next ==
    \/ \E p \in Ingesters : IngestStep(p)
    \/ \E l \in Loaders : LoadStep(l)

Spec == Init /\ [][Next]_vars

\* The loads are those of a register that holds corpus.json.
Register ==
    INSTANCE CorpusRegister WITH
        published <- directory["corpus.json"],
        held <- [l \in Loaders |-> load[l].artifact]
==============================================================================
