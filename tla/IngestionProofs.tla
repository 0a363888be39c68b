---------------------------- MODULE IngestionProofs ----------------------------
(***************************************************************************)
(* For any number of ingests, programs and corpora: types, wholeness,      *)
(* agreement after an undisturbed ingest, and the register.                *)
(***************************************************************************)
EXTENDS IngestionProperties, TLAPS

\* Advancing from a file leads to the next one or to the idle record.
LEMMA AdvancedType ==
    ASSUME NEW i \in [at: {"replace"}, file: 1..3, corpus: Corpora, temporary: Corpora]
    PROVE  /\ i.file = 3 => Advanced(i) = Idle
           /\ i.file # 3 =>
                /\ Advanced(i) \in
                    [at: {"open"}, file: 1..3, corpus: Corpora, temporary: {Absent}]
                /\ Advanced(i).file = i.file + 1
                /\ Advanced(i).corpus = i.corpus
BY DEF Advanced, At, Idle

\* No file is there and nothing runs.
LEMMA InitInv == Init => IInv
BY ContentsAreDistinct
   DEF Init, IInv, TypeOK, NothingPartialIsSeen, IngestInv, Idle, At, Active, Contents, Paths, Files

\* The three paths are different, and files are numbered 1 to 3.
LEMMA FilePaths ==
    /\ Files[1] = "corpus.json" /\ Files[2] = "triples.jsonl" /\ Files[3] = "sha256.txt"
    /\ Paths = {"corpus.json", "triples.jsonl", "sha256.txt"}
    /\ \A i \in 1..3 : Files[i] \in Paths
    /\ \A i, j \in 1..3 : Files[i] = Files[j] => i = j
<1>1. Files[1] = "corpus.json" /\ Files[2] = "triples.jsonl" /\ Files[3] = "sha256.txt"
  BY DEF Files
<1>2. 1..3 = {1, 2, 3}
  OBVIOUS
<1> QED
  BY <1>1, <1>2 DEF Paths

\* The place and type of a single ingest.
LEMMA IngestType ==
    ASSUME TypeOK, NEW p \in Ingesters
    PROVE  /\ ingest[p].at = "idle" => ingest[p] = Idle
           /\ Active(p) => ingest[p].corpus \in Corpora /\ ingest[p].file \in 1..3
           /\ ingest[p].at = "open" => ingest[p] \in
                [at: {"open"}, file: 1..3, corpus: Corpora, temporary: {Absent}]
           /\ ingest[p].at = "write" => ingest[p] \in
                [at: {"write"}, file: 1..3, corpus: Corpora, temporary: {Partial}]
           /\ ingest[p].at = "replace" => ingest[p] \in
                [at: {"replace"}, file: 1..3, corpus: Corpora, temporary: Corpora]
BY DEF TypeOK, Idle, At, Active

\* A process that starts to build holds its corpus.
LEMMA BuildInv ==
    ASSUME IInv, NEW p \in Ingesters, NEW c \in Corpora, Build(p, c)
    PROVE  IInv'
<1> USE DEF IInv
<1> DEFINE new == At("open", 1, c, Absent)
<1>1. new = [at |-> "open", file |-> 1, corpus |-> c, temporary |-> Absent]
  BY DEF At
<1>2. ingest' = [ingest EXCEPT ![p] = new] /\ UNCHANGED <<directory, load>>
  BY DEF Build
<1>3. TypeOK'
  <2>1. overlapped' \in [Ingesters -> BOOLEAN]
    <3>1. \A q \in Ingesters :
            (IF q = p THEN \E r \in Ingesters : Active(r)
             ELSE overlapped[q] \/ Active(q)) \in BOOLEAN
      OBVIOUS
    <3> QED
      BY <3>1, Zenon DEF Build
  <2>2. new \in [at: {"open"}, file: 1..3, corpus: Corpora, temporary: {Absent}]
    BY <1>1
  <2>3. ingest' \in [Ingesters ->
                    {Idle}
                    \cup [at: {"open"}, file: 1..3, corpus: Corpora, temporary: {Absent}]
                    \cup [at: {"write"}, file: 1..3, corpus: Corpora, temporary: {Partial}]
                    \cup [at: {"replace"}, file: 1..3, corpus: Corpora, temporary: Corpora]]
    BY <1>2, <2>2 DEF TypeOK
  <2> QED
    BY <1>2, <2>1, <2>3 DEF TypeOK
<1>4. NothingPartialIsSeen'
  BY <1>2 DEF NothingPartialIsSeen
<1>5. IngestInv'
  <2> SUFFICES ASSUME NEW q \in Ingesters, Active(q)'
               PROVE  /\ ingest'[q].at = "replace" =>
                            ingest'[q].temporary = ingest'[q].corpus
                      /\ ~overlapped'[q] =>
                            /\ \A r \in Ingesters : Active(r)' => r = q
                            /\ \A i \in 1..3 :
                                i < ingest'[q].file =>
                                    directory'[Files[i]] = ingest'[q].corpus
    BY DEF IngestInv
  <2>1. \A r \in Ingesters : r # p => ingest'[r] = ingest[r] /\ (Active(r)' <=> Active(r))
    BY <1>2 DEF TypeOK, Active
  <2>2. CASE q = p
    <3>1. ingest'[q] = new
      BY <1>2, <2>2 DEF TypeOK
    <3>2. ~overlapped'[q] => \A r \in Ingesters : ~Active(r)
      BY <2>2 DEF Build
    <3> QED
      BY <1>1, <2>1, <2>2, <3>1, <3>2
  <2>3. CASE q # p
    <3>1. ingest'[q] = ingest[q] /\ Active(q)
      BY <2>1, <2>3
    <3>2. overlapped'[q]
      BY <2>3, <3>1 DEF Build
    <3> QED
      BY <3>1, <3>2 DEF IngestInv
  <2> QED
    BY <2>2, <2>3
<1> QED
  BY <1>3, <1>4, <1>5

\* The two steps that prepare the temporary file move one process on and
\* change nothing else.
LEMMA PrepareInv ==
    ASSUME IInv, NEW p \in Ingesters, OpenTemporary(p) \/ WriteTemporary(p)
    PROVE  IInv'
<1> USE DEF IInv
<1>1. UNCHANGED <<directory, overlapped, load>>
  BY DEF OpenTemporary, WriteTemporary
<1> DEFINE i == ingest[p].file
           c == ingest[p].corpus
<1>2. Active(p) /\ i \in 1..3 /\ c \in Corpora
  BY IngestType DEF OpenTemporary, WriteTemporary, Active
<1>3. \/ ingest' = [ingest EXCEPT ![p] = At("write", i, c, Partial)]
      \/ ingest' = [ingest EXCEPT ![p] = At("replace", i, c, c)]
  BY DEF OpenTemporary, WriteTemporary
<1>4. TypeOK'
  BY <1>1, <1>2, <1>3 DEF TypeOK, At
<1>5. NothingPartialIsSeen'
  BY <1>1 DEF NothingPartialIsSeen
<1>6. \A q \in Ingesters :
        /\ Active(q)' <=> Active(q)
        /\ ingest'[q].file = ingest[q].file /\ ingest'[q].corpus = ingest[q].corpus
        /\ q # p => ingest'[q] = ingest[q]
  BY <1>2, <1>3 DEF TypeOK, Active, At
<1>7. ingest'[p].at = "replace" => ingest'[p].temporary = ingest'[p].corpus
  BY <1>3 DEF TypeOK, At
<1>8. IngestInv'
  BY <1>1, <1>6, <1>7 DEF IngestInv
<1> QED
  BY <1>4, <1>5, <1>8

\* Replacing puts a whole rendering at one path and leaves the others alone.
LEMMA ReplaceInv ==
    ASSUME IInv, NEW p \in Ingesters, Replace(p)
    PROVE  IInv'
<1> USE DEF IInv
<1> DEFINE i == ingest[p].file
           c == ingest[p].corpus
           new == Advanced(ingest[p])
<1>1. ingest[p] \in [at: {"replace"}, file: 1..3, corpus: Corpora, temporary: Corpora]
  BY IngestType DEF Replace
<1>2. i \in 1..3 /\ c \in Corpora /\ Active(p) /\ ingest[p].temporary = c
  BY <1>1 DEF Replace, Active, IngestInv
<1>3. /\ directory' = [directory EXCEPT ![Files[i]] = c]
      /\ ingest' = [ingest EXCEPT ![p] = new]
      /\ UNCHANGED <<overlapped, load>>
  BY <1>2 DEF Replace
<1>4. /\ i = 3 => new = Idle
      /\ i # 3 => /\ new \in [at: {"open"}, file: 1..3, corpus: Corpora,
                                temporary: {Absent}]
                  /\ new.file = i + 1 /\ new.corpus = c
  BY <1>1, AdvancedType
<1>5. TypeOK'
  BY <1>2, <1>3, <1>4, FilePaths DEF TypeOK, Contents
<1>6. directory'[Files[i]] = c /\ \A f \in Paths : f # Files[i] => directory'[f] = directory[f]
  BY <1>2, <1>3, FilePaths DEF TypeOK
<1>7. NothingPartialIsSeen'
  BY <1>2, <1>3, <1>6, FilePaths, ContentsAreDistinct DEF NothingPartialIsSeen
<1>8. IngestInv'
  <2> SUFFICES ASSUME NEW q \in Ingesters, Active(q)'
               PROVE  /\ ingest'[q].at = "replace" =>
                            ingest'[q].temporary = ingest'[q].corpus
                      /\ ~overlapped'[q] =>
                            /\ \A r \in Ingesters : Active(r)' => r = q
                            /\ \A k \in 1..3 :
                                k < ingest'[q].file =>
                                    directory'[Files[k]] = ingest'[q].corpus
    BY DEF IngestInv
  <2>1. \A r \in Ingesters : Active(r)' => Active(r)
    BY <1>2, <1>3 DEF TypeOK, Active
  <2>2. CASE q # p
    <3>1. ingest'[q] = ingest[q] /\ Active(q) /\ overlapped'[q] = overlapped[q]
      BY <1>3, <2>2 DEF TypeOK, Active
    <3>2. overlapped[q]
      BY <1>2, <2>2, <3>1 DEF IngestInv
    <3> QED
      BY <3>1, <3>2 DEF IngestInv
  <2>3. CASE q = p
    <3>1. ingest'[q] = new /\ i # 3
      BY <1>3, <1>4, <2>3 DEF TypeOK, Active, Idle, At
    <3>2. \A k \in 1..3 : k < i => directory'[Files[k]] = directory[Files[k]]
      BY <1>2, <1>6, FilePaths
    <3>3. ~overlapped[p] => \A k \in 1..3 : k < new.file => directory'[Files[k]] = c
      BY <1>2, <1>4, <1>6, <3>1, <3>2 DEF IngestInv
    <3>4. ~overlapped[p] => \A r \in Ingesters : Active(r)' => r = p
      BY <1>2, <2>1 DEF IngestInv
    <3> QED
      BY <1>3, <1>4, <2>3, <3>1, <3>3, <3>4
  <2> QED
    BY <2>2, <2>3
<1> QED
  BY <1>5, <1>7, <1>8

\* A process that dies leaves the files as they are.
LEMMA VanishInv ==
    ASSUME IInv, NEW p \in Ingesters, Vanish(p)
    PROVE  IInv'
<1> USE DEF IInv
<1>1. /\ ingest' = [ingest EXCEPT ![p] = Idle]
      /\ UNCHANGED <<directory, overlapped, load>>
  BY DEF Vanish
<1>2. TypeOK'
  BY <1>1 DEF TypeOK
<1>3. NothingPartialIsSeen'
  BY <1>1 DEF NothingPartialIsSeen
<1>4. \A q \in Ingesters : Active(q)' => Active(q) /\ ingest'[q] = ingest[q]
  BY <1>1 DEF TypeOK, Active, Idle, At
<1>5. IngestInv'
  BY <1>1, <1>4 DEF IngestInv
<1> QED
  BY <1>2, <1>3, <1>5

\* A program that loads changes no file.
LEMMA LoadStepInv ==
    ASSUME IInv, NEW l \in Loaders, LoadStep(l)
    PROVE  IInv'
<1> USE DEF IInv
<1>1. UNCHANGED <<directory, ingest, overlapped>>
  BY DEF LoadStep, Look, Read, Close
<1>2. directory["corpus.json"] \in Contents
  BY FilePaths DEF TypeOK
<1>3. load[l] \in [at: {"closed", "read"}, artifact: {Absent}]
                    \cup [at: {"loaded"}, artifact: Contents]
  BY DEF TypeOK
<1>4. TypeOK'
  <2>1. CASE Look(l)
    BY <1>1, <1>3, <2>1 DEF TypeOK, Look
  <2>2. CASE Read(l)
    BY <1>1, <1>2, <2>2 DEF TypeOK, Read
  <2>3. CASE Close(l)
    BY <1>1, <2>3 DEF TypeOK, Close
  <2> QED
    BY <2>1, <2>2, <2>3 DEF LoadStep
<1>5. NothingPartialIsSeen'
  <2>1. \A k \in Loaders : k # l => load'[k] = load[k]
    BY DEF LoadStep, Look, Read, Close, TypeOK
  <2>2. /\ load'[l].at = "read" => directory["corpus.json"] # Absent
        /\ load'[l].at = "loaded" => load'[l].artifact \in Corpora
    <3>1. CASE Look(l)
      BY <3>1 DEF TypeOK, Look
    <3>2. CASE Read(l)
      <4>1. directory["corpus.json"] # Absent /\ directory["corpus.json"] # Partial
        BY <3>2, FilePaths DEF Read, NothingPartialIsSeen
      <4> QED
        BY <1>2, <3>2, <4>1 DEF TypeOK, Read, Contents
    <3>3. CASE Close(l)
      BY <3>3 DEF TypeOK, Close
    <3> QED
      BY <3>1, <3>2, <3>3 DEF LoadStep
  <2> QED
    BY <1>1, <2>1, <2>2 DEF NothingPartialIsSeen
<1>6. IngestInv'
  BY <1>1 DEF IngestInv, Active
<1> QED
  BY <1>4, <1>5, <1>6

\* Every step keeps the invariant.
LEMMA NextInv == IInv /\ [Next]_vars => IInv'
<1> SUFFICES ASSUME IInv, [Next]_vars
             PROVE  IInv'
  OBVIOUS
<1>1. CASE \E p \in Ingesters : IngestStep(p)
  BY <1>1, BuildInv, PrepareInv, ReplaceInv, VanishInv DEF IngestStep
<1>2. CASE \E l \in Loaders : LoadStep(l)
  BY <1>2, LoadStepInv
<1>3. CASE UNCHANGED vars
  BY <1>3 DEF vars, IInv, TypeOK, NothingPartialIsSeen, IngestInv, Active
<1> QED
  BY <1>1, <1>2, <1>3 DEF Next

\* Types, wholeness and the progress of undisturbed ingests are inductive
\* together (persist_corpus, _atomic_write, load_corpus).
THEOREM IngestionInvariant == Spec => []IInv
  BY InitInv, NextInv, PTL DEF Spec

\* Every variable keeps its type (persist_corpus, load_corpus).
THEOREM TypeCorrect == Spec => []TypeOK
  BY IngestionInvariant, PTL DEF IInv

\* No program ever sees a partial artifact, or loses one it has found
\* (_atomic_write, load_corpus).
THEOREM NothingPartialIsEverSeen == Spec => []NothingPartialIsSeen
  BY IngestionInvariant, PTL DEF IInv

\* An ingest that ran alone leaves three files of one corpus, whatever it
\* found (persist_corpus).
THEOREM UndisturbedIngestsAlwaysAgree == Spec => UndisturbedIngestsAgree
<1>1. ASSUME IInv, NEW p \in Ingesters, Replace(p), ingest'[p] = Idle, ~overlapped[p]
      PROVE  FilesAgreeOn(ingest[p].corpus)
  <2> USE DEF IInv
  <2>1. ingest[p] \in [at: {"replace"}, file: 1..3, corpus: Corpora, temporary: Corpora]
    BY <1>1, IngestType DEF Replace
  <2>2. Advanced(ingest[p]) = Idle
    BY <1>1 DEF Replace, TypeOK
  <2>3. ingest[p].file = 3
    BY <2>1, <2>2, AdvancedType DEF Idle, At
  <2>4. directory' = [directory EXCEPT !["sha256.txt"] = ingest[p].corpus]
    BY <1>1, <2>3, FilePaths DEF Replace, IngestInv, Active
  <2>5. directory["corpus.json"] = ingest[p].corpus /\ directory["triples.jsonl"] = ingest[p].corpus
    <3>1. \A k \in 1..3 : k < 3 => directory[Files[k]] = ingest[p].corpus
      BY <1>1, <2>3 DEF IngestInv, Replace, Active
    <3> QED
      BY <3>1, FilePaths
  <2>6. directory \in [Paths -> Contents]
    BY <1>1 DEF TypeOK
  <2>7. /\ directory'["sha256.txt"] = ingest[p].corpus
        /\ directory'["corpus.json"] = directory["corpus.json"]
        /\ directory'["triples.jsonl"] = directory["triples.jsonl"]
    BY <2>4, <2>6, FilePaths
  <2> QED
    BY <2>5, <2>7, FilePaths DEF FilesAgreeOn
<1>2. IInv => \A p \in Ingesters :
                Replace(p) /\ ingest'[p] = Idle /\ ~overlapped[p]
                    => FilesAgreeOn(ingest[p].corpus)
  BY <1>1
<1> QED
  BY <1>2, IngestionInvariant, PTL DEF UndisturbedIngestsAgree

\* Those who load see one atomic register (load_corpus over _atomic_write).
THEOREM RegisterImplemented == Spec => LoadsAreOfARegister
<1> DEFINE held == [l \in Loaders |-> load[l].artifact]
<1>1. Init => Register!Init
  BY FilePaths DEF Init, Register!Init
<1>2. ASSUME IInv, [Next]_vars
      PROVE  [Register!Next]_(Register!vars)
  <2> USE DEF IInv
  <2>1. CASE UNCHANGED <<directory, load>>
    BY <2>1 DEF Register!vars
  <2>2. ASSUME NEW p \in Ingesters, Replace(p)
        PROVE  Register!Next \/ UNCHANGED Register!vars
    <3>1. UNCHANGED load /\ ingest[p].temporary \in Corpora /\ Files[ingest[p].file] \in Paths
      <4>1. ingest[p] \in [at: {"replace"}, file: 1..3, corpus: Corpora, temporary: Corpora]
        BY <1>2, <2>2, IngestType DEF Replace
      <4> QED
        BY <2>2, <4>1, FilePaths DEF Replace
    <3>2. directory' = [directory EXCEPT ![Files[ingest[p].file]] = ingest[p].temporary]
      BY <2>2 DEF Replace
    <3>3. CASE Files[ingest[p].file] = "corpus.json"
      <4>1. directory'["corpus.json"] = ingest[p].temporary
        BY <1>2, <3>1, <3>2, <3>3, FilePaths DEF TypeOK
      <4>2. UNCHANGED held
        BY <3>1
      <4>3. Register!Publish(ingest[p].temporary)
        BY <4>1, <4>2 DEF Register!Publish
      <4> QED
        BY <3>1, <4>3 DEF Register!Next
    <3>4. CASE Files[ingest[p].file] # "corpus.json"
      BY <1>2, <3>1, <3>2, <3>4, FilePaths DEF Register!vars, TypeOK
    <3> QED
      BY <3>3, <3>4
  <2>3. ASSUME NEW l \in Loaders, LoadStep(l)
        PROVE  Register!Next \/ UNCHANGED Register!vars
    <3>1. UNCHANGED directory
      BY <2>3 DEF LoadStep, Look, Read, Close
    <3>2. CASE Look(l)
      <4>1. \A k \in Loaders : load'[k].artifact = load[k].artifact
        BY <3>2 DEF TypeOK, Look
      <4> QED
        BY <3>1, <4>1 DEF Register!vars
    <3>3. CASE Read(l)
      <4>0. load \in [Loaders ->
                    [at: {"closed", "read"}, artifact: {Absent}]
                    \cup [at: {"loaded"}, artifact: Contents]]
        BY <1>2 DEF TypeOK
      <4>1. /\ load[l].artifact = Absent
            /\ directory["corpus.json"] # Absent
        BY <1>2, <3>3, <4>0 DEF Read, NothingPartialIsSeen
      <4>2. held' = [held EXCEPT ![l] = directory["corpus.json"]]
        BY ONLY <3>3, <4>0, l \in Loaders DEF Read
      <4>3. Register!Load(l)
        BY <3>1, <4>1, <4>2 DEF Register!Load
      <4> QED
        BY <4>3 DEF Register!Next
    <3>4. CASE Close(l)
      <4>0. load \in [Loaders ->
                    [at: {"closed", "read"}, artifact: {Absent}]
                    \cup [at: {"loaded"}, artifact: Contents]]
        BY <1>2 DEF TypeOK
      <4>1. held' = [held EXCEPT ![l] = Absent]
        BY ONLY <3>4, <4>0, l \in Loaders DEF Close
      <4>2. Register!Close(l)
        BY <3>1, <4>1 DEF Register!Close
      <4> QED
        BY <4>2 DEF Register!Next
    <3> QED
      BY <2>3, <3>2, <3>3, <3>4 DEF LoadStep
  <2>4. CASE \E p \in Ingesters : IngestStep(p)
    BY <2>1, <2>2, <2>4
       DEF IngestStep, Build, OpenTemporary, WriteTemporary, Vanish
  <2> QED
    BY <1>2, <2>1, <2>3, <2>4 DEF Next, vars
<1> QED
  BY <1>1, <1>2, IngestionInvariant, PTL DEF Spec, LoadsAreOfARegister, Register!Spec
==============================================================================
