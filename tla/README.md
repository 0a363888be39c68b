# A TLA+ verification of Enterprise AI Substrate

`src/contractgraph` answers questions about a contract corpus. One *run* is a
LangGraph workflow of thirteen nodes that plans with a model, searches the
corpus three ways, checks a typed graph of amendments and conflicts, and then
answers with citations, abstains, or pauses for an analyst. An *application
facade* records each run in SQLite, pauses it, and lets some later process
resume it from the checkpoint. Below them, `ingest` builds and replaces the
corpus artifact, a response cache is shared by all runs, a competency service
answers typed questions about the graph, a local retrieval stack fuses and
reranks, and `evaluate` measures retrieval variants against a golden set. This
directory models these parts, states what they promise, checks it with TLC on
small instances and proves all of it but liveness with TLAPS for every instance.

## Inventory

| part | source (`src/src/contractgraph/`) | state | operations |
|---|---|---|---|
| retrieval workflow | `workflow.py`, `models.py` | `RetrievalState` (one dict per thread) | the thirteen nodes, `_route_after_assessment`, `interrupt` |
| contract graph | `graph.py` | a NetworkX multigraph, read only after load | `resolve_operative_clause`, `conflicts_for_clause`, the competency queries |
| retrieval, fusion, reranking | `retrieval.py`, `reranking.py` | none | BM25 and vector rankings, reciprocal rank fusion, reranker fallback |
| providers and response cache | `providers.py`, `model_economics.py` | the `model_response_cache` table | `get`, `put`, the replay and live calls |
| application facade | `application.py` | none of its own but the open runtime | `run`, `get_review`, `resume_review` |
| trace repository | `persistence.py` | `agent_runs`, `trace_events`, `analyst_reviews` | every write is one statement or one transaction |
| checkpoint store | `persistence.py`, LangGraph's `SqliteSaver` | the interrupted thread | read and extended by the engine |
| ingestion and artifacts | `ingestion.py`, `artifacts.py`, `parser.py` | `corpus.json`, `triples.jsonl`, `sha256.txt` | build the corpus, replace one file after another, load |
| competency service | `competencies.py`, `comparison.py`, `graph.py` | the corpus it was constructed with | seven typed questions and the hero comparison |
| retrieval stack | `retrieval_stack.py`, `reranking.py`, `local_models.py` | the models that could be loaded | retrieve, fuse, rerank or fall back |
| evaluation | `evaluation.py` | the cases; two report files | load the golden set, answer every item five ways, classify, sum up, write |
| telemetry, command line, inspection | `telemetry.py`, `cli.py`, `inspection.py` | none that a later call reads | spans, argument parsing, printing |

**How they interact.** `run` inserts a row, invokes the workflow on a new
thread, stores the trace the result carries, and then either completes the row
or, when the workflow interrupted, stores a review packet. `resume_review`, in
any process, reads the packet, checks the selection, claims the review with a
conditional `UPDATE`, resumes the thread from the checkpoint, appends the *rest*
of the trace (an invocation returns the history of the whole thread), completes
the run's row and closes the review. The workflow calls the provider up to three
times, and the graph and the two rankings once a pass; recovery changes the query
and keeps the plan, so the graph answers the same in both passes. Everything
that answers questions loads `corpus.json` once and never sees a later ingest;
nothing but `ingest` reads or writes the other two files. The competency service
and the workflow share the graph; the evaluation uses the retrievers with a
fusion and a graph table of its own, not the workflow.

**What is hard.**
* *Ordering inside a run*: three retrievers in one superstep, an injected vector
  timeout, one of them raising; a recovery pass that runs the same nodes again
  over a state in which three keys are concatenated and all others overwritten.
* *Limits*: iterations, model calls, supersteps, candidates, evidence. They
  interact: the limit branch of `reformulate_query` counts nothing, and a resumed
  run counts supersteps anew.
* *The pause*: what was established before the interrupt must still be what the
  answer rests on after it.
* *Concurrent processes on one database*: several statements per operation, no
  lock between them, several analysts, a process that dies anywhere.
* *Replacing three files*: each replacement is atomic, the three are not, and two
  ingests may interleave theirs.
* *Order as meaning*: the greatest id stands for the latest amendment, the last
  of several sources wins an edge, the first test that holds names a failure.
* *Cut-offs*: answers of at most twenty results, candidates of at most *n*, some cut
  before they are sorted and some after.

**What makes each part correct.**
* *Workflow*: no budget is exceeded; a run always settles; an answer rests on a
  satisfied evidence contract and on evidence that was selected; an open
  conflict is an analyst's to decide; nothing degraded or suspicious goes
  unsaid; the trace accounts for every pass and call.
* *Graph*: the operative clause is the one no later amendment supersedes; every
  step names the clause it was read from; truncation is visible.
* *Application and trace repository*: the rows of a run agree at every commit,
  one decision is accepted, a published run has its whole trace, a failure is
  recorded.
* *Response cache*: a hit answers the caller's own request with something that
  validated, is free, and never turns into a miss.
* *Ingestion*: what lies at a path is whole; an undisturbed ingest leaves three
  files that agree; rebuilding yields the same artifact however the sources are
  listed; provenance is unique.
* *Competencies*: what is listed is so in the reviewed assertions and nothing
  below the bound is left out; the operative clause is current.
* *Fusion and reranking*: no clause is ranked above one that is better
  everywhere; a fallback keeps the fused order and says so.
* *Evaluation*: classes and figures mean what they say; the exit code is the
  verdict of the report that was written.

`PROJECT.json` lists every one of these hazards at its line, with the properties
aimed at it, and the components that are not modelled.

## Modules

| module | what it is |
|---|---|
| `Outcomes` | how a run can end, as far as the application can tell |
| `ContractGraph` | `graph.py`: the two graph operations a run uses, with NetworkX's edge keys and neighbour order |
| `Fusion` | reciprocal rank fusion with exact sums |
| `Workflow` | `workflow.py`: one action per node, the superstep engine around them |
| `AbstractRun` | the abstract specification of a run: settles once, decided once, and the decision alone fixes the end |
| `WorkflowProperties` | invariants, action and liveness properties, and the inductive invariant |
| `MCWorkflow` | a corpus of four clauses, five graphs, eight plans |
| `WorkflowProofs` | its proofs: the invariant, the trace and what it discloses, the promises of `AbstractRun` |
| `Application` | `application.py` over `persistence.py`: a process per call, an action per committed statement |
| `ReviewProtocol` | the abstract specification of the rows: published once, one decision, review closed last |
| `ApplicationProperties`, `ApplicationProofs` | as above |
| `ResponseCache`, `ResponseCacheProperties`, `ResponseCacheProofs`, `MCResponseCache` | `providers.py` and `model_economics.py`: calls racing over the shared response cache |
| `Ingestion`, `IngestionProperties`, `IngestionProofs` | `persist_corpus` and `load_corpus`: processes that replace the three files step by step, programs that load |
| `CorpusRegister` | the abstract specification of the artifact: one register of whole corpora |
| `Corpus` | `parser.py` and `build_corpus` as operators: parsing order, page assignment, validation, canonical order |
| `CorpusBuild` | authors rearrange the sources and rebuild |
| `GraphQueries` | the typed graph operations beyond those of the workflow |
| `Competencies`, `CompetenciesProperties`, `MCCompetencies` | `competencies.py` and the hero comparison over the corpus `CorpusBuild` built |
| `CompetenciesProofs` | the proofs about sorting, the corpus, its builds, the graph and the answers |
| `RetrievalStack`, `RetrievalStackProperties`, `RetrievalStackProofs` | `retrieval_stack.py` and `reranking.py`: missing and failing models |
| `Evaluation`, `EvaluationProperties`, `EvaluationProofs`, `MCEvaluation` | `evaluation.py` and the `evaluate` command |
| `FiniteOrders` | what `sorted` makes of a finite set |
| `FiniteProofs` | lemmas: finite orders, folds, sums, products and prefixes |

`Workflow` extends `ContractGraph` and `Fusion` and instantiates `AbstractRun`;
`Application` extends `Outcomes`: the workflow enters it as the set of outcomes
`AbstractRun` allows, which `Workflow` is proved to keep. `Ingestion` instantiates
`CorpusRegister`. `Competencies` composes `CorpusBuild` with `GraphQueries`, which
extends `ContractGraph`: between questions authors rearrange the sources and build
again, and a question is only ever asked of a corpus ingestion accepted. `RetrievalStack`
and `Evaluation` extend `Fusion`; `Corpus` and `Evaluation` extend `FiniteOrders`.

### Workflow and the code

A node is an action: its guard is `Runs("<node>")` (the node is in the current
superstep), its primed variables are the keys of the dict the Python function
returns, `Schedule` is the edge leaving it. `lexical_retrieve`,
`vector_retrieve` and `graph_retrieve` put their update in `writes`; `FanIn`
applies all three at once, which is what the engine does with the writes of a
superstep. If one raises, nothing is applied. `Interrupt` leaves the node in
`tasks`; `Resume` is the application's `Command(resume=...)`, restricted to the
decisions the facade lets through. `OutOfSteps` is LangGraph's recursion limit,
tested before the engine looks for work (so once more after the last node) and
counted from the checkpoint after a resume: the resumed limit is the completed
step plus `recursion_limit` plus two. These rules are library behaviour and
are marked external.

`Result` is `_answer_result`, or `_error_result` when the invocation raised.

Abstracted: the text of questions, clauses, prompts and answers (an answer is
the model's, or a clause's text, or none); scores and timings; evidence is named
by its clause; a claim is the set of ids it cites. A provider returns any plan,
query or claim set of the constants, or fails. BM25 and vector search are
arbitrary rankings of the *whole* corpus, since both return clauses of score
zero too: a clause is missed only when `max_candidates_per_retriever` is
smaller than the corpus. State keys that no node reads (`reranked_results`,
`evidence_requirements`, `conflict_reasons`) are left out. The fused order is
computed, but no node selects evidence from it.

### Application and the code

Every process is one call of `run` or `resume_review`. A label of `pc` names the
next statement; between any two labels other processes may commit. `CountEvents`
and `InsertEvents` are the two statements of `append_events`, `BeginMatches` the
`WHERE` clause of `begin_review_resolution`, `PauseForReview` one transaction of
two statements. `Vanish` is a killed process or an exception such as a locked
database. The contents of trace events are tokens: what counts here is how many
there are, which decision they name and under which number they are stored (an
error result's single event is represented like any other unpaused trace).

### ResponseCache and the code

A call is one `analyze_and_plan`, `reformulate` or `synthesize` by any process,
with its own configuration: replay or live, cache on or off, higher reasoning
allowed or not, its input, evidence, corpus digest and fixture. `RoutedModel`
is the router, `Key` the material that is hashed (the prompt and response schema
are determined by the operation, the policy is one constant, and hashing is
taken to be injective), `Fold` the case-folding of `normalized_json`. `Hit` and
`Miss` are the `SELECT`, `Put` the committed `INSERT OR REPLACE`. The order
differs between the providers and is kept: replay stores and then validates,
live validates and then stores. Any call may vanish at any of its steps. A reply
reports its usage, has none, or has one that `int` refuses (`Usages`): without
usage every count is 0 and so is the estimate (`PricedUsage`); a malformed one
raises after the answer has been stored (`Accounted`).

### Ingestion and the code

An ingest replaces file 1, 2 and 3 in turn: `OpenTemporary`, `WriteTemporary` (text is
flushed, or only part of it) and `Replace` are the three steps of
`_atomic_write`, and it may be killed before any of them. A file's content is the
corpus it was rendered from. `load_corpus` is two steps, since it asks whether
`corpus.json` exists before it opens it. `overlapped` remembers whether another
ingest ran during this one. Power loss (nothing is `fsync`ed) is left out, and so
are left-over temporary files, which have unique names and are never read.

### Corpus, CorpusBuild and the code

A document is the sequence of its page markers and clauses; `PageNumber` is the
page of the last marker before a clause. `BuildCorpus` is the whole of
`build_corpus`: paths sorted, documents parsed, lists put in canonical order,
vocabulary, names and duplicates checked; every error is `Rejected`. Pages and
chunks are derived from documents and clauses, so a page or chunk twice means a
document or clause twice. In `CorpusBuild` authors exchange entries of the
manifest, the entities or the assertions and build again; TLC exchanges only in
lists of at most `MaxListed` entries, which is a bound of the instance.

### GraphQueries, Competencies and the code

One action per question of the service, each atomic: the service reads a corpus
that nobody changes. Edges are keyed by subject, object and predicate and later
triples replace their attributes (`EdgeSource`); neighbours are traversed in the
order in which they were first joined (`FirstJoin`). Sorted tuples that are cut off
are sets whose least elements are kept. Bounds out of range, which only raise
`ValueError`, are left out.

### RetrievalStack and the code

`Retrieve` takes any two rankings and the caller's graph results, which come from a
retriever and so have ranks from 1 to the limit, in any order and repeated or not.
`Fuse` takes any order exact sums allow: with three or more terms rounding can separate
equal sums, so such ties are left open. Different sums it cannot reverse where one
clause dominates another: rounded addition is monotone, and up to rank 20 the
reciprocals of neighbouring ranks differ by more than 1/6400. A sentence transformer
may fail to encode (`EmbeddingFails`): the search raises and there is no outcome. The
cross-encoder answers any scores, one per pair, is missing (`__init__`) or fails
during the search (`Degrade`).

### Evaluation and the code

`Load` is `load_golden_set`, `EvaluateItem` one round of `evaluate` for all five
variants, `Summarise` the report in memory with its criteria, `Truncate` and `Fill`
the two effects of each `write_text`. The rankings are arbitrary and so is the row
of the graph table a question matches; MRR, nDCG, latency, tokens, cost and
wording are left out. A retriever names a clause once, the vector search ranks at
least one, and a case keeps at most the fifteen candidates that `_rrf` keeps. The table
names clause ids in the source text: a row one of whose clauses the corpus lacks ends
the command with a `KeyError` (`MissGraphClause`), and the other rows are
`KnownAnswers`. What the directory held before is one value: nothing in the command
depends on it.

### Fault operators

Some modules hold operators marked `Fault`. They are never used by a
specification: each states a plausible mistake in the definition that follows
it, and substituting it must make the property it is paired with in
`PROJECT.json` fail. They show that the properties say something about the code.

## Runs

`tlc -config <cfg> <module>` in this directory. `workflow_safety` takes about three
minutes with two workers, `evaluation_report` one, the others less than half of one. Deadlock is
not checked where calls or commands end and then nothing is enabled (workflow,
application, cache, evaluation); it is checked where authors, ingests, questions and
searches go on for ever.

| run | asks | instance |
|---|---|---|
| `workflow_safety` | budgets, step limit, grounding, evidence contract, open conflicts, disclosed timeouts and suspicious clauses, the trace, what a resume needs, that every invocation settles, the promises of `AbstractRun`, and the inductive invariant | all five graphs, eight plans, 144 limit records at the boundaries of each limit |
| `application_safety` | the rows agree at every commit, the statements implement `ReviewProtocol`, an accepted review is carried through | a runner and three resumers, any of which may vanish |
| `cache_safety` | hits answer the caller's own request, only malformed fixtures poison an entry, costs are honest, an answered request is not sent again, the inductive invariant | three calls in any of 13 configurations, replies with and without usage, any call may vanish; 1.7 million states |
| `ingestion_safety` | the inductive invariant with wholeness, agreement after an undisturbed ingest, the register | two ingests of two corpora that overlap and may be killed, two programs that load |
| `corpus_answers` | provenance is unique, clauses are in reading order, rebuilding agrees; every step of a path is a reviewed assertion, answers match the corpus, operative language is current | two files, seven texts with every defect of the parser, up to three assertions, every order; and 2,046 choices of assertions about the documents of two contracts, two results at most |
| `retrieval_stack` | reranking is inspectable, degradation visible, no dominated clause above | three clauses and an unknown one, all rankings and scores, a missing or failing model, two candidates at most |
| `evaluation_report` | graph evidence leads, classes and figures mean what they say, the exit code is the verdict | seven golden sets of five questions over four clauses, six outcomes of retrieval per question, one of which names a missing clause, a kill at every step |
| `workflow_superseded_conflict`, `workflow_packet`, `workflow_economics`, `application_silent_failure`, `evaluation_unresolved_conflict` | five statements of the documentation, each violated (below) | default limits, or the smallest that show it |

**Why the bounds are enough.** The code knows two passes at most
(`max_retrieval_iterations` is 1 or 2) and three model calls, so the runs cover
these limits exhaustively. Recovery takes 14 supersteps; the limits 10, 13 and
14 are the smallest allowed one and both sides of that boundary. Candidate bounds 1 and
2 truncate the rankings and the traversals, 4 truncates nothing; evidence bounds 1 and 3 truncate or do
not. Three resumers are one that wins, one that loses and one that arrives
when the review is closed. Two ingests are enough to collide, and a third ingest of either
process follows a dead one. A bound of two results cuts off answers of three,
equals answers of two and exceeds answers of one, which is all that twenty does. Five
questions are one of each category a class or a criterion tells apart. Lists of three
entries (`MaxListed`) have every order of two that collide and one between them. For the
properties that are proved the bounds do not matter.

**Fairness.** `Workflow!FairSpec` has weak fairness of the engine's own steps: a
caller waits in `invoke` until it returns. `Resume` is not fair: nothing obliges
an analyst to decide, and no property promises it. `Application!FairSpec` has
weak fairness of every process's next statement; a process may still vanish at
any of them, and the code has no recovery for one that dies between
`begin_review_resolution` and `complete_review`: the review stays `resuming`. So
`AcceptedReviewsClose` promises a closed review unless that very process vanished;
nobody else's death or delay can hold it up. The other modules have no fairness
and no liveness property.

## What the runs show

Everything below holds in the code except the findings and the limits named
after them.

* No path through recovery exceeds the model calls or iterations configured,
  and the uncounted branch of `reformulate_query` is unreachable, for every
  combination of limits the configuration accepts.
* The step limit never cuts off a resumed review, nor anything but a recovery
  configured with less than 14 steps.
* An answered run satisfied its evidence contract and cites selected evidence
  only, also when a retriever timed out, evidence was truncated or the run was
  resumed. A conflict that the graph leaves open is answered by the analyst's
  clause or not at all.
* A timeout of the first pass stays disclosed when the second succeeds; every
  suspicious clause handed out is named by a flag of the very pass that chose it, so
  a flag of the other pass never stands in for it.
* A resumed run calls no model and no retriever and cannot fail, so it does not
  matter that `run` replaces the provider and the workflow of the application
  object (`application.py:71`) or that another process resumes it on a newer
  corpus. (Threads cannot share the object: its SQLite connection refuses them.)
* Of two analysts one wins, the decision stored is that one's, and a published
  run's stored trace is exactly that of the published result, wherever a process
  dies.
* Calls that miss the same key together all ask the model and the last one's
  answer stays, but a call that starts after one of them has returned is served
  from the cache, with an answer to its own request. Nothing a model replies
  is stored unvalidated; a malformed replay fixture is, and then fails every
  later call with that key, live ones included, since the key does not name the
  provider.
* A call that sent a request says what it cost or that this is unknown, one that sent
  none is free, and whatever a hit returns some other call obtained from the model or a
  fixture. One case is excepted, a reply without usage (below).
* Whoever loads the corpus gets a whole one, published at one instant of the load,
  and an ingest that runs alone repairs whatever dead or overlapping ones left.
* The artifact does not depend on the order in which sources list anything.
* The clause returned as operative is the base clause or supersedes it, and is
  current if the reviewed assertions hold every supersession of a clause with
  increasing ids and the bound does not cut the candidates (`WellReviewed`).
* Rounding never puts a clause above one that is at least as good in every list
  and better in one, if neither list repeats it.
* The weight 2.5 of the evaluation puts whatever the graph table names above
  everything the retrievers agree on: 5/76 > 4/61, so even the sixteenth place of
  the graph outweighs two first places.
* Every class of a case is true of what the case retrieved, claims and rests on, but
  for the one in the last finding.

**Findings** (each with a run that exhibits it):

1. *Superseded conflicts pause all the same.* The conflict branch of
   `graph_retrieve` returns `CONFLICTS_WITH` steps only, so
   `unresolved_precedence` is satisfied by every conflict (`workflow.py:298`;
   `CONTEXT.md:25` says superseded conflicts resolve automatically).
2. *A packet can lack one side of the conflict.* Evidence is truncated before its
   number is compared with the bound (`workflow.py:725`; `README.md:25`).
3. *Calls of a failed invocation are not billed.* `_error_result` reports none
   (`application.py:307`; `README.md:49`).
4. *A synthesis without claims makes `run` raise* `IndexError` before anything is
   stored (`application.py:158`; ADR 0002 says failures are visible in traces).
5. *An unresolved conflict need not have been retrieved.* `_classify` gives the class to
   every answered conflict question of a variant without the graph before it looks at
   what was retrieved (`evaluation.py:519`), while its description says that the
   "conflicting old and new clauses were retrieved" (`evaluation.py:84-87`). All
   such cases of the committed `reports/ablation.json` did retrieve both.

**Limits of what was promised** (stronger statements that TLC refutes and that the
properties therefore condition on):

* Only clauses with a `SUPERSEDES` edge to the base clause itself are candidates
  (`graph.py:84`): if a second amendment supersedes the first one's clause only, the
  replaced clause is returned. Hence `WellReviewed`.
* An obligation with two triggers is found by the event whose edge comes first
  (`graph.py:142`). Hence the condition on triggers in `AnswersMatchTheCorpus`.
* Every `REFERENCES` target of the creating clause is listed as a policy
  (`graph.py:149`), a missing-reference sentinel too.
* A missing-reference sentinel beyond the first twenty references is not reported, and
  `shared_service_type` is set when any one of the compared contracts covers a
  service.
* Two ingests that overlap and both return can leave the digest of one beside the
  corpus of the other. Hence `overlapped` in `UndisturbedIngestsAgree`.
* A reply without usage counts as one of no tokens, so a request that was sent and
  billed is recorded at 0.0 (`providers.py:361`). Hence the exception in
  `CostsAreHonest`. One with a malformed usage stores its answer and then raises: its
  cost is never recorded, and later hits of the answer are free.
* Ids are unique among clauses, pages, chunks, documents and entities, not across
  them (`ingestion.py:135-139`), and `ProvenanceIsUnique` claims no more.
* Three criteria of the evaluation cannot fail on account of retrieval: claims are
  always cited, the identity reranker is always disclosed, and the negative
  question abstains exactly when its own label says so (`evaluation.py:304`).

## Proofs

`tlapm <module>` for `WorkflowProofs`, `ApplicationProofs`, `ResponseCacheProofs`,
`IngestionProofs`, `CompetenciesProofs`, `RetrievalStackProofs`, `EvaluationProofs` and
`FiniteProofs`. The theorems hold for every value of the constants under the
assumptions of the modules:

* *Workflow*: clause ids are numbers; the markers `None`, `Model` and `Abstain` are
  distinct from them and each other; limits are within the bounds of
  `RunLimits`; a ranking holds every clause; a plan's query is a query.
* *Application*: `Unknown` is no evidence and the runner does not resume.
* *ResponseCache*: configurations are well formed; `None` is neither an answer, an
  entry nor a usage.
* *Ingestion*: no corpus is `Absent` or `Partial`.
* *CorpusBuild* (`SourcesAreTyped`): the sources are what the JSON and Markdown files
  can hold, and different pages have different ids. `page_id` is
  `{document_id}:PAGE:{number:03d}`, so only document ids that contain `:PAGE:`
  could break it. The sources may still hold every defect `build_corpus` rejects.
  `MaxListed` is any number, so the theorems cover lists of any length.
* *Competencies*: both bounds are positive (20 and 6).
* *RetrievalStack*: ids and scores are numbers, the corpus is finite, the candidate
  limit is at most 20, which is what `LocalRetrievalStack` allows.
* *Evaluation*: as described above (`EvaluationAssumption`).

None restricts the corpus, the graph, the plans, the golden set, or the number of
resumers, calls, ingests, loaders and items.

*Workflow.* None of the safety properties is inductive. `StepLimitIsSpare` needs to
know that a node's superstep is fixed by its place and the pass:
`ScheduleInv` says that node *n* of pass *i* runs in superstep *k(n)* + 5(*i* − 1)
and that each pass before it cost one model call; budgets, affordability of the
recovery and the step limit follow. `AnsweringInv` says what the nodes that
build an answer rely on: claims exist only between synthesis (or selection) and
the end, the evidence contract was satisfied when the run left the assessment
and nothing that decides it changes afterwards, an open conflict never reaches
synthesis. `WorkflowInvariant` proves `IInv`, which is `TypeOK`, `ScheduleInv` and
`AnsweringInv` together, an action at a time. `ResumeNeedsOnlyTheCheckpoint` adds that a
decided run is at the review or behind it, with steps to spare.

*Disclosure.* The properties about the trace rest on an invariant over the
concatenated history: `WritesInv` and `TraceInv` relate the pending writes of a
superstep, the events of each retriever and each pass, the components marked
degraded and the flags. They do not mention the order in which the three
retrievers finish. `PassInv` says that the second pass sees the same plan and
graph results as the first, from which it can only make up for the base clause.

*Promises.* `PromisesImplemented` shows that every step of the workflow is a step of
`AbstractRun` or invisible to the caller. `PromiseInv` says how answer, errors,
reasons and decision fit each other at every node: nothing is answered before the
assessment, reasons are given exactly on the way to an abstention, what reaches
`verify_citations` is the model's answer, nothing, or the analyst's selection, and
the latter always verifies. Two facts carry it: the limit branch of
`reformulate_query` is unreachable, and the evidence bound cannot make evidence
insufficient (`SelectionFits`: the selection is cut off at the very bound it is
compared with), so an abstention always has a reason to give.

*Application.* `RowsMatchProcesses` ties each row to the place of the process that
wrote it last: up to its last statement the runner is alone with the rows; past
the compare-and-set a resumer has the review to itself; and the stage of the
review determines which trace is stored. With `TypeOK` it is inductive; row agreement,
the single winner and the whole trace are consequences, and so is that every
statement is a step of `ReviewProtocol` or stutters.

*Response cache.* `CacheAgrees` says that a call that has stored or was served
finds an entry under its key for good, that an entry was stored under the key of
the call that made it, that the maker of an entry asked the model or replays a
fixture, and what each call holds at each of its steps, the usage of its reply
included. All
checked properties, the action property `RepeatsHit` included, follow for any
number of calls, configurations and answers.

*Ingestion.* `IngestInv` says that a process about to replace a file holds its own
corpus in the temporary one, and that an ingest nothing has overlapped is alone
and has the files before the one it is at. With types and wholeness it is
inductive; that an undisturbed ingest leaves three agreeing files and that every
step maps to a step of `CorpusRegister` follow.

*Finite data.* `FiniteProofs` holds what the next three parts need of data of any
size. An induction over data is an argument by a least counterexample: the
smallest size of a set for which a claim fails exists because `<` on numbers is
well-founded, and taking one element away contradicts it. In this way a finite
strict order numbers its elements 0 to *n* − 1, so `InOrder` (what `sorted` is)
lists every element once and in order; folds over finite sets exist, so the
`SumFunction` and `ProductSet` of the community modules are what their names say.

*Corpus.* `BuildingKeeps` and `QuestionsAreAnswered` are the two halves of the
composition: what authors and builds do to the artifact, and what questions make of
it. Sorting by keys permutes a list, and two lists that differ only in the
order of their elements sort alike when their keys differ
(`SortedForgetsTheOrder`). Keys can be equal only where the build rejects the
sources, and it does so in every order. `BuildInv` (the artifact is what the
sources describe now) then gives `RebuildingAgrees`: an exchange of two entries of the
manifest, the entities or the assertions leaves `BuildCorpus` the same, rejection
included. Unique provenance follows from the counts the build
compares, reading order from the canonical order by document and place.

*Competencies.* `CompetenciesInv` is `BuildInv`, that nothing is answered before it is
asked, and that an answer is the one to the question asked of an accepted corpus. That every step is reviewed
follows from the last triple of an edge being a triple; completeness from every
member of a set of at most *n* having fewer than *n* before it; currency of the
operative clause from the visiting order of candidates being total, so
`Chosen` exists and is the greatest. The bound on exhibits is on the pairs of exhibit and
clause, because the code cuts off before it removes duplicates.

*Retrieval stack.* `StackInv` says that the fused candidates are different clauses
numbered by their place and that a finished search either reranked them or kept
them and gave the reason. For `DominatedNeverAbove` the exact sums are compared list by
list: with the product of all 60 + rank as denominator, a better rank is a strictly
greater integer share, and `FusedStands` says that the fused order is one that
rounding may produce from these sums.

*Evaluation.* `EvaluationInv` says that the cases of every variant are of the first
items of a valid golden set, that the report files are written in order and
that the verdict given is that of the cases. `GraphEvidenceLeads` rests on
5/76 > 4/61; the classes on the order of the tests in `_classify` and on what a case
without a graph path claims (that its clauses were retrieved is the fifth finding);
`ReportAddsUp` on sums over finite sets, where the cases of all categories are a
partition of the cases.

*Only model-checked.* The liveness properties `InvocationsSettle` and
`AcceptedReviewsClose`, and the fairness part of `KeepsItsPromise`: temporal reasoning
with fairness and `ENABLED` is beyond the prover. Every invariant and every other
action or refinement property of the passing runs is proved. `PromiseInv`, `StackInv`,
`EvaluationInv` and the other strengthenings were model-checked on the instances of
the runs before they were proved.

## Not modelled

Wording of texts, prompts, scores and embeddings (their results are arbitrary
members of small sets); telemetry (written, never read back by the program); the
command line's parsing and printing (its `ingest`, `evaluate` and `compare` commands
are the actions of `Ingestion`, `Evaluation` and `Competencies`); inspection, which
prints a loaded corpus. LangGraph's tables: a checkpoint is the interrupted
state. Durability across power loss.

## Plan

1. Workflow, graph operations, application, response cache and their proofs — done.
2. Ingestion, corpus construction, competency queries, retrieval stack, evaluation — done.
3. Disclosure and trace proofs, ingestion proofs — done.
4. Every step of `Workflow` maps to a step of `AbstractRun` — proved, except fairness.
5. Proofs about the corpus, the competency answers, the retrieval stack and the
   evaluation — done.
6. What is left: an abstract register of answers that the response cache implements,
   and how many candidates fusion keeps.
