------------------------------- MODULE Workflow -------------------------------
(***************************************************************************)
(* The bounded retrieval workflow (workflow.py) run by LangGraph.          *)
(*                                                                         *)
(* One action per node.  The engine works in supersteps: every node of     *)
(* "tasks" runs on the state the previous superstep left, the three        *)
(* retrievers in any order, their results kept in "writes" until all       *)
(* three are in.  A node's update of RetrievalState is its action's        *)
(* primed variables.                                                       *)
(*                                                                         *)
(* Evidence is named by its clause (evidence id "E-" + clause id).  A      *)
(* claim is the set of evidence ids it cites.  Texts, scores, prompts and  *)
(* timestamps are left out, and so are the state fields no node reads      *)
(* (reranked_results, evidence_requirements, conflict_reasons).            *)
(***************************************************************************)
EXTENDS ContractGraph, Fusion

CONSTANTS
    Contracts,        \* contract ids that are nodes of the graph
    Clauses,          \* clause ids of the corpus
    Suspicious,       \* clauses whose text carries instruction-like phrases
    Artifacts,        \* the triple sequences a run may be given
    LimitChoices,     \* the RunLimits a caller may configure
    Plans,            \* the retrieval plans the provider may return
    Queries,          \* retrieval queries
    LexicalRanking,   \* for every query, how BM25 orders the whole corpus
    VectorRanking,    \* for every query, how the vector retriever orders it
    Syntheses,        \* the claim sets the provider may synthesize
    None,             \* Python's None
    Model,            \* the answer the model synthesized
    Abstain           \* the analyst's decision to abstain

Retrievers == {"lexical_retrieve", "vector_retrieve", "graph_retrieve"}

Nodes == Retrievers \cup
    {"analyze_and_plan", "fuse_candidates", "rerank_candidates",
     "assess_evidence", "analyst_review", "reformulate_query",
     "synthesize_answer", "verify_citations", "finalize_insufficient",
     "finalize_trace"}

Requirements ==
    {"base_clause", "applicable_amendment", "supersession_path",
     "operative_clause", "source_provenance", "competing_evidence",
     "unresolved_precedence"}

\* What an invocation may raise.
Exceptions == {"ProviderError", "GraphLookupError", "GraphRecursionError"}

\* RunLimits, with its pydantic bounds.  local_retriever_timeout_ms is left
\* out: the injected fault always outlasts it or is caught up with.
RunLimits ==
    [max_retrieval_iterations: 1..2, max_graph_depth: 1..3,
     max_candidates_per_retriever: 1..20, max_fused_candidates: 1..15,
     max_evidence_items: 1..6, max_model_calls: 2..3, recursion_limit: 10..50]

ASSUME ClausesAssumption == Clauses \subseteq Nat /\ Suspicious \subseteq Clauses
ASSUME MarkersAssumption ==
    /\ None \notin Clauses /\ Abstain \notin Clauses /\ Model \notin Clauses
    /\ None # Abstain /\ None # Model /\ None \notin Exceptions
ASSUME LimitsAssumption == LimitChoices \subseteq RunLimits
\* A search ranks every clause, also those that share no token with the query.
ASSUME RankingAssumption ==
    \A q \in Queries :
        /\ LexicalRanking[q] \in Seq(Clauses) /\ VectorRanking[q] \in Seq(Clauses)
        /\ \A c \in Clauses : /\ \E i \in DOMAIN LexicalRanking[q] :
                                    LexicalRanking[q][i] = c
                              /\ \E i \in DOMAIN VectorRanking[q] :
                                    VectorRanking[q][i] = c
ASSUME PlansAssumption ==
    \A p \in Plans : p.retrieval_query \in Queries

VARIABLES
    \* what the run was started with
    limits, vector_timeout, triples,
    \* the engine
    phase,            \* "running", "interrupted", "done" or "raised"
    tasks,            \* the nodes of the current superstep
    writes,           \* what the retrievers that have finished will write
    step, stop,       \* the superstep number and the last one allowed
    decision,         \* the payload of Command(resume=...), or None
    error_type,       \* the exception that ended the invocation, or None
    \* RetrievalState
    plan, retrieval_query, lexical_results, vector_results, graph_results,
    graph_paths, fused_candidates, selected_evidence, evidence_sufficient,
    insufficiency_reasons, review_required, iteration, model_calls,
    provider_calls, claims, citations, answer, status, review_decision,
    degraded_components, errors, trace_events

config == <<limits, vector_timeout, triples>>
engine == <<phase, tasks, writes, step, stop, decision, error_type>>
retrieval == <<lexical_results, vector_results, graph_results, graph_paths>>
assessment == <<selected_evidence, evidence_sufficient,
                insufficiency_reasons, review_required>>
planning == <<plan, retrieval_query, iteration, model_calls, provider_calls>>
answering == <<claims, citations, answer, status, review_decision>>
record == <<degraded_components, errors, trace_events>>
vars == <<config, engine, retrieval, fused_candidates, assessment, planning,
          answering, record>>

------------------------------------------------------------------------------

Init ==
    /\ limits \in LimitChoices
    /\ vector_timeout \in BOOLEAN
    /\ triples \in Artifacts
    /\ phase = "running" /\ tasks = {"analyze_and_plan"} /\ writes = <<>>
    /\ step = 1 /\ stop = limits.recursion_limit
    /\ decision = None /\ error_type = None
    /\ plan = None /\ retrieval_query = None
    /\ lexical_results = {} /\ vector_results = {}
    /\ graph_results = {} /\ graph_paths = {} /\ fused_candidates = {}
    /\ selected_evidence = {} /\ evidence_sufficient = FALSE
    /\ insufficiency_reasons = {} /\ review_required = FALSE
    /\ iteration = 0 /\ model_calls = 0 /\ provider_calls = <<>>
    /\ claims = {} /\ citations = {} /\ answer = None
    /\ status = "running" /\ review_decision = None
    /\ degraded_components = {} /\ errors = {} /\ trace_events = <<>>

\* Node n may run in this superstep.
Runs(n) == phase = "running" /\ step <= stop /\ n \in tasks

\* The superstep ends and the nodes of next are scheduled.
Schedule(next) ==
    /\ tasks' = next
    /\ step' = step + 1
    /\ UNCHANGED <<phase, writes, stop, decision, error_type>>

Event(node, event_type, i) ==
    [node |-> node, event_type |-> event_type, iteration |-> i]

\* Fault: the trace channel is overwritten instead of concatenated.
TraceOverwritten(events) == trace_events' = events

Trace(events) == trace_events' = trace_events \o events

------------------------------------------------------------------------------

AnalyzeAndPlan ==
    /\ Runs("analyze_and_plan")
    /\ \E p \in Plans : plan' = p /\ retrieval_query' = p.retrieval_query
    /\ iteration' = 1
    /\ model_calls' = model_calls + 1
    /\ provider_calls' = Append(provider_calls, "analyze_and_plan")
    /\ Trace(<<Event("analyze_and_plan", "model_call", 1)>>)
    /\ Schedule(Retrievers)
    /\ UNCHANGED <<config, retrieval, fused_candidates, assessment, answering,
                   degraded_components, errors>>

\* The results of a ranked search: the first max_candidates of the ranking.
Search(ranking) ==
    {[clause_id |-> ranking[i], rank |-> i] :
        i \in {j \in DOMAIN ranking : j <= limits.max_candidates_per_retriever}}

\* A retriever of the fan-out finishes: its update waits for its siblings.
Finishes(node, update) ==
    /\ Runs(node)
    /\ node \notin DOMAIN writes
    /\ writes' = [n \in DOMAIN writes \cup {node} |->
                    IF n = node THEN update ELSE writes[n]]
    /\ UNCHANGED <<config, phase, tasks, step, stop, decision, error_type,
                   retrieval, fused_candidates, assessment, planning,
                   answering, record>>

LexicalRetrieve ==
    Finishes("lexical_retrieve",
             [results |-> Search(LexicalRanking[retrieval_query]), paths |-> {},
              degraded |-> {}, event_type |-> "retrieval_completed"])

VectorRetrieve ==
    Finishes("vector_retrieve",
             [results |-> Search(VectorRanking[retrieval_query]), paths |-> {},
              degraded |-> {}, event_type |-> "retrieval_completed"])

\* The injected delay outlasts the deadline.  (VectorRetrieve stays possible
\* under the fault: a waiter that is woken late finds the future finished.)
VectorTimesOut ==
    /\ vector_timeout
    /\ Finishes("vector_retrieve",
                [results |-> {}, paths |-> {},
                 degraded |-> {"vector_retrieval_timeout"},
                 event_type |-> "retrieval_timeout"])

\* The checks of AmendmentResolutionRequest and of the graph operation the
\* plan's intent selects.  The conflict branch never looks at the contract or
\* the depth; both branches fail on an id that is not a clause.
GraphLookupFails ==
    \/ plan.base_clause_id \notin Clauses
    \/ /\ plan.intent = Conflict
       /\ ~ ConflictTargets(triples, plan.base_clause_id,
                            limits.max_candidates_per_retriever) \subseteq Clauses
    \/ /\ plan.intent # Conflict
       /\ \/ plan.contract_id \notin Contracts
          \/ limits.max_graph_depth < 3
          \/ OperativeClause(triples, plan.contract_id, plan.base_clause_id,
                limits.max_candidates_per_retriever) \notin Clauses

\* The base clause and the clauses it conflicts with, ranked as traversed.
ConflictUpdate ==
    LET base == plan.base_clause_id
        bound == limits.max_candidates_per_retriever
    IN  [results |->
            {[clause_id |-> base, rank |-> 1]} \cup
            {[clause_id |-> o, rank |-> 1 + ConflictRank(triples, base, o)] :
                o \in ConflictTargets(triples, base, bound)},
         paths |-> ConflictPath(triples, base, bound),
         degraded |-> {}, event_type |-> "retrieval_completed"]

AmendmentUpdate ==
    LET bound == limits.max_candidates_per_retriever
    IN  [results |->
            {[clause_id |-> OperativeClause(triples, plan.contract_id,
                                            plan.base_clause_id, bound),
              rank |-> 1]},
         paths |-> OperativePath(triples, plan.contract_id,
                                 plan.base_clause_id, bound),
         degraded |-> {}, event_type |-> "retrieval_completed"]

GraphRetrieve ==
    /\ tasks = Retrievers /\ ~ GraphLookupFails
    /\ Finishes("graph_retrieve",
                IF plan.intent = Conflict THEN ConflictUpdate ELSE AmendmentUpdate)

\* All three retrievers are done: their updates are applied together, in the
\* order of the node names, and the waiting edge to fuse_candidates fires.
FanIn ==
    /\ phase = "running" /\ step <= stop
    /\ tasks = Retrievers /\ DOMAIN writes = Retrievers
    /\ lexical_results' = writes["lexical_retrieve"].results
    /\ vector_results' = writes["vector_retrieve"].results
    /\ graph_results' = writes["graph_retrieve"].results
    /\ graph_paths' = writes["graph_retrieve"].paths
    /\ degraded_components' =
          degraded_components \cup writes["vector_retrieve"].degraded
    /\ LET event(n) == Event(n, writes[n].event_type, iteration)
       IN  Trace(<<event("graph_retrieve"), event("lexical_retrieve"),
                   event("vector_retrieve")>>)
    /\ writes' = <<>>
    /\ tasks' = {"fuse_candidates"} /\ step' = step + 1
    /\ UNCHANGED <<config, phase, stop, decision, error_type, fused_candidates,
                   assessment, planning, answering, errors>>

FuseCandidates ==
    /\ Runs("fuse_candidates")
    /\ fused_candidates' =
          ReciprocalRankFusion(lexical_results, vector_results, graph_results,
                               limits.max_fused_candidates)
    /\ Trace(<<Event("fuse_candidates", "rrf_completed", iteration)>>)
    /\ Schedule({"rerank_candidates"})
    /\ UNCHANGED <<config, retrieval, assessment, planning, answering,
                   degraded_components, errors>>

\* Fault: what was degraded before is forgotten.
RerankForgetsTimeouts ==
    /\ Runs("rerank_candidates")
    /\ degraded_components' = {"reranker_unavailable"}
    /\ Trace(<<Event("rerank_candidates", "reranker_degraded", iteration)>>)
    /\ Schedule({"assess_evidence"})
    /\ UNCHANGED <<config, retrieval, fused_candidates, assessment, planning,
                   answering, errors>>

\* The workflow builds its reranker without a scorer, so it always falls back
\* to the fused order.
RerankCandidates ==
    /\ Runs("rerank_candidates")
    /\ degraded_components' = degraded_components \cup {"reranker_unavailable"}
    /\ Trace(<<Event("rerank_candidates", "reranker_degraded", iteration)>>)
    /\ Schedule({"assess_evidence"})
    /\ UNCHANGED <<config, retrieval, fused_candidates, assessment, planning,
                   answering, errors>>

------------------------------------------------------------------------------

\* What the evidence contract finds satisfied.
Satisfied ==
    LET predicates == {s.predicate : s \in graph_paths}
        base == plan.base_clause_id
    IN  {r \in Requirements :
          CASE r = "base_clause" ->
                 \E x \in lexical_results \cup vector_results : x.clause_id = base
            [] r = "applicable_amendment" -> "AMENDS" \in predicates
            [] r = "supersession_path" -> "SUPERSEDES" \in predicates
            [] r = "operative_clause" ->
                 \E x \in graph_results : x.clause_id # base
            [] r = "source_provenance" ->
                 /\ \A s \in graph_paths : s.source_clause_id \in Clauses
                 /\ graph_paths # {}
            [] r = "competing_evidence" ->
                 "CONFLICTS_WITH" \in predicates /\ Cardinality(graph_results) >= 2
            [] r = "unresolved_precedence" ->
                 /\ "CONFLICTS_WITH" \in predicates
                 /\ "SUPERSEDES" \notin predicates}

\* The base clause, the graph's results and the clauses its path rests on, in
\* id order, cut off at the evidence bound.
SelectEvidence ==
    LET wanted == {plan.base_clause_id}
                    \cup {x.clause_id : x \in graph_results}
                    \cup {s.source_clause_id : s \in graph_paths}
        known == wanted \cap Clauses
    IN  {c \in known : Cardinality({d \in known : d < c}) < limits.max_evidence_items}

\* The selected clauses whose text carries instruction-like phrases, and the
\* fault of looking at the selection of the pass before.
FlaggedBefore == selected_evidence \cap Suspicious

Flagged == SelectEvidence \cap Suspicious

\* Of its findings the event's clause ids are kept.
SuspicionEvent(clauses) ==
    [node |-> "assess_evidence", event_type |-> "suspicious_evidence_flagged",
     iteration |-> iteration, findings |-> clauses]

\* Faults: one iteration too many, an exhausted run that answers anyway, a
\* sufficient conflict that goes to the model.
RouteOnceMore(paused, sufficient) ==
    CASE paused -> "analyst_review"
      [] ~ paused /\ sufficient -> "synthesize_answer"
      [] ~ paused /\ ~ sufficient /\ iteration <= limits.max_retrieval_iterations ->
            "reformulate_query"
      [] OTHER -> "finalize_insufficient"

RouteExhaustedToAnswer(paused, sufficient) ==
    CASE paused -> "analyst_review"
      [] ~ paused /\ ~ sufficient /\ iteration < limits.max_retrieval_iterations ->
            "reformulate_query"
      [] OTHER -> "synthesize_answer"

RouteSufficientToAnswer(paused, sufficient) ==
    CASE sufficient -> "synthesize_answer"
      [] ~ sufficient /\ iteration < limits.max_retrieval_iterations ->
            "reformulate_query"
      [] OTHER -> "finalize_insufficient"

\* _route_after_assessment, on the state the assessment leaves.
RouteAfterAssessment(paused, sufficient) ==
    CASE paused -> "analyst_review"
      [] ~ paused /\ sufficient -> "synthesize_answer"
      [] ~ paused /\ ~ sufficient /\ iteration < limits.max_retrieval_iterations ->
            "reformulate_query"
      [] OTHER -> "finalize_insufficient"

AssessEvidence ==
    /\ Runs("assess_evidence")
    /\ LET missing == plan.required_evidence \ Satisfied
           sufficient == /\ missing = {}
                         /\ Cardinality(SelectEvidence) <= limits.max_evidence_items
           paused == /\ plan.intent = Conflict
                     /\ {"competing_evidence", "unresolved_precedence"}
                           \subseteq Satisfied
                     /\ sufficient
       IN  /\ selected_evidence' = SelectEvidence
           /\ evidence_sufficient' = sufficient
           /\ insufficiency_reasons' = missing
           /\ review_required' = paused
           /\ status' = IF paused THEN "review_required" ELSE status
           /\ Schedule({RouteAfterAssessment(paused, sufficient)})
    /\ Trace(<<Event("assess_evidence", "evidence_assessed", iteration)>> \o
             (IF Flagged = {} THEN <<>>
              ELSE <<SuspicionEvent(Flagged)>>))
    /\ UNCHANGED <<config, retrieval, fused_candidates, planning, claims,
                   citations, answer, review_decision, degraded_components, errors>>

\* interrupt(): the node is abandoned and the invocation returns.
Interrupt ==
    /\ Runs("analyst_review") /\ decision = None
    /\ phase' = "interrupted"
    /\ UNCHANGED <<config, tasks, writes, step, stop, decision, error_type,
                   retrieval, fused_candidates, assessment, planning,
                   answering, record>>

\* Fault: a resumed run keeps the step limit it started with.
ResumeWithOldLimit ==
    /\ phase = "interrupted"
    /\ decision' \in {Abstain} \cup selected_evidence
    /\ phase' = "running"
    /\ stop' = limits.recursion_limit
    /\ UNCHANGED <<config, tasks, writes, step, error_type, retrieval,
                   fused_candidates, assessment, planning, answering, record>>

\* Command(resume=...): the application has checked that a selection names
\* evidence of the packet.  The step limit counts from the checkpoint.
Resume ==
    /\ phase = "interrupted"
    /\ decision' \in {Abstain} \cup selected_evidence
    /\ phase' = "running"
    /\ stop' = step + limits.recursion_limit + 1
    /\ UNCHANGED <<config, tasks, writes, step, error_type, retrieval,
                   fused_candidates, assessment, planning, answering, record>>

AnalystAbstains ==
    /\ Runs("analyst_review") /\ decision = Abstain
    /\ review_decision' = Abstain
    /\ status' = "insufficient_evidence"
    /\ answer' = None /\ claims' = {} /\ citations' = {}
    /\ insufficiency_reasons' =
          {"competing_clause_language", "no_deterministic_precedence_path",
           "analyst_abstained"}
    /\ Trace(<<Event("analyst_review", "human_decision_recorded", iteration)>>)
    /\ Schedule({"finalize_trace"})
    /\ UNCHANGED <<config, retrieval, fused_candidates, selected_evidence,
                   evidence_sufficient, review_required, planning,
                   degraded_components, errors>>

\* Fault: the model words the answer the analyst selected.
AnalystSelectsAndModelWords ==
    /\ Runs("analyst_review") /\ decision \in selected_evidence
    /\ review_decision' = decision
    /\ selected_evidence' = {decision}
    /\ answer' = decision /\ claims' = {{decision}}
    /\ status' = "review_resolved"
    /\ Trace(<<Event("analyst_review", "human_decision_recorded", iteration)>>)
    /\ Schedule({"synthesize_answer"})
    /\ UNCHANGED <<config, retrieval, fused_candidates, evidence_sufficient,
                   insufficiency_reasons, review_required, planning, citations,
                   degraded_components, errors>>

AnalystSelects ==
    /\ Runs("analyst_review") /\ decision \in selected_evidence
    /\ review_decision' = decision
    /\ selected_evidence' = {decision}
    /\ answer' = decision /\ claims' = {{decision}}
    /\ status' = "review_resolved"
    /\ Trace(<<Event("analyst_review", "human_decision_recorded", iteration)>>)
    /\ Schedule({"verify_citations"})
    /\ UNCHANGED <<config, retrieval, fused_candidates, evidence_sufficient,
                   insufficiency_reasons, review_required, planning, citations,
                   degraded_components, errors>>

------------------------------------------------------------------------------

\* Fault: the recovery asks for a new plan.
Replanned ==
    /\ \E p \in Plans : plan' = p /\ retrieval_query' = p.retrieval_query
    /\ iteration' = iteration + 1
    /\ model_calls' = model_calls + 1
    /\ provider_calls' = Append(provider_calls, "reformulate")
    /\ Trace(<<Event("reformulate_query", "model_call", iteration + 1)>>)
    /\ UNCHANGED errors

Reformulated ==
    /\ \E q \in Queries : retrieval_query' = q
    /\ iteration' = iteration + 1
    /\ model_calls' = model_calls + 1
    /\ provider_calls' = Append(provider_calls, "reformulate")
    /\ Trace(<<Event("reformulate_query", "model_call", iteration + 1)>>)
    /\ UNCHANGED <<plan, errors>>

\* The limit branch goes back to the retrievers without counting an iteration.
ReformulateLimitReached ==
    /\ errors' = errors \cup {"model_call_limit_reached"}
    /\ Trace(<<Event("reformulate_query", "limit_reached", iteration)>>)
    /\ UNCHANGED planning

ReformulateQuery ==
    /\ Runs("reformulate_query")
    /\ IF model_calls < limits.max_model_calls
       THEN Reformulated
       ELSE ReformulateLimitReached
    /\ Schedule(Retrievers)
    /\ UNCHANGED <<config, retrieval, fused_candidates, assessment, answering,
                   degraded_components>>

SynthesizeAnswer ==
    /\ Runs("synthesize_answer")
    /\ model_calls < limits.max_model_calls
    /\ answer' = Model
    /\ claims' \in Syntheses
    /\ model_calls' = model_calls + 1
    /\ provider_calls' = Append(provider_calls, "synthesize")
    /\ Trace(<<Event("synthesize_answer", "model_call", iteration)>>)
    /\ Schedule({"verify_citations"})
    /\ UNCHANGED <<config, retrieval, fused_candidates, assessment, plan,
                   retrieval_query, iteration, citations, status,
                   review_decision, degraded_components, errors>>

SynthesizeLimitReached ==
    /\ Runs("synthesize_answer")
    /\ model_calls >= limits.max_model_calls
    /\ status' = "error"
    /\ errors' = errors \cup {"model_call_limit_reached"}
    /\ Trace(<<Event("synthesize_answer", "limit_reached", iteration)>>)
    /\ Schedule({"verify_citations"})
    /\ UNCHANGED <<config, retrieval, fused_candidates, assessment, planning,
                   claims, citations, answer, review_decision,
                   degraded_components>>

\* Fault: evidence ids that were never selected are not looked for.
OnlyUnsupported == IF {} \in claims THEN {"unsupported_claim"} ELSE {}

\* What is wrong with the claims, and the claim-evidence pairs that resolve.
CitationErrors ==
    (IF {} \in claims THEN {"unsupported_claim"} ELSE {}) \cup
    (IF UNION claims \subseteq selected_evidence THEN {} ELSE {"unknown_evidence"})

CitationsFound ==
    {pair \in claims \X selected_evidence : pair[2] \in pair[1]}

\* Fault: an answer with some citation is good enough.
SomethingCited == claims # {} /\ CitationsFound # {}

Verified == CitationErrors = {} /\ claims # {} /\ CitationsFound # {}

VerifyCitations ==
    /\ Runs("verify_citations")
    /\ citations' = CitationsFound
    /\ errors' = errors \cup CitationErrors
    /\ status' = IF Verified THEN "answered" ELSE "error"
    /\ Trace(<<Event("verify_citations", "citations_verified", iteration)>>)
    /\ Schedule({"finalize_trace"})
    /\ UNCHANGED <<config, retrieval, fused_candidates, assessment, planning,
                   claims, answer, review_decision, degraded_components>>

FinalizeInsufficient ==
    /\ Runs("finalize_insufficient")
    /\ status' = "insufficient_evidence"
    /\ answer' = None
    /\ Trace(<<Event("finalize_insufficient", "abstained", iteration)>>)
    /\ Schedule({"finalize_trace"})
    /\ UNCHANGED <<config, retrieval, fused_candidates, assessment, planning,
                   claims, citations, review_decision, degraded_components, errors>>

FinalizeTrace ==
    /\ Runs("finalize_trace")
    /\ Trace(<<Event("finalize_trace", "run_completed", iteration)>>)
    /\ Schedule({})
    /\ UNCHANGED <<config, retrieval, fused_candidates, assessment, planning,
                   answering, degraded_components, errors>>

------------------------------------------------------------------------------

\* The invocation ends with an exception: what the nodes of the superstep
\* would have written is lost.
Raise(type) ==
    /\ phase' = "raised"
    /\ error_type' = type
    /\ UNCHANGED <<config, tasks, writes, step, stop, decision, retrieval,
                   fused_candidates, assessment, planning, answering, record>>

\* The provider's reply is missing or does not validate.
ProviderFails ==
    /\ \/ Runs("analyze_and_plan")
       \/ Runs("reformulate_query") /\ model_calls < limits.max_model_calls
       \/ Runs("synthesize_answer") /\ model_calls < limits.max_model_calls
    /\ Raise("ProviderError")

\* Fault: the executor swallows the exception and the fan-in waits for ever.
GraphFailureSwallowed ==
    /\ Runs("graph_retrieve") /\ "graph_retrieve" \notin DOMAIN writes
    /\ GraphLookupFails
    /\ UNCHANGED vars

GraphRetrieveFails ==
    /\ Runs("graph_retrieve") /\ "graph_retrieve" \notin DOMAIN writes
    /\ GraphLookupFails
    /\ Raise("GraphLookupError")

\* LangGraph checks the step limit before it looks for work, the last time
\* after the final node.
OutOfSteps ==
    /\ phase = "running" /\ step > stop
    /\ Raise("GraphRecursionError")

Finish ==
    /\ phase = "running" /\ step <= stop /\ tasks = {}
    /\ phase' = "done"
    /\ UNCHANGED <<config, tasks, writes, step, stop, decision, error_type,
                   retrieval, fused_candidates, assessment, planning,
                   answering, record>>

\* What the engine does by itself; Resume is the application's call.
Invoke ==
    \/ AnalyzeAndPlan \/ LexicalRetrieve \/ VectorRetrieve \/ VectorTimesOut
    \/ GraphRetrieve \/ FanIn \/ FuseCandidates \/ RerankCandidates
    \/ AssessEvidence \/ Interrupt \/ AnalystAbstains \/ AnalystSelects
    \/ ReformulateQuery \/ SynthesizeAnswer \/ SynthesizeLimitReached
    \/ VerifyCitations \/ FinalizeInsufficient \/ FinalizeTrace
    \/ ProviderFails \/ GraphRetrieveFails \/ OutOfSteps \/ Finish

Next == Invoke \/ Resume

Spec == Init /\ [][Next]_vars

\* A started invocation is run to its end; nothing obliges an analyst.
FairSpec == Spec /\ WF_vars(Invoke)

------------------------------------------------------------------------------

\* The AnswerResult of an invocation: _answer_result of the state it returned,
\* or _error_result when it raised.
Result ==
    IF phase = "raised"
    THEN [status |-> "error", answer |-> None, claims |-> {}, citations |-> {},
          uncertainty_reasons |-> {"validated_boundary_error"},
          degraded_components |-> {}, evidence |-> {}, iterations |-> 0,
          model_calls |-> 0, provider_calls |-> <<>>,
          trace_events |-> <<Event("application_boundary", "validation_failed", 0)>>]
    ELSE [status |-> status, answer |-> answer, claims |-> claims,
          citations |-> citations,
          uncertainty_reasons |-> insufficiency_reasons \cup errors,
          degraded_components |-> degraded_components,
          evidence |-> selected_evidence, iterations |-> iteration,
          model_calls |-> model_calls, provider_calls |-> provider_calls,
          trace_events |-> trace_events]

\* The same, as the abstract specification of a run sees it.
Outcome ==
    CASE phase \in {"done", "raised"} ->
            [status |-> Result.status, answer |-> Result.answer,
             explained |-> Result.uncertainty_reasons # {}]
      [] phase = "interrupted" \/ (phase = "running" /\ decision # None) ->
            [status |-> "review_required", answer |-> None, explained |-> FALSE]
      [] OTHER -> None

Run == INSTANCE AbstractRun WITH
            outcome <- Outcome, accepted <- decision,
            Decisions <- Clauses \cup {Abstain}
==============================================================================
