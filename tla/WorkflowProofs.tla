---------------------------- MODULE WorkflowProofs ----------------------------
(***************************************************************************)
(* Proofs of the workflow's safety properties for every corpus, graph,     *)
(* plan and limit.                                                         *)
(***************************************************************************)
EXTENDS WorkflowProperties, FiniteSetTheorems, SequenceTheorems, TLAPS

\* The limits are within the bounds pydantic enforces.
LEMMA LimitFacts ==
    ASSUME NEW l \in RunLimits
    PROVE  /\ l.max_retrieval_iterations \in {1, 2}
           /\ l.max_model_calls \in {2, 3}
           /\ l.recursion_limit \in Nat
           /\ l.recursion_limit >= 10
BY DEF RunLimits

\* A model call appends one bill.
LEMMA BillFacts ==
    ASSUME NEW purpose \in Purposes, provider_calls \in Seq(Purposes),
           provider_calls' = Append(provider_calls, purpose)
    PROVE  /\ provider_calls' \in Seq(Purposes)
           /\ Len(provider_calls') = Len(provider_calls) + 1
BY AppendProperties

\* A ranked search returns clauses of the corpus.
LEMMA SearchFindsClauses ==
    ASSUME NEW ranking \in Seq(Clauses)
    PROVE  \A r \in Search(ranking) : r.clause_id \in Clauses
BY DEF Search

\* Fusion returns ids that some retriever returned.
LEMMA FusionFacts ==
    ASSUME NEW lexical, NEW vector, NEW graph, NEW limit,
           \A r \in lexical \cup vector \cup graph : r.clause_id \in Clauses
    PROVE  ReciprocalRankFusion(lexical, vector, graph, limit) \subseteq Clauses
BY DEF ReciprocalRankFusion, Fused

\* Only clauses of the corpus are selected as evidence.
LEMMA SelectionFacts == SelectEvidence \subseteq Clauses
BY DEF SelectEvidence

\* A step that leaves the plan and the retrieved results alone leaves alone
\* what the evidence contract finds satisfied.
LEMMA SatisfiedFacts ==
    ASSUME UNCHANGED <<plan, lexical_results, vector_results, graph_results,
                       graph_paths>>
    PROVE  Satisfied' = Satisfied /\ OpenConflict' = OpenConflict
<1>1. Satisfied' = Satisfied
  BY DEF Satisfied
<1> QED BY <1>1 DEF OpenConflict

\* The first superstep runs the planner on the empty state.
LEMMA InitInvariant == Init => IInv
<1> SUFFICES ASSUME Init PROVE IInv
  OBVIOUS
<1>1. limits \in RunLimits
  BY LimitsAssumption DEF Init
<1>2. DOMAIN writes = {} /\ provider_calls \in Seq(Purposes)
      /\ Len(provider_calls) = 0
  BY DEF Init
<1>3. TypeOK
  BY <1>1, <1>2, LimitFacts DEF Init, TypeOK, Nodes
<1>4. ScheduleInv
  <2>1. /\ tasks = {"analyze_and_plan"} /\ phase = "running" /\ error_type = None
        /\ step = 1 /\ iteration = 0 /\ model_calls = 0 /\ decision = None
        /\ stop = limits.recursion_limit
    BY DEF Init
  <2>2. 0 <= limits.max_model_calls
    BY <1>1, LimitFacts
  <2> QED BY <2>1, <2>2, <1>2, MarkersAssumption
          DEF Exceptions, ScheduleInv, Punctual, Retrievers
<1>5. AnsweringInv
  BY DEF Init, AnsweringInv
<1> QED BY <1>3, <1>4, <1>5 DEF IInv

\* The planner starts the first pass.
LEMMA AnalyzeAndPlanKeeps == IInv /\ AnalyzeAndPlan => IInv'
<1> SUFFICES ASSUME IInv, AnalyzeAndPlan PROVE IInv'
  OBVIOUS
<1> USE DEF IInv
<1>1. /\ "analyze_and_plan" \in tasks /\ phase = "running"
      /\ step = 1 /\ model_calls = 0
  BY DEF AnalyzeAndPlan, Runs, ScheduleInv
<1>2. /\ tasks' = Retrievers /\ step' = step + 1 /\ iteration' = 1
      /\ model_calls' = model_calls + 1
      /\ UNCHANGED <<config, retrieval, fused_candidates, assessment, answering,
                     degraded_components, errors, phase, writes, stop,
                     decision, error_type>>
  BY DEF AnalyzeAndPlan, Schedule
<1>3. plan' \in Plans /\ retrieval_query' \in Queries
  BY PlansAssumption DEF AnalyzeAndPlan
<1>4. /\ provider_calls' \in Seq(Purposes)
      /\ Len(provider_calls') = Len(provider_calls) + 1
  BY BillFacts DEF AnalyzeAndPlan, ScheduleInv, Purposes
<1> USE DEF config, retrieval, assessment, answering
<1>5. TypeOK'
  BY <1>2, <1>3 DEF TypeOK, Nodes, Exceptions
<1>6. ScheduleInv'
  <2>1. 1 \in 1..limits.max_retrieval_iterations /\ 1 <= limits.max_model_calls
    BY LimitFacts DEF TypeOK
  <2> QED BY <1>1, <1>2, <1>3, <1>4, <2>1
          DEF TypeOK, ScheduleInv, Punctual, Retrievers
<1>7. AnsweringInv'
  <2>1. claims = {} /\ citations = {} /\ status # "answered"
    BY <1>1 DEF AnsweringInv
  <2> QED BY <1>2, <2>1 DEF AnsweringInv, Retrievers
<1> QED BY <1>5, <1>6, <1>7

\* A retriever that finishes leaves its update with the engine; nothing that
\* the control or the answer depends on changes.
LEMMA FinishesKeeps ==
    ASSUME IInv, NEW node \in Retrievers, NEW update, Finishes(node, update),
           \A r \in update.results : r.clause_id \in Clauses,
           update.degraded \subseteq {"vector_retrieval_timeout"}
    PROVE  IInv'
<1> USE DEF IInv, Finishes, Runs, config, retrieval, assessment, planning,
            answering, record
<1>1. /\ DOMAIN writes' \subseteq Retrievers
      /\ \A n \in DOMAIN writes' :
            /\ \A r \in writes'[n].results : r.clause_id \in Clauses
            /\ writes'[n].degraded \subseteq {"vector_retrieval_timeout"}
  BY DEF TypeOK
<1>2. TypeOK'
  BY <1>1 DEF TypeOK, Exceptions
<1>3. ScheduleInv'
  BY DEF ScheduleInv, Punctual
<1>4. AnsweringInv'
  BY SatisfiedFacts DEF AnsweringInv, CitationErrors, CitationsFound
<1> QED BY <1>2, <1>3, <1>4

\* The retrievers of the corpus return the first clauses of their ranking.
LEMMA CorpusRetrieversKeep ==
    IInv /\ (LexicalRetrieve \/ VectorRetrieve \/ VectorTimesOut) => IInv'
<1> SUFFICES ASSUME IInv, LexicalRetrieve \/ VectorRetrieve \/ VectorTimesOut
             PROVE  IInv'
  OBVIOUS
<1>1. CASE LexicalRetrieve
  <2>1. retrieval_query \in Queries
    BY <1>1 DEF IInv, TypeOK, ScheduleInv, Punctual, LexicalRetrieve, Finishes,
                Runs, Retrievers
  <2>2. \A r \in Search(LexicalRanking[retrieval_query]) : r.clause_id \in Clauses
    BY <2>1, RankingAssumption, SearchFindsClauses
  <2> QED BY <1>1, <2>2, FinishesKeeps DEF LexicalRetrieve, Retrievers
<1>2. CASE VectorRetrieve
  <2>1. retrieval_query \in Queries
    BY <1>2 DEF IInv, TypeOK, ScheduleInv, Punctual, VectorRetrieve, Finishes,
                Runs, Retrievers
  <2>2. \A r \in Search(VectorRanking[retrieval_query]) : r.clause_id \in Clauses
    BY <2>1, RankingAssumption, SearchFindsClauses
  <2> QED BY <1>2, <2>2, FinishesKeeps DEF VectorRetrieve, Retrievers
<1>3. CASE VectorTimesOut
  BY <1>3, FinishesKeeps DEF VectorTimesOut, Retrievers
<1> QED BY <1>1, <1>2, <1>3

\* A graph lookup that does not fail returns clauses only.
LEMMA GraphRetrieveKeeps == IInv /\ GraphRetrieve => IInv'
<1> SUFFICES ASSUME IInv, GraphRetrieve PROVE IInv'
  OBVIOUS
<1>1. CASE plan.intent = Conflict
  <2>1. \A r \in ConflictUpdate.results : r.clause_id \in Clauses
    BY <1>1 DEF GraphRetrieve, GraphLookupFails, ConflictUpdate
  <2>2. ConflictUpdate.degraded \subseteq {"vector_retrieval_timeout"}
    BY DEF ConflictUpdate
  <2> QED BY <1>1, <2>1, <2>2, FinishesKeeps DEF GraphRetrieve, Retrievers
<1>2. CASE plan.intent # Conflict
  <2>1. \A r \in AmendmentUpdate.results : r.clause_id \in Clauses
    BY <1>2 DEF GraphRetrieve, GraphLookupFails, AmendmentUpdate
  <2>2. AmendmentUpdate.degraded \subseteq {"vector_retrieval_timeout"}
    BY DEF AmendmentUpdate
  <2> QED BY <1>2, <2>1, <2>2, FinishesKeeps DEF GraphRetrieve, Retrievers
<1> QED BY <1>1, <1>2

\* The engine applies the three updates in one step.
LEMMA FanInKeeps == IInv /\ FanIn => IInv'
<1> SUFFICES ASSUME IInv, FanIn PROVE IInv'
  OBVIOUS
<1> USE DEF IInv, FanIn, config, assessment, planning, answering
<1>1. TypeOK'
  <2>1. DOMAIN writes' = {}
    OBVIOUS
  <2>2. \A r \in lexical_results' \cup vector_results' \cup graph_results' :
            r.clause_id \in Clauses
    BY DEF TypeOK, Retrievers
  <2>3. writes["vector_retrieve"].degraded \subseteq {"vector_retrieval_timeout"}
    BY DEF TypeOK, Retrievers
  <2>4. degraded_components' \subseteq
            {"vector_retrieval_timeout", "reranker_unavailable"}
    BY <2>3 DEF TypeOK
  <2>5. tasks' \subseteq Nodes /\ step' \in Nat
    BY DEF TypeOK, Nodes
  <2>6. UNCHANGED <<config, phase, stop, decision, error_type, fused_candidates,
                    assessment, planning, answering, errors>>
    OBVIOUS
  <2> QED BY ONLY <2>1, <2>2, <2>4, <2>5, <2>6, TypeOK
          DEF TypeOK, Exceptions, config, assessment, planning, answering
<1>2. ScheduleInv'
  <2>1. "lexical_retrieve" \in tasks /\ "analyze_and_plan" \notin tasks
    BY DEF Retrievers
  <2> QED BY <2>1 DEF TypeOK, ScheduleInv, Punctual, Retrievers
<1>3. AnsweringInv'
  BY DEF AnsweringInv, Retrievers
<1> QED BY <1>1, <1>2, <1>3

\* Fusing and reranking move the run on to the assessment.
LEMMA FuseCandidatesKeeps == IInv /\ FuseCandidates => IInv'
<1> SUFFICES ASSUME IInv, FuseCandidates PROVE IInv'
  OBVIOUS
<1> USE DEF IInv, FuseCandidates, Runs, Schedule, config, retrieval,
            assessment, planning, answering
<1>1. TypeOK'
  <2>1. fused_candidates' \subseteq Clauses
    BY FusionFacts DEF TypeOK
  <2> QED BY <2>1 DEF TypeOK, Nodes, Exceptions
<1>2. ScheduleInv'
  BY DEF TypeOK, ScheduleInv, Punctual, Retrievers
<1>3. AnsweringInv'
  BY DEF AnsweringInv
<1> QED BY <1>1, <1>2, <1>3

\* The fallback of the reranker only discloses itself.
LEMMA RerankCandidatesKeeps == IInv /\ RerankCandidates => IInv'
<1> SUFFICES ASSUME IInv, RerankCandidates PROVE IInv'
  OBVIOUS
<1> USE DEF IInv, RerankCandidates, Runs, Schedule, config, retrieval,
            assessment, planning, answering
<1>1. TypeOK'
  BY DEF TypeOK, Nodes, Exceptions
<1>2. ScheduleInv'
  BY DEF TypeOK, ScheduleInv, Punctual, Retrievers
<1>3. AnsweringInv'
  BY DEF AnsweringInv
<1> QED BY <1>1, <1>2, <1>3

\* The assessment pauses, answers, retries or abstains.
LEMMA AssessEvidenceKeeps == IInv /\ AssessEvidence => IInv'
<1> SUFFICES ASSUME IInv, AssessEvidence PROVE IInv'
  OBVIOUS
<1> USE DEF IInv
<1> DEFINE missing == plan.required_evidence \ Satisfied
           sufficient ==
              /\ missing = {}
              /\ Cardinality(SelectEvidence) <= limits.max_evidence_items
           paused == /\ plan.intent = Conflict
                     /\ {"competing_evidence", "unresolved_precedence"}
                           \subseteq Satisfied
                     /\ sufficient
           route == RouteAfterAssessment(paused, sufficient)
<1>1. /\ selected_evidence' = SelectEvidence
      /\ status' = IF paused THEN "review_required" ELSE status
      /\ tasks' = {route} /\ step' = step + 1
      /\ evidence_sufficient' \in BOOLEAN /\ review_required' \in BOOLEAN
      /\ "assess_evidence" \in tasks /\ phase = "running"
  BY DEF AssessEvidence, Schedule, Runs
<1>2. /\ route \in {"analyst_review", "synthesize_answer", "reformulate_query",
                    "finalize_insufficient"}
      /\ route = "synthesize_answer" => ~ paused /\ sufficient
      /\ route = "reformulate_query" => iteration < limits.max_retrieval_iterations
  BY DEF RouteAfterAssessment
<1>3. /\ route \in {"analyst_review", "synthesize_answer"} =>
              plan.required_evidence \subseteq Satisfied
      /\ route = "synthesize_answer" => ~ OpenConflict
  BY DEF RouteAfterAssessment, OpenConflict
<1>4. UNCHANGED <<config, retrieval, fused_candidates, planning, claims,
                  citations, answer, review_decision, degraded_components,
                  errors, phase, writes, stop, decision, error_type>>
  BY DEF AssessEvidence, Schedule
<1> HIDE DEF route, missing, sufficient, paused
<1> USE DEF config, retrieval, planning
<1>5. TypeOK'
  <2>1. /\ tasks' \subseteq Nodes /\ step' \in Nat
        /\ selected_evidence' \subseteq Clauses
        /\ status' \in {status, "review_required"}
    BY <1>1, <1>2, SelectionFacts DEF TypeOK, Nodes
  <2> QED BY <1>1, <1>4, <2>1 DEF TypeOK, Exceptions
<1>6. ScheduleInv'
  <2>1. /\ step = 5 + 5 * (iteration - 1) /\ model_calls = iteration
        /\ "analyze_and_plan" \notin tasks
    BY <1>1 DEF ScheduleInv, Punctual
  <2>2. /\ \A n \in Retrievers : Punctual(n, 2)'
        /\ Punctual("fuse_candidates", 3)' /\ Punctual("rerank_candidates", 4)'
        /\ Punctual("assess_evidence", 5)'
    BY <1>1, <1>2 DEF Punctual, Retrievers
  <2>3. ASSUME NEW n \in {"analyst_review", "reformulate_query", "synthesize_answer",
                         "finalize_insufficient"}
        PROVE  Punctual(n, 6)'
    BY <1>1, <1>4, <2>1 DEF TypeOK, ScheduleInv, Punctual
  <2>4. /\ tasks' = {route} /\ "analyze_and_plan" \notin tasks'
        /\ "verify_citations" \notin tasks' /\ "finalize_trace" \notin tasks'
        /\ "reformulate_query" \in tasks' => iteration < limits.max_retrieval_iterations
    BY <1>1, <1>2
  <2>5. /\ iteration \in Nat /\ step \in Nat
        /\ step' <= 9 + 5 * (iteration - 1)
    BY <1>1, <2>1 DEF TypeOK, ScheduleInv
  <2>6. /\ plan' \in Plans /\ retrieval_query' \in Queries
        /\ iteration' \in 1..limits'.max_retrieval_iterations
        /\ model_calls' <= limits'.max_model_calls
        /\ provider_calls' \in Seq(Purposes) /\ Len(provider_calls') = model_calls'
    BY <1>4, <2>1 DEF ScheduleInv
  <2>7. /\ phase' = "running" /\ error_type' = None
        /\ decision' = None => stop' = limits'.recursion_limit
        /\ decision' # None => stop' >= limits'.recursion_limit + 7
    BY <1>1, <1>4 DEF ScheduleInv
  <2>8. UNCHANGED <<iteration, limits>> /\ None \notin Exceptions
    BY <1>4, MarkersAssumption
  <2> QED BY <2>2, <2>3, <2>4, <2>5, <2>6, <2>7, <2>8
          DEF ScheduleInv, Punctual, Exceptions
<1>7. AnsweringInv'
  <2>1. claims = {} /\ citations = {} /\ status # "answered"
    BY <1>1 DEF AnsweringInv
  <2> QED BY <1>1, <1>2, <1>3, <1>4, <2>1, SatisfiedFacts DEF AnsweringInv
<1> QED BY <1>5, <1>6, <1>7

------------------------------------------------------------------------------

\* A run that waits for its analyst has nothing else to do.
LEMMA ReviewIsAlone ==
    ASSUME IInv, "analyst_review" \in tasks
    PROVE  /\ "verify_citations" \notin tasks /\ "synthesize_answer" \notin tasks
           /\ claims = {} /\ citations = {} /\ status # "answered"
           /\ step >= 6 /\ "analyze_and_plan" \notin tasks
BY DEF IInv, TypeOK, ScheduleInv, Punctual, AnsweringInv, Retrievers

\* An interrupt leaves the state at its checkpoint.
LEMMA InterruptKeeps == IInv /\ Interrupt => IInv'
<1> SUFFICES ASSUME IInv, Interrupt PROVE IInv'
  OBVIOUS
<1> USE DEF IInv, Interrupt, Runs, config, retrieval, assessment, planning,
            answering, record
<1>1. TypeOK'
  BY DEF TypeOK, Exceptions
<1>2. ScheduleInv'
  BY MarkersAssumption DEF ScheduleInv, Punctual
<1>3. AnsweringInv'
  BY SatisfiedFacts DEF AnsweringInv, CitationErrors, CitationsFound
<1> QED BY <1>1, <1>2, <1>3

\* A resumed run has its full step budget before it.
LEMMA ResumeKeeps == IInv /\ Resume => IInv'
<1> SUFFICES ASSUME IInv, Resume PROVE IInv'
  OBVIOUS
<1> USE DEF IInv, Resume, config, retrieval, assessment, planning,
            answering, record
<1>1. "analyst_review" \in tasks
  BY DEF ScheduleInv
<1>2. /\ decision' \in Clauses \cup {Abstain} /\ decision' # None
  BY MarkersAssumption DEF TypeOK
<1>3. /\ limits.recursion_limit \in Nat
      /\ stop' \in Nat /\ stop' >= limits.recursion_limit + 7
  <2>1. limits.recursion_limit \in Nat
    BY LimitFacts DEF TypeOK
  <2> QED BY <2>1, <1>1, ReviewIsAlone DEF TypeOK
<1>4. TypeOK'
  BY <1>2, <1>3 DEF TypeOK, Exceptions
<1>5. ScheduleInv'
  BY <1>1, <1>2, <1>3, ReviewIsAlone, MarkersAssumption
     DEF ScheduleInv, Punctual, Exceptions
<1>6. AnsweringInv'
  BY <1>1, ReviewIsAlone, SatisfiedFacts
     DEF AnsweringInv, CitationErrors, CitationsFound
<1> QED BY <1>4, <1>5, <1>6

\* An abstention clears the answer and ends the run.
LEMMA AnalystAbstainsKeeps == IInv /\ AnalystAbstains => IInv'
<1> SUFFICES ASSUME IInv, AnalystAbstains PROVE IInv'
  OBVIOUS
<1> USE DEF IInv, AnalystAbstains, Runs, Schedule, config, retrieval, planning
<1>1. TypeOK'
  BY DEF TypeOK, Nodes, Exceptions
<1>2. ScheduleInv'
  <2>1. step = 6 + 5 * (iteration - 1) /\ "analyze_and_plan" \notin tasks
    BY DEF ScheduleInv, Punctual
  <2>2. /\ tasks' = {"finalize_trace"} /\ step' = step + 1 /\ phase = "running"
        /\ UNCHANGED <<phase, stop, decision, error_type, config, planning>>
    OBVIOUS
  <2> QED BY ONLY <2>1, <2>2, TypeOK, ScheduleInv
          DEF TypeOK, ScheduleInv, Punctual, Retrievers, config, planning
<1>3. AnsweringInv'
  BY DEF AnsweringInv
<1> QED BY <1>1, <1>2, <1>3

\* A selection makes the selected clause the answer and its only evidence.
LEMMA AnalystSelectsKeeps == IInv /\ AnalystSelects => IInv'
<1> SUFFICES ASSUME IInv, AnalystSelects PROVE IInv'
  OBVIOUS
<1> USE DEF IInv, AnalystSelects, Runs, Schedule, config, retrieval, planning
<1>1. decision \in Clauses /\ citations = {} /\ claims' = {{decision}}
  BY ReviewIsAlone DEF TypeOK
<1>2. TypeOK'
  BY <1>1 DEF TypeOK, Nodes, Exceptions
<1>3. ScheduleInv'
  <2>1. step = 6 + 5 * (iteration - 1) /\ "analyze_and_plan" \notin tasks
    BY DEF ScheduleInv, Punctual
  <2>2. /\ tasks' = {"verify_citations"} /\ step' = step + 1 /\ phase = "running"
        /\ UNCHANGED <<phase, stop, decision, error_type, config, planning>>
    OBVIOUS
  <2> QED BY ONLY <2>1, <2>2, TypeOK, ScheduleInv
          DEF TypeOK, ScheduleInv, Punctual, Retrievers, config, planning
<1>4. AnsweringInv'
  BY <1>1, SatisfiedFacts, MarkersAssumption DEF AnsweringInv
<1> QED BY <1>2, <1>3, <1>4

------------------------------------------------------------------------------

\* The recovery loop spends a call and an iteration and starts a new pass.
LEMMA ReformulateQueryKeeps == IInv /\ ReformulateQuery => IInv'
<1> SUFFICES ASSUME IInv, ReformulateQuery PROVE IInv'
  OBVIOUS
<1> USE DEF IInv
<1>1. /\ "reformulate_query" \in tasks /\ phase = "running"
      /\ step = 6 + 5 * (iteration - 1) /\ model_calls = iteration
      /\ iteration < limits.max_retrieval_iterations
      /\ "analyze_and_plan" \notin tasks
  BY DEF ReformulateQuery, Runs, ScheduleInv, Punctual
<1>2. model_calls < limits.max_model_calls
  BY <1>1, LimitFacts DEF TypeOK
<1>3. /\ tasks' = Retrievers /\ step' = step + 1
      /\ retrieval_query' \in Queries
      /\ iteration' = iteration + 1 /\ model_calls' = model_calls + 1
      /\ UNCHANGED <<config, retrieval, fused_candidates, assessment, answering,
                     degraded_components, plan, errors, phase, writes, stop,
                     decision, error_type>>
  BY <1>2 DEF ReformulateQuery, Reformulated, Schedule
<1>4. /\ provider_calls' \in Seq(Purposes)
      /\ Len(provider_calls') = Len(provider_calls) + 1
  BY <1>2, BillFacts DEF ReformulateQuery, Reformulated, ScheduleInv, Purposes
<1> USE DEF config, retrieval, assessment, answering
<1>5. TypeOK'
  BY <1>3 DEF TypeOK, Nodes, Exceptions
<1>6. ScheduleInv'
  <2>1. iteration' \in 1..limits.max_retrieval_iterations
        /\ model_calls' <= limits.max_model_calls
    BY <1>1, <1>2, <1>3, LimitFacts DEF TypeOK
  <2> QED BY <1>1, <1>3, <1>4, <2>1
          DEF TypeOK, ScheduleInv, Punctual, Retrievers
<1>7. AnsweringInv'
  <2>1. claims = {} /\ citations = {} /\ status # "answered"
    BY <1>1 DEF AnsweringInv
  <2> QED BY <1>3, <2>1 DEF AnsweringInv, Retrievers
<1> QED BY <1>5, <1>6, <1>7

\* A synthesized answer goes on to verification.
LEMMA SynthesizeAnswerKeeps == IInv /\ SynthesizeAnswer => IInv'
<1> SUFFICES ASSUME IInv, SynthesizeAnswer PROVE IInv'
  OBVIOUS
<1> USE DEF IInv
<1>1. /\ "synthesize_answer" \in tasks /\ phase = "running"
      /\ step = 6 + 5 * (iteration - 1) /\ model_calls = iteration
      /\ "analyze_and_plan" \notin tasks
      /\ model_calls < limits.max_model_calls
  BY DEF SynthesizeAnswer, Runs, ScheduleInv, Punctual
<1>2. /\ tasks' = {"verify_citations"} /\ step' = step + 1
      /\ answer' = Model /\ claims' \in Syntheses
      /\ model_calls' = model_calls + 1
      /\ UNCHANGED <<config, retrieval, fused_candidates, assessment, plan,
                     retrieval_query, iteration, citations, status,
                     review_decision, degraded_components, errors, phase,
                     writes, stop, decision, error_type>>
  BY DEF SynthesizeAnswer, Schedule
<1>3. /\ provider_calls' \in Seq(Purposes)
      /\ Len(provider_calls') = Len(provider_calls) + 1
  BY BillFacts DEF SynthesizeAnswer, ScheduleInv, Purposes
<1>4. claims = {} /\ citations = {} /\ status # "answered" /\ ~ OpenConflict
  BY <1>1 DEF AnsweringInv
<1> USE DEF config, retrieval, assessment
<1>5. TypeOK'
  BY <1>2, <1>4 DEF TypeOK, Nodes, Exceptions
<1>6. ScheduleInv'
  <2>1. model_calls' <= limits.max_model_calls
    BY <1>1, <1>2, LimitFacts DEF TypeOK
  <2> QED BY <1>1, <1>2, <1>3, <2>1
          DEF TypeOK, ScheduleInv, Punctual, Retrievers
<1>7. AnsweringInv'
  BY <1>1, <1>2, <1>4, SatisfiedFacts, MarkersAssumption DEF AnsweringInv
<1> QED BY <1>5, <1>6, <1>7

\* A synthesis that is over budget leaves nothing to verify.
LEMMA SynthesizeLimitReachedKeeps == IInv /\ SynthesizeLimitReached => IInv'
<1> SUFFICES ASSUME IInv, SynthesizeLimitReached PROVE IInv'
  OBVIOUS
<1> USE DEF IInv
<1>1. /\ "synthesize_answer" \in tasks /\ phase = "running"
      /\ step = 6 + 5 * (iteration - 1) /\ "analyze_and_plan" \notin tasks
  BY DEF SynthesizeLimitReached, Runs, ScheduleInv, Punctual
<1>2. /\ tasks' = {"verify_citations"} /\ step' = step + 1
      /\ status' = "error" /\ errors' = errors \cup {"model_call_limit_reached"}
      /\ UNCHANGED <<config, retrieval, fused_candidates, assessment, planning,
                     claims, citations, answer, review_decision,
                     degraded_components, phase, writes, stop, decision,
                     error_type>>
  BY DEF SynthesizeLimitReached, Schedule
<1>3. claims = {} /\ citations = {} /\ ~ OpenConflict
  BY <1>1 DEF AnsweringInv
<1> USE DEF config, retrieval, assessment, planning
<1>4. TypeOK'
  BY <1>2 DEF TypeOK, Nodes, Exceptions
<1>5. ScheduleInv'
  BY <1>1, <1>2 DEF TypeOK, ScheduleInv, Punctual, Retrievers
<1>6. AnsweringInv'
  BY <1>1, <1>2, <1>3, SatisfiedFacts DEF AnsweringInv
<1> QED BY <1>4, <1>5, <1>6

\* Verification is the only way to an answered run.
LEMMA VerifyCitationsKeeps == IInv /\ VerifyCitations => IInv'
<1> SUFFICES ASSUME IInv, VerifyCitations PROVE IInv'
  OBVIOUS
<1> USE DEF IInv
<1>1. /\ "verify_citations" \in tasks /\ phase = "running"
      /\ step <= 7 + 5 * (iteration - 1) /\ "analyze_and_plan" \notin tasks
  BY DEF VerifyCitations, Runs, ScheduleInv, Retrievers
<1>2. /\ tasks' = {"finalize_trace"} /\ step' = step + 1
      /\ citations' = CitationsFound /\ errors' = errors \cup CitationErrors
      /\ status' \in {"answered", "error"}
      /\ status' = "answered" => CitationErrors = {} /\ claims # {}
      /\ UNCHANGED <<config, retrieval, fused_candidates, assessment, planning,
                     claims, answer, review_decision, degraded_components,
                     phase, writes, stop, decision, error_type>>
  BY DEF VerifyCitations, Verified, Schedule
<1> USE DEF config, retrieval, assessment, planning
<1>3. /\ CitationErrors' = CitationErrors /\ CitationsFound' = CitationsFound
  BY <1>2 DEF CitationErrors, CitationsFound
<1>4. TypeOK'
  <2>1. citations' \subseteq claims' \X Clauses
    BY <1>2 DEF TypeOK, CitationsFound
  <2>2. errors' \subseteq {"model_call_limit_reached", "unsupported_claim",
                          "unknown_evidence"}
    BY <1>2 DEF TypeOK, CitationErrors
  <2> QED BY <1>2, <2>1, <2>2 DEF TypeOK, Nodes, Exceptions
<1>5. ScheduleInv'
  BY <1>1, <1>2 DEF TypeOK, ScheduleInv, Punctual, Retrievers
<1>6. AnsweringInv'
  BY <1>1, <1>2, <1>3, SatisfiedFacts DEF AnsweringInv
<1> QED BY <1>4, <1>5, <1>6

\* An abstaining run has no claims.
LEMMA FinalizeInsufficientKeeps == IInv /\ FinalizeInsufficient => IInv'
<1> SUFFICES ASSUME IInv, FinalizeInsufficient PROVE IInv'
  OBVIOUS
<1> USE DEF IInv
<1>1. /\ "finalize_insufficient" \in tasks /\ phase = "running"
      /\ step = 6 + 5 * (iteration - 1) /\ "analyze_and_plan" \notin tasks
  BY DEF FinalizeInsufficient, Runs, ScheduleInv, Punctual
<1>2. /\ tasks' = {"finalize_trace"} /\ step' = step + 1
      /\ status' = "insufficient_evidence" /\ answer' = None
      /\ UNCHANGED <<config, retrieval, fused_candidates, assessment, planning,
                     claims, citations, review_decision, degraded_components,
                     errors, phase, writes, stop, decision, error_type>>
  BY DEF FinalizeInsufficient, Schedule
<1>3. claims = {} /\ citations = {}
  BY <1>1 DEF AnsweringInv
<1> USE DEF config, retrieval, assessment, planning
<1>4. TypeOK'
  BY <1>2 DEF TypeOK, Nodes, Exceptions
<1>5. ScheduleInv'
  BY <1>1, <1>2 DEF TypeOK, ScheduleInv, Punctual, Retrievers
<1>6. AnsweringInv'
  BY <1>2, <1>3 DEF AnsweringInv
<1> QED BY <1>4, <1>5, <1>6

\* The last node changes nothing but the trace.
LEMMA FinalizeTraceKeeps == IInv /\ FinalizeTrace => IInv'
<1> SUFFICES ASSUME IInv, FinalizeTrace PROVE IInv'
  OBVIOUS
<1> USE DEF IInv
<1>1. /\ "finalize_trace" \in tasks /\ phase = "running"
      /\ step <= 8 + 5 * (iteration - 1) /\ "analyze_and_plan" \notin tasks
  BY DEF FinalizeTrace, Runs, ScheduleInv, Retrievers
<1>2. /\ tasks' = {} /\ step' = step + 1
      /\ UNCHANGED <<config, retrieval, fused_candidates, assessment, planning,
                     answering, degraded_components, errors, phase, writes,
                     stop, decision, error_type>>
  BY DEF FinalizeTrace, Schedule
<1> USE DEF config, retrieval, assessment, planning, answering
<1>3. TypeOK'
  BY <1>2 DEF TypeOK, Nodes, Exceptions
<1>4. ScheduleInv'
  BY <1>1, <1>2 DEF TypeOK, ScheduleInv, Punctual, Retrievers
<1>5. AnsweringInv'
  BY <1>2, SatisfiedFacts DEF AnsweringInv, CitationErrors, CitationsFound
<1> QED BY <1>3, <1>4, <1>5

------------------------------------------------------------------------------

\* An exception changes nothing but the phase and the error.
LEMMA RaiseKeeps ==
    ASSUME IInv, NEW type \in Exceptions, Raise(type),
           type = "GraphRecursionError" => step > stop
    PROVE  IInv'
<1> USE DEF IInv, Raise, config, retrieval, assessment, planning, answering,
            record
<1>1. TypeOK'
  BY DEF TypeOK, Exceptions
<1>2. ScheduleInv'
  BY DEF ScheduleInv, Punctual
<1>3. AnsweringInv'
  BY SatisfiedFacts DEF AnsweringInv, CitationErrors, CitationsFound
<1> QED BY <1>1, <1>2, <1>3

\* Every exception of an invocation keeps the invariant.
LEMMA FailuresKeep ==
    IInv /\ (ProviderFails \/ GraphRetrieveFails \/ OutOfSteps) => IInv'
BY RaiseKeeps DEF ProviderFails, GraphRetrieveFails, OutOfSteps, Exceptions

\* The invocation returns when nothing is scheduled.
LEMMA FinishKeeps == IInv /\ Finish => IInv'
<1> SUFFICES ASSUME IInv, Finish PROVE IInv'
  OBVIOUS
<1> USE DEF IInv, Finish, config, retrieval, assessment, planning, answering,
            record
<1>1. TypeOK'
  BY DEF TypeOK, Exceptions
<1>2. ScheduleInv'
  BY DEF ScheduleInv, Punctual
<1>3. AnsweringInv'
  BY SatisfiedFacts DEF AnsweringInv, CitationErrors, CitationsFound
<1> QED BY <1>1, <1>2, <1>3

\* A stuttering step keeps the invariant.
LEMMA StutterKeeps == IInv /\ UNCHANGED vars => IInv'
<1> SUFFICES ASSUME IInv, UNCHANGED vars PROVE IInv'
  OBVIOUS
<1> USE DEF IInv, vars, engine, config, retrieval, assessment, planning,
            answering, record
<1>1. TypeOK'
  BY DEF TypeOK
<1>2. ScheduleInv'
  BY DEF ScheduleInv, Punctual
<1>3. AnsweringInv'
  BY SatisfiedFacts DEF AnsweringInv, CitationErrors, CitationsFound
<1> QED BY <1>1, <1>2, <1>3

\* The inductive invariant: the types, where the run is in its schedule, and
\* what the nodes that answer may rely on.
THEOREM WorkflowInvariant == Spec => []IInv
<1>1. Init => IInv
  BY InitInvariant
<1>2. IInv /\ [Next]_vars => IInv'
  <2> SUFFICES ASSUME IInv, [Next]_vars PROVE IInv'
    OBVIOUS
  <2>1. CASE Invoke
    BY <2>1, AnalyzeAndPlanKeeps, CorpusRetrieversKeep, GraphRetrieveKeeps,
       FanInKeeps, FuseCandidatesKeeps, RerankCandidatesKeeps,
       AssessEvidenceKeeps, InterruptKeeps, AnalystAbstainsKeeps,
       AnalystSelectsKeeps, ReformulateQueryKeeps, SynthesizeAnswerKeeps,
       SynthesizeLimitReachedKeeps, VerifyCitationsKeeps,
       FinalizeInsufficientKeeps, FinalizeTraceKeeps, FailuresKeep, FinishKeeps
       DEF Invoke
  <2>2. CASE Resume
    BY <2>2, ResumeKeeps
  <2>3. CASE UNCHANGED vars
    BY <2>3, StutterKeeps
  <2> QED BY <2>1, <2>2, <2>3 DEF Next
<1> QED BY <1>1, <1>2, PTL DEF Spec

\* Every variable of the workflow keeps its type.
THEOREM TypeCorrect == Spec => []TypeOK
<1>1. IInv => TypeOK
  BY DEF IInv
<1> QED BY <1>1, WorkflowInvariant, PTL

\* Whatever the limits, no run calls the model or retrieves more often than
\* it may, every call is billed, and the branch of reformulate_query that would
\* loop is never reached.
THEOREM BudgetsAlwaysHold == Spec => []BudgetsHold
<1>1. ASSUME IInv, "reformulate_query" \in tasks
      PROVE  model_calls < limits.max_model_calls
  <2>1. model_calls = iteration /\ iteration < limits.max_retrieval_iterations
    BY <1>1 DEF IInv, ScheduleInv, Punctual
  <2> QED BY <1>1, <2>1, LimitFacts DEF IInv, TypeOK
<1>2. ASSUME IInv
      PROVE  iteration <= limits.max_retrieval_iterations
  <2>1. limits.max_retrieval_iterations \in {1, 2}
    BY <1>2, LimitFacts DEF IInv, TypeOK
  <2>2. CASE "analyze_and_plan" \in tasks
    <3>1. iteration = 0
      BY <1>2, <2>2 DEF IInv, ScheduleInv
    <3> QED BY <3>1, <2>1
  <2>3. CASE "analyze_and_plan" \notin tasks
    <3>1. iteration \in 1..limits.max_retrieval_iterations
      BY <1>2, <2>3 DEF IInv, ScheduleInv
    <3> QED BY <3>1, <2>1
  <2> QED BY <2>2, <2>3
<1>3. ASSUME IInv
      PROVE  /\ model_calls <= limits.max_model_calls
             /\ Len(provider_calls) = model_calls
  BY <1>3 DEF IInv, ScheduleInv
<1>4. IInv => BudgetsHold
  BY <1>1, <1>2, <1>3 DEF BudgetsHold
<1> QED BY <1>4, WorkflowInvariant, PTL

\* Only the recovery of a run with less than 14 steps runs out of them.
THEOREM StepLimitIsAlwaysSpare == Spec => []StepLimitIsSpare
<1>1. IInv => StepLimitIsSpare
  <2> SUFFICES ASSUME IInv, error_type = "GraphRecursionError"
               PROVE  /\ limits.recursion_limit < 14
                      /\ iteration = 2 /\ decision = None
    BY DEF StepLimitIsSpare
  <2>1. step > stop /\ step \in Nat /\ stop \in Nat /\ iteration \in Nat
    BY MarkersAssumption DEF IInv, TypeOK, ScheduleInv, Exceptions
  <2>2. /\ limits.max_retrieval_iterations \in {1, 2}
        /\ limits.recursion_limit \in Nat /\ limits.recursion_limit >= 10
    BY LimitFacts DEF IInv, TypeOK
  <2>3. /\ decision = None => stop = limits.recursion_limit
        /\ decision # None => stop >= limits.recursion_limit + 7
    BY DEF IInv, ScheduleInv
  <2>4. "analyze_and_plan" \notin tasks
    BY <2>1, <2>2, <2>3 DEF IInv, ScheduleInv
  <2>5. iteration \in {1, 2} /\ step <= 9 + 5 * (iteration - 1)
    BY <2>1, <2>2, <2>4 DEF IInv, ScheduleInv
  <2> QED BY <2>1, <2>2, <2>3, <2>5
<1> QED BY <1>1, WorkflowInvariant, PTL

\* No answer leaves the workflow with a claim its evidence does not carry.
THEOREM AnswersAreAlwaysGrounded == Spec => []AnswersAreGrounded
<1>1. IInv => AnswersAreGrounded
  <2> SUFFICES ASSUME IInv, phase = "done", Result.status = "answered"
               PROVE  /\ Result.answer # None
                      /\ Result.claims # {} /\ {} \notin Result.claims
                      /\ UNION Result.claims \subseteq Result.evidence
                      /\ \A c \in Result.claims : \A e \in c :
                            <<c, e>> \in Result.citations
    BY DEF AnswersAreGrounded
  <2>1. /\ Result.status = status /\ Result.answer = answer
        /\ Result.claims = claims /\ Result.citations = citations
        /\ Result.evidence = selected_evidence
    BY DEF Result
  <2>2. /\ claims # {} /\ answer # None
        /\ CitationErrors = {} /\ citations = CitationsFound
    BY <2>1 DEF IInv, AnsweringInv
  <2>3. {} \notin claims /\ UNION claims \subseteq selected_evidence
    BY <2>2 DEF CitationErrors
  <2> QED BY <2>1, <2>2, <2>3 DEF CitationsFound
<1> QED BY <1>1, WorkflowInvariant, PTL

\* No answer leaves the workflow with its evidence contract unsatisfied.
THEOREM AnswersAlwaysMeetTheContract == Spec => []AnswersMeetTheContract
<1>1. IInv => AnswersMeetTheContract
  BY DEF IInv, AnsweringInv, AnswersMeetTheContract, Result
<1> QED BY <1>1, WorkflowInvariant, PTL

\* The model never answers what the graph shows to be an open conflict.
THEOREM ConflictsAreAlwaysTheAnalysts == Spec => []ConflictsAreTheAnalysts
<1>1. IInv => ConflictsAreTheAnalysts
  BY DEF IInv, AnsweringInv, ConflictsAreTheAnalysts, OpenConflict, Result
<1> QED BY <1>1, WorkflowInvariant, PTL

------------------------------------------------------------------------------

\* A resumed run has more steps left than its path is long.
LEMMA ResumedHasSteps ==
    ASSUME IInv, decision # None
    PROVE  step <= stop
<1>1. /\ step \in Nat /\ stop \in Nat /\ iteration \in Nat
      /\ limits.max_retrieval_iterations \in {1, 2}
      /\ limits.recursion_limit \in Nat /\ limits.recursion_limit >= 10
  BY LimitFacts DEF IInv, TypeOK
<1>2. /\ "analyze_and_plan" \notin tasks
      /\ stop >= limits.recursion_limit + 7
  BY DEF IInv, ScheduleInv
<1>3. iteration \in {1, 2} /\ step <= 9 + 5 * (iteration - 1)
  BY <1>1, <1>2 DEF IInv, ScheduleInv
<1> QED BY <1>1, <1>2, <1>3

\* The analyst's call resumes at the review and nowhere else.
LEMMA ResumeIsReview ==
    ASSUME IInv, Resume
    PROVE  ResumedInv'
<1>1. "analyst_review" \in tasks /\ error_type = None
  BY DEF IInv, ScheduleInv, Resume
<1>2. tasks = Retrievers \/ \A m, n \in tasks : m = n
  BY DEF IInv, ScheduleInv
<1>3. tasks = {"analyst_review"}
  BY <1>1, <1>2 DEF Retrievers
<1> QED BY <1>1, <1>3 DEF ResumedInv, Resume

\* Every step after the decision stays on the path to the end.
LEMMA ResumedStep ==
    ASSUME IInv, ResumedInv, decision # None, [Next]_vars
    PROVE  /\ decision' # None => ResumedInv'
           /\ UNCHANGED <<retrieval, fused_candidates, planning>>
           /\ tasks' \subseteq {"analyst_review", "verify_citations", "finalize_trace"}
           /\ selected_evidence' \subseteq selected_evidence
           /\ error_type' = None
<1> DEFINE path == {"analyst_review", "verify_citations", "finalize_trace"}
           Goal == /\ UNCHANGED <<retrieval, fused_candidates, planning>>
                   /\ tasks' \subseteq path
                   /\ selected_evidence' \subseteq selected_evidence
                   /\ error_type' = None
<1>1. tasks \subseteq path /\ error_type = None
  BY DEF ResumedInv
<1>2. /\ "analyze_and_plan" \notin tasks /\ "reformulate_query" \notin tasks
      /\ "synthesize_answer" \notin tasks /\ "finalize_insufficient" \notin tasks
      /\ "fuse_candidates" \notin tasks /\ "rerank_candidates" \notin tasks
      /\ "assess_evidence" \notin tasks /\ tasks \cap Retrievers = {}
  BY <1>1 DEF Retrievers
<1>3. Resume => Goal
  BY <1>1 DEF Resume, assessment, Schedule
<1>4. AnalystAbstains => Goal
  BY <1>1 DEF AnalystAbstains, Schedule
<1>5. AnalystSelects => Goal
  BY <1>1 DEF AnalystSelects, Schedule
<1>6. VerifyCitations => Goal
  BY <1>1 DEF VerifyCitations, Schedule, assessment
<1>7. FinalizeTrace => Goal
  BY <1>1 DEF FinalizeTrace, Schedule, assessment
<1>8. Finish => Goal
  BY <1>1 DEF Finish, assessment
<1>9. (UNCHANGED vars) => Goal
  BY <1>1 DEF vars, engine, assessment
<1>10. ~ Interrupt
  BY DEF Interrupt
<1>11. ~ OutOfSteps
  <2>1. step <= stop /\ step \in Nat /\ stop \in Nat
    BY ResumedHasSteps DEF IInv, TypeOK
  <2> QED BY <2>1 DEF OutOfSteps
<1>12. ~ (AnalyzeAndPlan \/ FuseCandidates \/ RerankCandidates \/ AssessEvidence
          \/ ReformulateQuery \/ SynthesizeAnswer \/ SynthesizeLimitReached
          \/ FinalizeInsufficient \/ ProviderFails)
  BY <1>2 DEF Runs, AnalyzeAndPlan, FuseCandidates, RerankCandidates,
              AssessEvidence, ReformulateQuery, SynthesizeAnswer,
              SynthesizeLimitReached, FinalizeInsufficient, ProviderFails
<1>13. ~ (LexicalRetrieve \/ VectorRetrieve \/ VectorTimesOut \/ GraphRetrieve
          \/ FanIn \/ GraphRetrieveFails)
  BY <1>2 DEF Runs, Finishes, Retrievers, LexicalRetrieve, VectorRetrieve,
              VectorTimesOut, GraphRetrieve, FanIn, GraphRetrieveFails
<1>14. Goal
  BY <1>3, <1>4, <1>5, <1>6, <1>7, <1>8, <1>9, <1>10, <1>11, <1>12, <1>13
     DEF Next, Invoke
<1> QED BY <1>14 DEF ResumedInv

\* Before the decision nothing but the analyst's call makes one.
LEMMA OnlyResumeDecides ==
    ASSUME decision = None, [Next]_vars, ~ Resume
    PROVE  decision' = None
BY DEF Next, Invoke, AnalyzeAndPlan, LexicalRetrieve, VectorRetrieve,
       VectorTimesOut, GraphRetrieve, Finishes, FanIn, FuseCandidates,
       RerankCandidates, AssessEvidence, Interrupt, AnalystAbstains,
       AnalystSelects, ReformulateQuery, SynthesizeAnswer,
       SynthesizeLimitReached, VerifyCitations, FinalizeInsufficient,
       FinalizeTrace, ProviderFails, GraphRetrieveFails, OutOfSteps, Raise,
       Finish, Schedule, vars, engine

\* Once a run is resumed, it is on that path for good.
LEMMA ResumedStays == IInv /\ ResumedInv /\ [Next]_vars => ResumedInv'
<1> SUFFICES ASSUME IInv, ResumedInv, [Next]_vars PROVE ResumedInv'
  OBVIOUS
<1>1. CASE decision # None
  BY <1>1, ResumedStep DEF ResumedInv
<1>2. CASE Resume
  BY <1>2, ResumeIsReview
<1>3. CASE decision = None /\ ~ Resume
  BY <1>3, OnlyResumeDecides DEF ResumedInv
<1> QED BY <1>1, <1>2, <1>3

\* Whichever provider, corpus or retrievers the application holds when the
\* analyst decides, the resumed run does not ask them.
THEOREM ResumeNeverLeavesTheCheckpoint == Spec => ResumeNeedsOnlyTheCheckpoint
<1>1. Init => ResumedInv
  BY DEF Init, ResumedInv
<1>2. IInv /\ ResumedInv /\ [Next]_vars => ResumedInv'
  BY ResumedStays
<1>3. IInv /\ ResumedInv /\ [Next]_vars =>
        [decision # None =>
          /\ UNCHANGED <<retrieval, fused_candidates, planning>>
          /\ tasks' \subseteq {"analyst_review", "verify_citations", "finalize_trace"}
          /\ selected_evidence' \subseteq selected_evidence
          /\ error_type' = None]_vars
  BY ResumedStep
<1> QED BY <1>1, <1>2, <1>3, WorkflowInvariant, PTL
        DEF Spec, ResumeNeedsOnlyTheCheckpoint

(***************************************************************************)
(* The trace of a run accounts for what happened in it.                    *)
(***************************************************************************)

EventTypes ==
    {"model_call", "limit_reached", "retrieval_completed", "retrieval_timeout",
     "rrf_completed", "reranker_degraded", "evidence_assessed",
     "suspicious_evidence_flagged", "human_decision_recorded",
     "citations_verified", "abstained", "run_completed"}

Events ==
    [node: Nodes, event_type: EventTypes, iteration: Nat]
    \cup [node: {"assess_evidence"}, event_type: {"suspicious_evidence_flagged"},
          iteration: Nat, findings: SUBSET Clauses]

OfNode(trace, n) == {i \in DOMAIN trace : trace[i].node = n}
OfType(trace, t) == {i \in DOMAIN trace : trace[i].event_type = t}

Has(trace, n, t) ==
    \E i \in DOMAIN trace : trace[i].node = n /\ trace[i].event_type = t

\* The assessment of a pass names a clause as suspicious.
FlagOf(e, pass, c) ==
    /\ e.node = "assess_evidence" /\ e.event_type = "suspicious_evidence_flagged"
    /\ e.iteration = pass /\ c \in e.findings

Names(trace, pass, c) == \E i \in DOMAIN trace : FlagOf(trace[i], pass, c)

\* The nodes of a pass that has not been assessed yet, and the last pass that has.
BeforeAssessment ==
    Retrievers \cup {"fuse_candidates", "rerank_candidates", "assess_evidence"}

AssessedPass ==
    IF tasks \cap BeforeAssessment = {} \/ iteration = 0 THEN iteration ELSE iteration - 1

\* One for the pass whose retrievers have not been fanned in yet.
Pending == IF tasks = Retrievers THEN 1 ELSE 0

WritesInv ==
    /\ phase = "done" => tasks = {}
    /\ \A n \in DOMAIN writes :
          writes[n].event_type \in {"retrieval_completed", "retrieval_timeout"}
    /\ "vector_retrieve" \in DOMAIN writes
          /\ writes["vector_retrieve"].event_type = "retrieval_timeout"
       => "vector_retrieval_timeout" \in writes["vector_retrieve"].degraded

\* The trace is a sequence of events that names every timeout, every flagged
\* selection, every model call and every pass.
TraceInv ==
    /\ trace_events \in Seq(Events)
    /\ Has(trace_events, "vector_retrieve", "retrieval_timeout") =>
          "vector_retrieval_timeout" \in degraded_components
    /\ \A c \in selected_evidence \cap Suspicious :
          Names(trace_events, AssessedPass, c)
    /\ Cardinality(OfType(trace_events, "model_call")) = model_calls
    /\ \A n \in Retrievers :
          Cardinality(OfNode(trace_events, n)) = iteration - Pending

RecordInv == WritesInv /\ TraceInv

\* What one more event adds to a trace.
LEMMA AppendCounts ==
    ASSUME NEW s \in Seq(Events), NEW e \in Events
    PROVE  /\ Append(s, e) \in Seq(Events)
           /\ \A n : /\ Cardinality(OfNode(s, n)) \in Nat
                     /\ Cardinality(OfNode(Append(s, e), n)) =
                          Cardinality(OfNode(s, n)) + (IF e.node = n THEN 1 ELSE 0)
           /\ \A t : /\ Cardinality(OfType(s, t)) \in Nat
                     /\ Cardinality(OfType(Append(s, e), t)) =
                          Cardinality(OfType(s, t))
                              + (IF e.event_type = t THEN 1 ELSE 0)
           /\ \A n, t : Has(Append(s, e), n, t) <=>
                          Has(s, n, t) \/ (e.node = n /\ e.event_type = t)
           /\ \A p, c : Names(Append(s, e), p, c) <=> Names(s, p, c) \/ FlagOf(e, p, c)
<1> DEFINE longer == Append(s, e)
           last == Len(s) + 1
<1>1. /\ longer \in Seq(Events) /\ Len(s) \in Nat
      /\ DOMAIN s = 1..Len(s) /\ DOMAIN longer = 1..last
      /\ \A i \in 1..Len(s) : longer[i] = s[i]
      /\ longer[last] = e
  BY AppendProperties
<1>2. IsFiniteSet(DOMAIN s)
  BY <1>1, FS_Interval
<1> HIDE DEF longer
<1>3. DOMAIN longer = DOMAIN s \cup {last} /\ last \notin DOMAIN s
  BY <1>1
<1>4. ASSUME NEW n
      PROVE  /\ Cardinality(OfNode(s, n)) \in Nat
             /\ Cardinality(OfNode(longer, n)) =
                  Cardinality(OfNode(s, n)) + (IF e.node = n THEN 1 ELSE 0)
  <2>1. /\ IsFiniteSet(OfNode(s, n)) /\ Cardinality(OfNode(s, n)) \in Nat
        /\ last \notin OfNode(s, n)
    BY <1>2, <1>3, FS_Subset, FS_CardinalityType DEF OfNode
  <2>2. CASE e.node = n
    <3>1. OfNode(longer, n) = OfNode(s, n) \cup {last}
      BY <1>1, <1>3, <2>2 DEF OfNode
    <3> QED BY <2>1, <2>2, <3>1, FS_AddElement
  <2>3. CASE e.node # n
    <3>1. OfNode(longer, n) = OfNode(s, n)
      BY <1>1, <1>3, <2>3 DEF OfNode
    <3> QED BY <2>1, <2>3, <3>1
  <2> QED BY <2>2, <2>3
<1>5. ASSUME NEW t
      PROVE  /\ Cardinality(OfType(s, t)) \in Nat
             /\ Cardinality(OfType(longer, t)) =
                  Cardinality(OfType(s, t)) + (IF e.event_type = t THEN 1 ELSE 0)
  <2>1. /\ IsFiniteSet(OfType(s, t)) /\ Cardinality(OfType(s, t)) \in Nat
        /\ last \notin OfType(s, t)
    BY <1>2, <1>3, FS_Subset, FS_CardinalityType DEF OfType
  <2>2. CASE e.event_type = t
    <3>1. OfType(longer, t) = OfType(s, t) \cup {last}
      BY <1>1, <1>3, <2>2 DEF OfType
    <3> QED BY <2>1, <2>2, <3>1, FS_AddElement
  <2>3. CASE e.event_type # t
    <3>1. OfType(longer, t) = OfType(s, t)
      BY <1>1, <1>3, <2>3 DEF OfType
    <3> QED BY <2>1, <2>3, <3>1
  <2> QED BY <2>2, <2>3
<1>6. ASSUME NEW n, NEW t
      PROVE  Has(longer, n, t) <=> Has(s, n, t) \/ (e.node = n /\ e.event_type = t)
  BY <1>1, <1>3 DEF Has
<1>7. ASSUME NEW p, NEW c
      PROVE  Names(longer, p, c) <=> Names(s, p, c) \/ FlagOf(e, p, c)
  BY ONLY <1>1, <1>3 DEF Names
<1> QED BY <1>1, <1>4, <1>5, <1>6, <1>7 DEF longer

\* An event of a node that is not a retriever, with the update it reports.
LEMMA OneEventKeeps ==
    ASSUME IInv, TraceInv, NEW e \in Events, Trace(<<e>>),
           e.node \notin Retrievers,
           degraded_components \subseteq degraded_components',
           \A c \in selected_evidence' \cap Suspicious :
              c \in selected_evidence /\ AssessedPass' = AssessedPass,
           model_calls' = model_calls + (IF e.event_type = "model_call" THEN 1 ELSE 0),
           iteration' - Pending' = iteration - Pending
    PROVE  TraceInv'
<1>1. /\ trace_events \in Seq(Events)
      /\ trace_events' = Append(trace_events, e)
  BY DEF Trace, TraceInv
<1>2. "vector_retrieve" \in Retrievers
  BY DEF Retrievers
<1>3. /\ trace_events' \in Seq(Events)
      /\ Has(trace_events', "vector_retrieve", "retrieval_timeout") <=>
            Has(trace_events, "vector_retrieve", "retrieval_timeout")
      /\ Cardinality(OfType(trace_events', "model_call")) =
            Cardinality(OfType(trace_events, "model_call"))
                + (IF e.event_type = "model_call" THEN 1 ELSE 0)
  BY <1>1, <1>2, AppendCounts
<1>4. \A n \in Retrievers :
        Cardinality(OfNode(trace_events', n)) = Cardinality(OfNode(trace_events, n))
  BY <1>1, AppendCounts
<1>5. \A c \in selected_evidence' \cap Suspicious : Names(trace_events', AssessedPass', c)
  <2>1. \A p, c : Names(trace_events, p, c) => Names(trace_events', p, c)
    BY <1>1, AppendCounts
  <2> QED BY <2>1 DEF TraceInv
<1> QED BY <1>3, <1>4, <1>5 DEF TraceInv

\* A step that records nothing and leaves alone what the trace speaks of.
LEMMA SilentKeeps ==
    ASSUME TraceInv, UNCHANGED <<trace_events, degraded_components, selected_evidence,
                                 model_calls, iteration, tasks>>
    PROVE  TraceInv'
BY DEF TraceInv, Has, Names, FlagOf, AssessedPass, OfType, OfNode, Pending

\* The nodes that record one event.
LEMMA NodesRecord ==
    ASSUME IInv, RecordInv,
           \/ AnalyzeAndPlan \/ FuseCandidates \/ RerankCandidates
           \/ AnalystAbstains \/ AnalystSelects \/ ReformulateQuery
           \/ SynthesizeAnswer \/ SynthesizeLimitReached \/ VerifyCitations
           \/ FinalizeInsufficient \/ FinalizeTrace
    PROVE  RecordInv'
<1> USE DEF config, retrieval, assessment, planning, answering, record, Runs,
            Schedule, RecordInv
<1>1. iteration \in Nat /\ model_calls \in Nat
  BY DEF IInv, TypeOK
<1>2. WritesInv'
  BY DEF WritesInv, AnalyzeAndPlan, FuseCandidates, RerankCandidates,
         AnalystAbstains, AnalystSelects, ReformulateQuery, SynthesizeAnswer,
         SynthesizeLimitReached, VerifyCitations, FinalizeInsufficient,
         FinalizeTrace, Reformulated
<1>3. ASSUME NEW n \in Nodes \ Retrievers, n \in tasks
      PROVE  Pending = 0 /\ tasks = {n}
  BY <1>3 DEF Pending, IInv, ScheduleInv
<1>4. CASE AnalyzeAndPlan
  <2> DEFINE e == Event("analyze_and_plan", "model_call", 1)
  <2>1. e \in Events /\ e.node \notin Retrievers /\ e.event_type = "model_call"
    BY DEF Event, Events, EventTypes, Nodes, Retrievers
  <2>2. iteration = 0 /\ iteration' = 1 /\ Pending = 0 /\ Pending' = 1
    BY <1>4, <1>3 DEF AnalyzeAndPlan, IInv, ScheduleInv, Pending, Retrievers, Nodes
  <2>3. /\ Trace(<<e>>) /\ model_calls' = model_calls + 1
        /\ UNCHANGED <<degraded_components, selected_evidence>>
    BY <1>4 DEF AnalyzeAndPlan
  <2>4. AssessedPass' = AssessedPass
    BY <1>4, <2>2 DEF AnalyzeAndPlan, AssessedPass, BeforeAssessment, Retrievers
  <2> HIDE DEF e
  <2> QED BY <1>2, <2>1, <2>2, <2>3, <2>4, OneEventKeeps
<1>5. CASE ReformulateQuery
  <2> DEFINE e == Event("reformulate_query", "model_call", iteration + 1)
  <2>1. e \in Events /\ e.node \notin Retrievers /\ e.event_type = "model_call"
    BY <1>1 DEF Event, Events, EventTypes, Nodes, Retrievers
  <2>2. model_calls < limits.max_model_calls
    <3>1. model_calls = iteration /\ iteration < limits.max_retrieval_iterations
      BY <1>5 DEF ReformulateQuery, IInv, ScheduleInv, Punctual
    <3> QED BY <3>1, LimitFacts DEF IInv, TypeOK
  <2>3. Reformulated
    BY <1>5, <2>2 DEF ReformulateQuery
  <2>4. iteration' = iteration + 1 /\ Pending = 0 /\ Pending' = 1
    BY <1>5, <1>3, <2>3 DEF ReformulateQuery, Reformulated, Pending, Retrievers, Nodes
  <2>5. /\ Trace(<<e>>) /\ model_calls' = model_calls + 1
        /\ UNCHANGED <<degraded_components, selected_evidence>>
    BY <1>5, <2>3 DEF ReformulateQuery, Reformulated
  <2>6. AssessedPass' = AssessedPass
    <3>1. tasks = {"reformulate_query"} /\ tasks' = Retrievers
      BY <1>3, <1>5, <2>3 DEF ReformulateQuery, Reformulated, Nodes, Retrievers
    <3>2. tasks \cap BeforeAssessment = {} /\ tasks' \cap BeforeAssessment # {}
      BY <3>1 DEF BeforeAssessment, Retrievers
    <3> QED BY <1>1, <2>4, <3>2 DEF AssessedPass
  <2> HIDE DEF e
  <2> QED BY <1>1, <1>2, <2>1, <2>4, <2>5, <2>6, OneEventKeeps
<1>6. CASE SynthesizeAnswer
  <2> DEFINE e == Event("synthesize_answer", "model_call", iteration)
  <2>1. e \in Events /\ e.node \notin Retrievers /\ e.event_type = "model_call"
    BY <1>1 DEF Event, Events, EventTypes, Nodes, Retrievers
  <2>2. UNCHANGED iteration /\ Pending = 0 /\ Pending' = 0
    BY <1>6, <1>3 DEF SynthesizeAnswer, Pending, Retrievers, Nodes
  <2>3. /\ Trace(<<e>>) /\ model_calls' = model_calls + 1
        /\ UNCHANGED <<degraded_components, selected_evidence>>
    BY <1>6 DEF SynthesizeAnswer
  <2>4. AssessedPass' = AssessedPass
    <3>1. tasks = {"synthesize_answer"} /\ tasks' = {"verify_citations"}
      BY <1>3, <1>6 DEF SynthesizeAnswer, Nodes, Retrievers
    <3> QED BY <2>2, <3>1 DEF AssessedPass, BeforeAssessment, Retrievers
  <2> HIDE DEF e
  <2> QED BY <1>2, <2>1, <2>2, <2>3, <2>4, OneEventKeeps
<1>7. ASSUME NEW n \in Nodes \ Retrievers, n \in tasks, NEW t \in EventTypes,
             t # "model_call", Trace(<<Event(n, t, iteration)>>),
             UNCHANGED <<model_calls, iteration>>, tasks' # Retrievers,
             (tasks' \cap BeforeAssessment = {}) = (n \notin BeforeAssessment),
             degraded_components \subseteq degraded_components',
             selected_evidence' \subseteq selected_evidence
      PROVE  RecordInv'
  <2> DEFINE e == Event(n, t, iteration)
  <2>1. e \in Events /\ e.node \notin Retrievers /\ e.event_type # "model_call"
    BY <1>1, <1>7 DEF Event, Events, Nodes, Retrievers
  <2>2. Pending = 0 /\ Pending' = 0
    BY <1>3, <1>7 DEF Pending
  <2>3. Trace(<<e>>) /\ model_calls \in Nat
    BY <1>1, <1>7
  <2>4. AssessedPass' = AssessedPass
    BY <1>3, <1>7 DEF AssessedPass
  <2> HIDE DEF e
  <2> QED BY <1>2, <1>7, <2>1, <2>2, <2>3, <2>4, OneEventKeeps
<1>8. CASE FuseCandidates
  BY <1>7, <1>8 DEF FuseCandidates, Nodes, BeforeAssessment, Retrievers,
        EventTypes
<1>9. CASE RerankCandidates
  BY <1>7, <1>9 DEF RerankCandidates, Nodes, BeforeAssessment, Retrievers,
        EventTypes
<1>10. CASE AnalystAbstains
  BY <1>7, <1>10 DEF AnalystAbstains, Nodes, BeforeAssessment, Retrievers,
        EventTypes
<1>11. CASE AnalystSelects
  BY <1>7, <1>11 DEF AnalystSelects, Nodes, BeforeAssessment, Retrievers,
        EventTypes
<1>12. CASE SynthesizeLimitReached
  BY <1>7, <1>12 DEF SynthesizeLimitReached, Nodes, BeforeAssessment, Retrievers,
        EventTypes
<1>13. CASE VerifyCitations
  BY <1>7, <1>13 DEF VerifyCitations, Nodes, BeforeAssessment, Retrievers,
        EventTypes
<1>14. CASE FinalizeInsufficient
  BY <1>7, <1>14 DEF FinalizeInsufficient, Nodes, BeforeAssessment, Retrievers,
        EventTypes
<1>15. CASE FinalizeTrace
  BY <1>7, <1>15 DEF FinalizeTrace, Nodes, BeforeAssessment, Retrievers,
        EventTypes
<1> QED BY <1>4, <1>5, <1>6, <1>8, <1>9, <1>10, <1>11, <1>12, <1>13, <1>14, <1>15

\* A retriever that finishes has recorded nothing yet.
LEMMA RetrieversRecord ==
    ASSUME RecordInv, LexicalRetrieve \/ VectorRetrieve \/ VectorTimesOut \/ GraphRetrieve
    PROVE  RecordInv'
<1>1. ASSUME NEW n \in Retrievers, NEW update, Finishes(n, update),
             update.event_type \in {"retrieval_completed", "retrieval_timeout"},
             n = "vector_retrieve" /\ update.event_type = "retrieval_timeout" =>
                "vector_retrieval_timeout" \in update.degraded
      PROVE  RecordInv'
  <2>1. /\ DOMAIN writes' = DOMAIN writes \cup {n}
        /\ writes'[n] = update
        /\ \A m \in DOMAIN writes : writes'[m] = writes[m]
    BY <1>1 DEF Finishes
  <2>2. WritesInv'
    BY <1>1, <2>1 DEF RecordInv, WritesInv, Finishes, Runs
  <2>3. TraceInv'
    BY <1>1, SilentKeeps DEF RecordInv, Finishes, record, assessment, planning
  <2> QED BY <2>2, <2>3 DEF RecordInv
<1>2. CASE LexicalRetrieve
  BY <1>1, <1>2 DEF LexicalRetrieve, Retrievers
<1>3. CASE VectorRetrieve
  BY <1>1, <1>3 DEF VectorRetrieve, Retrievers
<1>4. CASE VectorTimesOut
  BY <1>1, <1>4 DEF VectorTimesOut, Retrievers
<1>5. CASE GraphRetrieve
  BY <1>1, <1>5 DEF GraphRetrieve, ConflictUpdate, AmendmentUpdate, Retrievers
<1> QED BY <1>2, <1>3, <1>4, <1>5

\* The fan-in records one event of every retriever, and a timeout with them.
LEMMA FanInRecords == IInv /\ RecordInv /\ FanIn => RecordInv'
<1> SUFFICES ASSUME IInv, RecordInv, FanIn PROVE RecordInv'
  OBVIOUS
<1> DEFINE event(n) == Event(n, writes[n].event_type, iteration)
           t0 == trace_events
           t1 == Append(t0, event("graph_retrieve"))
           t2 == Append(t1, event("lexical_retrieve"))
           t3 == Append(t2, event("vector_retrieve"))
           timeout == writes["vector_retrieve"].event_type = "retrieval_timeout"
<1>1. /\ DOMAIN writes = Retrievers /\ tasks = Retrievers
      /\ tasks' = {"fuse_candidates"} /\ writes' = <<>> /\ phase' = "running"
      /\ degraded_components' =
            degraded_components \cup writes["vector_retrieve"].degraded
      /\ UNCHANGED <<selected_evidence, model_calls, iteration>>
  BY DEF FanIn, assessment, planning
<1>2. iteration \in Nat /\ model_calls \in Nat /\ Pending = 1 /\ Pending' = 0
  BY <1>1 DEF IInv, TypeOK, Pending, Retrievers
<1>3. \A n \in Retrievers :
        /\ writes[n].event_type \in {"retrieval_completed", "retrieval_timeout"}
        /\ event(n) \in Events
        /\ event(n).node = n /\ event(n).event_type = writes[n].event_type
        /\ event(n).event_type # "model_call"
  BY <1>1, <1>2 DEF RecordInv, WritesInv, Event, Events, EventTypes, Nodes
<1>4. t0 \in Seq(Events)
  BY DEF RecordInv, TraceInv
<1>5. trace_events' = t3
  <2>1. trace_events' = t0 \o <<event("graph_retrieve"), event("lexical_retrieve"),
                                event("vector_retrieve")>>
    BY DEF FanIn, Trace
  <2>2. \A a, b, c \in Events :
            t0 \o <<a, b, c>> = Append(Append(Append(t0, a), b), c)
    BY <1>4
  <2> QED BY <1>3, <2>1, <2>2 DEF Retrievers
<1> HIDE DEF event
<1>6. /\ t1 \in Seq(Events)
      /\ \A n : /\ Cardinality(OfNode(t0, n)) \in Nat
                /\ Cardinality(OfNode(t1, n)) = Cardinality(OfNode(t0, n))
                      + (IF "graph_retrieve" = n THEN 1 ELSE 0)
      /\ Cardinality(OfType(t0, "model_call")) \in Nat
      /\ Cardinality(OfType(t1, "model_call")) = Cardinality(OfType(t0, "model_call"))
      /\ \A n, t : Has(t1, n, t) <=>
            Has(t0, n, t) \/ (n = "graph_retrieve" /\ event(n).event_type = t)
      /\ \A p, c : Names(t0, p, c) => Names(t1, p, c)
  BY <1>3, <1>4, AppendCounts DEF Retrievers
<1>7. /\ t2 \in Seq(Events)
      /\ \A n : Cardinality(OfNode(t2, n)) = Cardinality(OfNode(t1, n))
                      + (IF "lexical_retrieve" = n THEN 1 ELSE 0)
      /\ Cardinality(OfType(t2, "model_call")) = Cardinality(OfType(t0, "model_call"))
      /\ \A n, t : Has(t2, n, t) <=>
            Has(t1, n, t) \/ (n = "lexical_retrieve" /\ event(n).event_type = t)
      /\ \A p, c : Names(t1, p, c) => Names(t2, p, c)
  <2> HIDE DEF t1
  <2> QED BY <1>3, <1>6, AppendCounts DEF Retrievers
<1>8. /\ t3 \in Seq(Events)
      /\ \A n : Cardinality(OfNode(t3, n)) = Cardinality(OfNode(t2, n))
                      + (IF "vector_retrieve" = n THEN 1 ELSE 0)
      /\ Cardinality(OfType(t3, "model_call")) = Cardinality(OfType(t0, "model_call"))
      /\ \A n, t : Has(t3, n, t) <=>
            Has(t2, n, t) \/ (n = "vector_retrieve" /\ event(n).event_type = t)
      /\ \A p, c : Names(t2, p, c) => Names(t3, p, c)
  <2> HIDE DEF t2
  <2> QED BY <1>3, <1>7, AppendCounts DEF Retrievers
<1> HIDE DEF t1, t2, t3
<1>9. \A n \in Retrievers :
        Cardinality(OfNode(trace_events', n)) = iteration' - Pending'
  <2>1. \A n \in Retrievers : Cardinality(OfNode(t0, n)) = iteration - 1
    BY <1>2 DEF RecordInv, TraceInv
  <2> QED BY <1>1, <1>2, <1>5, <1>6, <1>7, <1>8, <2>1 DEF Retrievers
<1>10. Has(trace_events', "vector_retrieve", "retrieval_timeout") =>
          "vector_retrieval_timeout" \in degraded_components'
  <2>1. Has(trace_events', "vector_retrieve", "retrieval_timeout") <=>
            Has(t0, "vector_retrieve", "retrieval_timeout") \/ timeout
    BY <1>3, <1>5, <1>6, <1>7, <1>8 DEF Retrievers
  <2>2. timeout => "vector_retrieval_timeout" \in writes["vector_retrieve"].degraded
    BY <1>1 DEF RecordInv, WritesInv, Retrievers
  <2> QED BY <1>1, <2>1, <2>2 DEF RecordInv, TraceInv
<1>11. \A c \in selected_evidence' \cap Suspicious :
          Names(trace_events', AssessedPass', c)
  <2>1. AssessedPass' = AssessedPass
    BY <1>1 DEF AssessedPass, BeforeAssessment, Retrievers
  <2>2. \A p, c : Names(t0, p, c) => Names(trace_events', p, c)
    BY <1>5, <1>6, <1>7, <1>8
  <2>3. \A c \in selected_evidence \cap Suspicious : Names(t0, AssessedPass, c)
    BY DEF RecordInv, TraceInv
  <2> QED BY <1>1, <2>1, <2>2, <2>3
<1>12. Cardinality(OfType(trace_events', "model_call")) = model_calls'
  BY <1>1, <1>5, <1>8 DEF RecordInv, TraceInv
<1>13. WritesInv'
  BY <1>1 DEF WritesInv
<1> QED BY <1>5, <1>8, <1>9, <1>10, <1>11, <1>12, <1>13 DEF RecordInv, TraceInv

\* The assessment records what it flags in the selection it makes.
LEMMA AssessmentRecords == IInv /\ RecordInv /\ AssessEvidence => RecordInv'
<1> SUFFICES ASSUME IInv, RecordInv, AssessEvidence PROVE RecordInv'
  OBVIOUS
<1> DEFINE a == Event("assess_evidence", "evidence_assessed", iteration)
           b == SuspicionEvent(Flagged)
<1>1. /\ selected_evidence' = SelectEvidence
      /\ "assess_evidence" \in tasks /\ tasks' # Retrievers /\ phase' = "running"
      /\ tasks' \cap BeforeAssessment = {}
      /\ UNCHANGED <<writes, degraded_components, model_calls, iteration>>
      /\ trace_events' = trace_events \o
            (<<a>> \o (IF Flagged = {} THEN <<>> ELSE <<b>>))
  <2>1. \E next \in {"analyst_review", "synthesize_answer", "reformulate_query",
                     "finalize_insufficient"} : tasks' = {next}
    BY DEF AssessEvidence, Schedule, RouteAfterAssessment
  <2>2. tasks' # Retrievers /\ tasks' \cap BeforeAssessment = {}
    BY <2>1 DEF BeforeAssessment, Retrievers
  <2> QED BY <2>2 DEF AssessEvidence, Runs, Schedule, Trace, planning
<1>2. iteration \in Nat /\ model_calls \in Nat /\ trace_events \in Seq(Events)
  BY DEF IInv, TypeOK, RecordInv, TraceInv
<1>3. Pending = 0 /\ Pending' = 0
  BY <1>1 DEF Pending, Retrievers
<1>4. /\ a \in Events /\ a.node = "assess_evidence"
      /\ a.node \notin Retrievers /\ a.event_type = "evidence_assessed"
      /\ b \in Events /\ b.node = "assess_evidence"
      /\ b.node \notin Retrievers /\ b.event_type = "suspicious_evidence_flagged"
      /\ \A c \in Flagged : FlagOf(b, iteration, c)
  <2>1. Flagged \subseteq Clauses
    BY ClausesAssumption DEF Flagged
  <2> QED BY <1>2, <2>1 DEF Event, SuspicionEvent, Events, EventTypes, Nodes, Retrievers,
                            FlagOf
<1> HIDE DEF a, b
<1>5. WritesInv'
  BY <1>1 DEF RecordInv, WritesInv
<1>6. CASE Flagged = {}
  <2>1. Trace(<<a>>) /\ selected_evidence' \cap Suspicious = {}
    BY <1>1, <1>6 DEF Trace, Flagged
  <2> QED BY <1>1, <1>2, <1>3, <1>4, <1>5, <2>1, OneEventKeeps DEF RecordInv
<1>7. CASE Flagged # {}
  <2> DEFINE t0 == trace_events
             t1 == Append(t0, a)
             t2 == Append(t1, b)
  <2>1. trace_events' = t2
    <3>1. \A c, d \in Events :
            trace_events \o (<<c>> \o <<d>>) = Append(Append(trace_events, c), d)
      BY <1>2
    <3> QED BY <1>1, <1>4, <1>7, <3>1
  <2>2. /\ t1 \in Seq(Events)
        /\ \A n \in Retrievers : Cardinality(OfNode(t1, n)) = Cardinality(OfNode(t0, n))
        /\ Cardinality(OfType(t1, "model_call")) = Cardinality(OfType(t0, "model_call"))
        /\ Has(t1, "vector_retrieve", "retrieval_timeout") =>
              Has(t0, "vector_retrieve", "retrieval_timeout")
    BY <1>2, <1>4, AppendCounts
  <2>3. /\ t2 \in Seq(Events)
        /\ \A n \in Retrievers : Cardinality(OfNode(t2, n)) = Cardinality(OfNode(t0, n))
        /\ Cardinality(OfType(t2, "model_call")) = Cardinality(OfType(t0, "model_call"))
        /\ Has(t2, "vector_retrieve", "retrieval_timeout") =>
              Has(t0, "vector_retrieve", "retrieval_timeout")
        /\ \A c \in Flagged : Names(t2, iteration, c)
    <3> HIDE DEF t1
    <3> QED BY <1>4, <2>2, AppendCounts
  <2> HIDE DEF t2
  <2>4. \A c \in selected_evidence' \cap Suspicious :
            Names(trace_events', AssessedPass', c)
    <3>1. AssessedPass' = iteration /\ selected_evidence' \cap Suspicious = Flagged
      BY <1>1 DEF AssessedPass, Flagged
    <3> QED BY <2>1, <2>3, <3>1
  <2>5. TraceInv'
    BY <1>1, <1>3, <2>1, <2>3, <2>4 DEF RecordInv, TraceInv
  <2> QED BY <1>5, <2>5 DEF RecordInv
<1> QED BY <1>6, <1>7

\* The engine and the application record nothing themselves.
LEMMA EngineRecordsNothing ==
    ASSUME RecordInv,
           \/ Interrupt \/ Resume \/ Finish \/ ProviderFails \/ GraphRetrieveFails
           \/ OutOfSteps \/ UNCHANGED vars
    PROVE  RecordInv'
<1>1. /\ UNCHANGED <<writes, trace_events, degraded_components,
                     selected_evidence, model_calls, iteration, tasks>>
      /\ phase' = "done" => phase = "done" \/ tasks = {}
  BY DEF Interrupt, Resume, Finish, ProviderFails, GraphRetrieveFails, OutOfSteps,
         Raise, vars, engine, config, assessment, planning, record
<1>2. WritesInv'
  BY <1>1 DEF RecordInv, WritesInv
<1> QED BY <1>1, <1>2, SilentKeeps DEF RecordInv

\* The trace is inductive together with the schedule of the run.
LEMMA TraceInvariant == Spec => [](IInv /\ RecordInv)
<1>1. Init => RecordInv
  <2> SUFFICES ASSUME Init PROVE RecordInv
    OBVIOUS
  <2>1. /\ trace_events = <<>> /\ DOMAIN writes = {} /\ selected_evidence = {}
        /\ model_calls = 0 /\ iteration = 0 /\ tasks = {"analyze_and_plan"}
        /\ phase = "running"
    BY DEF Init
  <2>2. /\ trace_events \in Seq(Events)
        /\ \A n : OfNode(trace_events, n) = {}
        /\ \A t : OfType(trace_events, t) = {}
        /\ \A n, t : ~ Has(trace_events, n, t)
    BY <2>1 DEF OfNode, OfType, Has
  <2>3. Pending = 0 /\ Cardinality({}) = 0
    BY <2>1, FS_EmptySet DEF Pending, Retrievers
  <2>4. WritesInv
    BY <2>1 DEF WritesInv
  <2>5. /\ Cardinality(OfType(trace_events, "model_call")) = 0
        /\ \A n \in Retrievers : Cardinality(OfNode(trace_events, n)) = 0
    BY <2>2, <2>3
  <2> QED BY <2>1, <2>2, <2>3, <2>4, <2>5 DEF RecordInv, TraceInv
<1>2. IInv /\ RecordInv /\ [Next]_vars => RecordInv'
  BY NodesRecord, RetrieversRecord, FanInRecords, AssessmentRecords,
     EngineRecordsNothing DEF Next, Invoke
<1> QED BY <1>1, <1>2, WorkflowInvariant, PTL DEF Spec

\* No suspicious clause is handed out unless the assessment of the last pass
\* has named it in the trace.
THEOREM SuspiciousEvidenceIsAlwaysTraced == Spec => []SuspiciousEvidenceIsTraced
<1>1. RecordInv => SuspiciousEvidenceIsTraced
  <2> SUFFICES ASSUME RecordInv, phase = "done",
                      NEW c \in Result.evidence \cap Suspicious
               PROVE  \E i \in EventsOf("assess_evidence") :
                        /\ trace_events[i].event_type = "suspicious_evidence_flagged"
                        /\ trace_events[i].iteration = Result.iterations
                        /\ c \in trace_events[i].findings
    BY DEF SuspiciousEvidenceIsTraced
  <2>1. c \in selected_evidence \cap Suspicious /\ Result.iterations = iteration
    BY DEF Result
  <2>2. AssessedPass = iteration
    BY DEF RecordInv, WritesInv, AssessedPass
  <2>3. Names(trace_events, iteration, c)
    BY <2>1, <2>2 DEF RecordInv, TraceInv
  <2> QED BY <2>1, <2>3 DEF Names, FlagOf, EventsOf
<1> QED BY <1>1, TraceInvariant, PTL

\* A timeout of either pass is named by the result.
THEOREM TimeoutsAreAlwaysDisclosed == Spec => []TimeoutsAreDisclosed
<1>1. RecordInv => TimeoutsAreDisclosed
  BY DEF RecordInv, TraceInv, Has, EventsOf, TimeoutsAreDisclosed, Result
<1> QED BY <1>1, TraceInvariant, PTL

\* Whatever the order in which the retrievers finish, the trace has one event
\* of each for every pass, and one for every model call.
THEOREM TraceAlwaysAccounts == Spec => []TraceAccountsForTheRun
<1>1. RecordInv => TraceAccountsForTheRun
  BY DEF RecordInv, TraceInv, OfNode, OfType, EventsOf, ModelCalls, Pending,
         TraceAccountsForTheRun
<1> QED BY <1>1, TraceInvariant, PTL

------------------------------------------------------------------------------

GraphUpdate == IF plan.intent = Conflict THEN ConflictUpdate ELSE AmendmentUpdate

\* The run is on its way from the retrievers to the assessment.
Collecting ==
    \/ tasks = Retrievers
    \/ "fuse_candidates" \in tasks \/ "rerank_candidates" \in tasks
    \/ "assess_evidence" \in tasks

OtherThanBase(reasons) == reasons \ {"base_clause"}

\* The graph retriever returns the same in both passes, so the second pass
\* starts with the shortfall the first one ended with, but for the base clause.
PassInv ==
    /\ tasks = Retrievers \/ tasks \cap Retrievers = {}
    /\ tasks # Retrievers => DOMAIN writes = {}
    /\ "graph_retrieve" \in DOMAIN writes => writes["graph_retrieve"] = GraphUpdate
    /\ iteration >= 1 /\ ~ (iteration = 1 /\ tasks = Retrievers) =>
          graph_results = GraphUpdate.results /\ graph_paths = GraphUpdate.paths
    /\ "reformulate_query" \in tasks \/ (iteration = 2 /\ Collecting) =>
          OtherThanBase(insufficiency_reasons)
              = OtherThanBase(plan.required_evidence \ Satisfied)

\* What the graph retriever returns depends on nothing a pass changes.
LEMMA GraphUpdateFacts ==
    ASSUME UNCHANGED <<plan, limits, triples>>
    PROVE  GraphUpdate' = GraphUpdate
BY DEF GraphUpdate, ConflictUpdate, AmendmentUpdate

\* Of the evidence contract only the base clause looks at the other retrievers.
LEMMA ShortfallFacts ==
    ASSUME UNCHANGED <<plan, graph_results, graph_paths>>
    PROVE  OtherThanBase(plan.required_evidence \ Satisfied)'
              = OtherThanBase(plan.required_evidence \ Satisfied)
<1>1. \A r \in Requirements \ {"base_clause"} : r \in Satisfied' <=> r \in Satisfied
  BY DEF Satisfied, Requirements
<1>2. Satisfied \subseteq Requirements /\ Satisfied' \subseteq Requirements
  BY DEF Satisfied
<1> QED BY <1>1, <1>2 DEF OtherThanBase

\* A step within a pass that neither schedules a new one nor fans one in.
LEMMA WithinPassKeeps ==
    ASSUME PassInv,
           UNCHANGED <<plan, limits, triples, iteration, graph_results, graph_paths,
                       writes, insufficiency_reasons>>,
           tasks' = Retrievers <=> tasks = Retrievers,
           "reformulate_query" \in tasks' => "reformulate_query" \in tasks,
           tasks' = Retrievers \/ tasks' \cap Retrievers = {},
           Collecting' => Collecting
    PROVE  PassInv'
<1>1. GraphUpdate' = GraphUpdate
  BY GraphUpdateFacts
<1>2. OtherThanBase(plan.required_evidence \ Satisfied)'
              = OtherThanBase(plan.required_evidence \ Satisfied)
  BY ShortfallFacts
<1>3. /\ tasks' # Retrievers => DOMAIN writes' = {}
      /\ "graph_retrieve" \in DOMAIN writes' => writes'["graph_retrieve"] = GraphUpdate'
      /\ iteration' >= 1 /\ ~ (iteration' = 1 /\ tasks' = Retrievers) =>
            graph_results' = GraphUpdate'.results /\ graph_paths' = GraphUpdate'.paths
  BY <1>1 DEF PassInv
<1>4. OtherThanBase(insufficiency_reasons)' = OtherThanBase(insufficiency_reasons)
  BY DEF OtherThanBase
<1>5. "reformulate_query" \in tasks' \/ (iteration' = 2 /\ Collecting') =>
          OtherThanBase(insufficiency_reasons)'
              = OtherThanBase(plan.required_evidence \ Satisfied)'
  BY <1>2, <1>4 DEF PassInv
<1> QED BY <1>3, <1>5 DEF PassInv

\* Nodes and engine steps that stay within the pass.
LEMMA OtherStepsStayInThePass ==
    ASSUME IInv, PassInv,
           \/ FuseCandidates \/ RerankCandidates \/ AnalystSelects
           \/ SynthesizeAnswer \/ SynthesizeLimitReached \/ VerifyCitations
           \/ FinalizeInsufficient \/ FinalizeTrace \/ Interrupt \/ Resume
           \/ Finish \/ ProviderFails \/ GraphRetrieveFails \/ OutOfSteps
           \/ UNCHANGED vars
    PROVE  PassInv'
<1> USE DEF config, retrieval, assessment, planning
<1>1. UNCHANGED <<plan, limits, triples, iteration, graph_results, graph_paths,
                  writes, insufficiency_reasons>>
  BY DEF FuseCandidates, RerankCandidates, AnalystSelects, SynthesizeAnswer,
         SynthesizeLimitReached, VerifyCitations, FinalizeInsufficient,
         FinalizeTrace, Interrupt, Resume, Finish, ProviderFails,
         GraphRetrieveFails, OutOfSteps, Raise, Schedule, vars, engine
<1>2. tasks = Retrievers \/ \A m, n \in tasks : m = n
  BY DEF IInv, ScheduleInv
<1>3. /\ tasks' = Retrievers <=> tasks = Retrievers
      /\ "reformulate_query" \in tasks' => "reformulate_query" \in tasks
      /\ tasks' = Retrievers \/ tasks' \cap Retrievers = {}
      /\ Collecting' => Collecting
  <2>1. CASE UNCHANGED tasks
    BY <2>1 DEF Collecting, PassInv
  <2>2. CASE FuseCandidates
    BY <2>2 DEF FuseCandidates, Runs, Schedule, Collecting, Retrievers
  <2>3. CASE RerankCandidates
    BY <2>3 DEF RerankCandidates, Runs, Schedule, Collecting, Retrievers
  <2>4. CASE /\ \/ AnalystSelects \/ SynthesizeAnswer \/ SynthesizeLimitReached
                \/ VerifyCitations \/ FinalizeInsufficient \/ FinalizeTrace
    <3>1. /\ tasks' \in {{"verify_citations"}, {"finalize_trace"}, {}}
          /\ tasks # Retrievers
      BY <2>4 DEF AnalystSelects, SynthesizeAnswer, SynthesizeLimitReached,
                  VerifyCitations, FinalizeInsufficient, FinalizeTrace, Schedule,
                  Runs, Retrievers
    <3> QED BY <3>1 DEF Collecting, Retrievers
  <2> QED BY <2>1, <2>2, <2>3, <2>4
          DEF Interrupt, Resume, Finish, ProviderFails, GraphRetrieveFails,
              OutOfSteps, Raise, vars, engine
<1> QED BY <1>1, <1>3, WithinPassKeeps

\* The steps that start, fill, fan in and assess a pass.
LEMMA PassStepsKeep ==
    ASSUME IInv, PassInv,
           \/ AnalyzeAndPlan \/ LexicalRetrieve \/ VectorRetrieve \/ VectorTimesOut
           \/ GraphRetrieve \/ FanIn \/ AssessEvidence \/ AnalystAbstains
           \/ ReformulateQuery
    PROVE  PassInv'
<1> USE DEF config, retrieval, assessment, planning
<1>0. iteration \in Nat
  BY DEF IInv, TypeOK
<1>1. CASE AnalyzeAndPlan
  <2>1. /\ tasks' = Retrievers /\ iteration' = 1 /\ DOMAIN writes' = {}
    BY <1>1 DEF AnalyzeAndPlan, Runs, Schedule, PassInv, Retrievers
  <2> QED BY <2>1 DEF PassInv, Retrievers
<1>2. ASSUME NEW n \in Retrievers, NEW update, Finishes(n, update),
             n = "graph_retrieve" => update = GraphUpdate
      PROVE  PassInv'
  <2>1. /\ tasks = Retrievers /\ tasks' = tasks
        /\ DOMAIN writes' = DOMAIN writes \cup {n}
        /\ writes'[n] = update
        /\ \A m \in DOMAIN writes : writes'[m] = writes[m]
        /\ UNCHANGED <<plan, limits, triples, iteration, graph_results, graph_paths,
                       insufficiency_reasons>>
    <3>1. n \in tasks /\ tasks' = tasks
      BY <1>2 DEF Finishes, Runs
    <3>2. tasks = Retrievers
      BY <3>1 DEF PassInv
    <3> QED BY <1>2, <3>1, <3>2 DEF Finishes
  <2>2. GraphUpdate' = GraphUpdate
    BY <2>1, GraphUpdateFacts
  <2>3. OtherThanBase(plan.required_evidence \ Satisfied)'
              = OtherThanBase(plan.required_evidence \ Satisfied)
    BY <2>1, ShortfallFacts
  <2>4. "graph_retrieve" \in DOMAIN writes' => writes'["graph_retrieve"] = GraphUpdate'
    BY <1>2, <2>1, <2>2 DEF PassInv
  <2>5. OtherThanBase(insufficiency_reasons)' = OtherThanBase(insufficiency_reasons)
        /\ Collecting' = Collecting
    BY <2>1 DEF OtherThanBase, Collecting
  <2>6. iteration' >= 1 /\ ~ (iteration' = 1 /\ tasks' = Retrievers) =>
            graph_results' = GraphUpdate'.results /\ graph_paths' = GraphUpdate'.paths
    BY <2>1, <2>2 DEF PassInv
  <2>7. "reformulate_query" \in tasks' \/ (iteration' = 2 /\ Collecting') =>
          OtherThanBase(insufficiency_reasons)'
              = OtherThanBase(plan.required_evidence \ Satisfied)'
    BY <2>1, <2>3, <2>5 DEF PassInv
  <2> QED BY <2>1, <2>4, <2>6, <2>7 DEF PassInv
<1>3. CASE LexicalRetrieve \/ VectorRetrieve \/ VectorTimesOut \/ GraphRetrieve
  BY <1>2, <1>3 DEF LexicalRetrieve, VectorRetrieve, VectorTimesOut, GraphRetrieve,
                    GraphUpdate, Retrievers
<1>4. CASE FanIn
  <2>1. /\ tasks = Retrievers /\ DOMAIN writes = Retrievers
        /\ tasks' = {"fuse_candidates"} /\ DOMAIN writes' = {}
        /\ graph_results' = writes["graph_retrieve"].results
        /\ graph_paths' = writes["graph_retrieve"].paths
        /\ UNCHANGED <<plan, limits, triples, iteration, insufficiency_reasons>>
    BY <1>4 DEF FanIn
  <2>2. writes["graph_retrieve"] = GraphUpdate /\ GraphUpdate' = GraphUpdate
    BY <2>1, GraphUpdateFacts DEF PassInv, Retrievers
  <2>3. graph_results' = GraphUpdate'.results /\ graph_paths' = GraphUpdate'.paths
    BY <2>1, <2>2
  <2>4. ASSUME iteration = 2
        PROVE  OtherThanBase(insufficiency_reasons)'
                  = OtherThanBase(plan.required_evidence \ Satisfied)'
    <3>1. UNCHANGED <<graph_results, graph_paths>>
      BY <2>2, <2>3, <2>4 DEF PassInv
    <3>2. OtherThanBase(insufficiency_reasons)
              = OtherThanBase(plan.required_evidence \ Satisfied)
      BY <2>1, <2>4 DEF PassInv, Collecting
    <3> QED BY <2>1, <3>1, <3>2, ShortfallFacts DEF OtherThanBase
  <2> QED BY <2>1, <2>3, <2>4 DEF PassInv, Retrievers
<1>5. CASE AssessEvidence
  <2>1. /\ "assess_evidence" \in tasks
        /\ insufficiency_reasons' = plan.required_evidence \ Satisfied
        /\ UNCHANGED <<plan, limits, triples, iteration, writes, graph_results,
                       graph_paths>>
    BY <1>5 DEF AssessEvidence, Runs, Schedule
  <2>2. /\ tasks # Retrievers /\ tasks' # Retrievers
        /\ tasks' \cap Retrievers = {}
    <3>1. tasks' = {RouteAfterAssessment(review_required', evidence_sufficient')}
      BY <1>5 DEF AssessEvidence, Schedule
    <3>2. RouteAfterAssessment(review_required', evidence_sufficient') \notin Retrievers
      BY DEF RouteAfterAssessment, Retrievers
    <3>3. tasks # Retrievers
      BY <2>1 DEF Retrievers
    <3> QED BY <3>1, <3>2, <3>3 DEF Retrievers
  <2>3. GraphUpdate' = GraphUpdate
    BY <2>1, GraphUpdateFacts
  <2>4. OtherThanBase(insufficiency_reasons)'
              = OtherThanBase(plan.required_evidence \ Satisfied)'
    BY <2>1, ShortfallFacts DEF OtherThanBase
  <2> QED BY <2>1, <2>2, <2>3, <2>4 DEF PassInv
<1>6. CASE AnalystAbstains
  <2>1. /\ "analyst_review" \in tasks /\ tasks' = {"finalize_trace"}
        /\ UNCHANGED <<plan, limits, triples, iteration, writes, graph_results,
                       graph_paths>>
    BY <1>6 DEF AnalystAbstains, Runs, Schedule
  <2>2. /\ tasks # Retrievers /\ tasks' # Retrievers /\ ~ Collecting'
        /\ tasks' \cap Retrievers = {}
    BY <2>1 DEF Retrievers, Collecting
  <2>3. GraphUpdate' = GraphUpdate
    BY <2>1, GraphUpdateFacts
  <2> QED BY <2>1, <2>2, <2>3 DEF PassInv
<1>7. CASE ReformulateQuery
  <2>1. "reformulate_query" \in tasks /\ tasks' = Retrievers /\ UNCHANGED writes
    BY <1>7 DEF ReformulateQuery, Runs, Schedule
  <2>2. model_calls < limits.max_model_calls /\ iteration \in 1..1
    <3>1. /\ model_calls = iteration /\ iteration < limits.max_retrieval_iterations
          /\ iteration >= 1
      BY <2>1 DEF IInv, ScheduleInv, Punctual
    <3> QED BY <1>0, <3>1, LimitFacts DEF IInv, TypeOK
  <2>3. /\ iteration' = 2
        /\ UNCHANGED <<plan, limits, triples, graph_results, graph_paths,
                       insufficiency_reasons>>
    BY <1>7, <2>2 DEF ReformulateQuery, Reformulated
  <2>4. GraphUpdate' = GraphUpdate
    BY <2>3, GraphUpdateFacts
  <2>5. tasks # Retrievers /\ DOMAIN writes' = {}
    BY <2>1 DEF PassInv, Retrievers
  <2>6. graph_results' = GraphUpdate'.results /\ graph_paths' = GraphUpdate'.paths
    BY <2>2, <2>3, <2>4, <2>5 DEF PassInv
  <2>7. OtherThanBase(insufficiency_reasons)'
              = OtherThanBase(plan.required_evidence \ Satisfied)'
    BY <2>1, <2>3, ShortfallFacts DEF PassInv, OtherThanBase
  <2> QED BY <2>1, <2>5, <2>6, <2>7 DEF PassInv
<1> QED BY <1>1, <1>3, <1>4, <1>5, <1>6, <1>7

\* Retrieval is repeated, the graph is not: whatever the second pass finds,
\* only the shortfall of the base clause can disappear.
THEOREM SecondPassOnlyEverFindsTheBase == Spec => SecondPassOnlyFindsTheBase
<1>1. Init => PassInv
  BY DEF Init, PassInv, Retrievers, Collecting
<1>2. IInv /\ PassInv /\ [Next]_vars => PassInv'
  BY PassStepsKeep, OtherStepsStayInThePass DEF Next, Invoke
<1>3. IInv /\ PassInv /\ [Next]_vars =>
        [tasks = {"assess_evidence"} /\ iteration = 2 /\ phase' = "running" =>
          insufficiency_reasons' \ {"base_clause"} =
          insufficiency_reasons \ {"base_clause"}]_vars
  <2> SUFFICES ASSUME IInv, PassInv, Next, tasks = {"assess_evidence"},
                      iteration = 2, phase' = "running"
               PROVE  insufficiency_reasons' \ {"base_clause"} =
                      insufficiency_reasons \ {"base_clause"}
    OBVIOUS
  <2>1. phase # "interrupted"
    BY DEF IInv, ScheduleInv
  <2>2. AssessEvidence \/ UNCHANGED insufficiency_reasons
    BY <2>1 DEF Next, Invoke, Runs, Finishes, Retrievers, AnalyzeAndPlan,
                LexicalRetrieve, VectorRetrieve, VectorTimesOut, GraphRetrieve,
                FanIn, FuseCandidates, RerankCandidates, Interrupt,
                AnalystAbstains, AnalystSelects, ReformulateQuery,
                SynthesizeAnswer, SynthesizeLimitReached, VerifyCitations,
                FinalizeInsufficient, FinalizeTrace, ProviderFails,
                GraphRetrieveFails, OutOfSteps, Raise, Finish, Resume, assessment
  <2>3. OtherThanBase(insufficiency_reasons)
              = OtherThanBase(plan.required_evidence \ Satisfied)
    BY DEF PassInv, Collecting
  <2> QED BY <2>2, <2>3 DEF AssessEvidence, OtherThanBase
<1> QED BY <1>1, <1>2, <1>3, WorkflowInvariant, PTL
        DEF Spec, SecondPassOnlyFindsTheBase

(***************************************************************************)
(* A run keeps the promises of AbstractRun: it settles once, is decided    *)
(* once, and the decision alone then fixes how it ends.                    *)
(***************************************************************************)

\* What an invocation that returns now tells its caller.
Ending ==
    [status |-> status, answer |-> answer,
     explained |-> insufficiency_reasons \cup errors # {}]

\* The nodes before the assessment has decided what kind of answer there is.
Gathering ==
    Retrievers \cup
    {"analyze_and_plan", "fuse_candidates", "rerank_candidates",
     "assess_evidence", "reformulate_query"}

Runnable(nodes) == tasks \cap nodes # {}

\* What is passed on to verify_citations: the model's answer, nothing at all
\* when the model may not be called any more, or what the analyst selected.
Verifiable ==
    \/ decision = None /\ answer = Model /\ errors = {}
    \/ decision = None /\ answer = None /\ claims = {}
    \/ /\ decision \in Clauses /\ answer = decision /\ errors = {}
       /\ claims = {{decision}} /\ selected_evidence = {decision}

\* The reasons, the answer and the decision fit each other: a run has neither
\* answer nor error before it has settled what kind of answer it gives, gives
\* reasons exactly when it abstains, and ends as its decision says.
PromiseInv ==
    /\ phase = "interrupted" => decision = None
    /\ Runnable(Gathering \cup {"analyst_review", "synthesize_answer",
                                "finalize_insufficient"}) =>
          answer = None /\ errors = {} /\ claims = {}
    /\ Runnable(Gathering \cup {"synthesize_answer", "finalize_insufficient"}) =>
          decision = None
    /\ Runnable({"analyst_review", "synthesize_answer", "verify_citations"}) =>
          insufficiency_reasons = {}
    /\ Runnable({"finalize_insufficient"}) => insufficiency_reasons # {}
    /\ Runnable({"verify_citations"}) => Verifiable
    /\ tasks \subseteq {"finalize_trace"} =>
          \/ decision = None /\ Ending \in Run!RunOutcomes
          \/ decision # None /\ Ending = Run!ReviewOutcome(decision)

\* The selection is cut off at the evidence bound, so the bound is never what
\* makes evidence insufficient: an insufficient assessment has a reason.
LEMMA SelectionFits ==
    ASSUME limits \in RunLimits
    PROVE  Cardinality(SelectEvidence) <= limits.max_evidence_items
<1> DEFINE wanted == {plan.base_clause_id}
                       \cup {x.clause_id : x \in graph_results}
                       \cup {s.source_clause_id : s \in graph_paths}
           known == wanted \cap Clauses
           n == limits.max_evidence_items
           below(c) == {d \in known : d < c}
           place == [c \in SelectEvidence |-> Cardinality(below(c))]
<1>1. SelectEvidence = {c \in known : Cardinality(below(c)) < n}
  BY DEF SelectEvidence
<1>2. known \subseteq Nat
  BY ClausesAssumption
<1>3. n \in Nat \ {0}
  BY DEF RunLimits
<1> HIDE DEF known, n
<1>4. ASSUME NEW c \in known
      PROVE  IsFiniteSet(below(c)) /\ Cardinality(below(c)) \in Nat
  <2>1. c \in Nat
    BY <1>2
  <2>2. \A d \in below(c) : d \in 0..c
    BY <2>1, <1>2
  <2>3. below(c) \in SUBSET (0..c)
    BY <2>2
  <2> HIDE DEF below
  <2>4. IsFiniteSet(0..c)
    BY <2>1, FS_Interval
  <2>5. IsFiniteSet(below(c))
    BY <2>3, <2>4, FS_Subset
  <2> QED BY <2>5, FS_CardinalityType
<1>5. ASSUME NEW c \in known, NEW d \in known, c < d
      PROVE  Cardinality(below(c)) < Cardinality(below(d))
  <2>1. c \in Nat /\ d \in Nat
    BY <1>2
  <2>2. \A e \in known : e \in Nat /\ (e < c => e < d)
    BY <1>5, <2>1, <1>2
  <2>3. c < d /\ ~ (c < c)
    BY <1>5, <2>1
  <2>4. /\ below(c) \in SUBSET below(d)
        /\ c \in below(d) /\ c \notin below(c)
    BY <2>2, <2>3
  <2>5. /\ IsFiniteSet(below(d)) /\ Cardinality(below(d)) \in Nat
        /\ Cardinality(below(c)) \in Nat
    BY <1>4
  <2> HIDE DEF below
  <2>6. /\ Cardinality(below(c)) <= Cardinality(below(d))
        /\ Cardinality(below(d)) = Cardinality(below(c)) => below(d) = below(c)
    BY <2>4, <2>5, FS_Subset
  <2> QED BY <2>4, <2>5, <2>6
<1> HIDE DEF below
<1>6. ASSUME NEW c \in known, NEW d \in known,
             Cardinality(below(c)) = Cardinality(below(d))
      PROVE  c = d
  <2>1. c \in Nat /\ d \in Nat
    BY <1>2
  <2>2. ~ (c < d) /\ ~ (d < c)
    BY <1>4, <1>5, <1>6
  <2> QED BY <2>1, <2>2
<1>7. \A c \in SelectEvidence :
        c \in known /\ Cardinality(below(c)) \in 0..(n - 1)
  BY <1>1, <1>3, <1>4
<1>8. place \in Injection(SelectEvidence, 0..(n - 1))
  BY <1>6, <1>7 DEF Injection, IsInjective
<1>9. IsFiniteSet(0..(n - 1)) /\ Cardinality(0..(n - 1)) = n
  BY <1>3, FS_Interval
<1> HIDE DEF place
<1>10. Cardinality(SelectEvidence) <= Cardinality(0..(n - 1))
  BY <1>8, <1>9, FS_Injection
<1> QED BY <1>9, <1>10 DEF n

\* The planner, the retrievers and the recovery settle nothing.
LEMMA GatheringKeepsPromises ==
    ASSUME IInv, PromiseInv,
           AnalyzeAndPlan \/ FanIn \/ FuseCandidates \/ RerankCandidates
               \/ ReformulateQuery
    PROVE  PromiseInv'
<1>1. /\ Runnable(Gathering) /\ tasks' \subseteq Gathering /\ tasks' # {}
      /\ UNCHANGED <<phase, decision, assessment, claims, citations, answer, status>>
  BY DEF AnalyzeAndPlan, FanIn, FuseCandidates, RerankCandidates, Runs, Schedule,
         ReformulateQuery, Runnable, Gathering, Retrievers, assessment, answering
<1>2. UNCHANGED errors
  <2>1. ReformulateQuery => model_calls < limits.max_model_calls
    <3> SUFFICES ASSUME ReformulateQuery PROVE model_calls < limits.max_model_calls
      OBVIOUS
    <3>1. model_calls = iteration /\ iteration < limits.max_retrieval_iterations
      BY DEF ReformulateQuery, Runs, IInv, ScheduleInv, Punctual
    <3>2. limits \in RunLimits /\ iteration \in Nat
      BY DEF IInv, TypeOK
    <3> QED BY <3>1, <3>2, LimitFacts
  <2> QED BY <2>1 DEF AnalyzeAndPlan, FanIn, FuseCandidates, RerankCandidates,
                      ReformulateQuery, Reformulated
<1>3. /\ ~ Runnable({"analyst_review", "synthesize_answer", "verify_citations"})'
      /\ ~ Runnable({"finalize_insufficient"})'
      /\ ~ Runnable({"verify_citations"})'
      /\ ~ (tasks' \subseteq {"finalize_trace"})
  BY <1>1 DEF Runnable, Gathering, Retrievers
<1>4. answer = None /\ errors = {} /\ claims = {} /\ decision = None
  BY <1>1 DEF PromiseInv, Runnable
<1> QED BY <1>1, <1>2, <1>3, <1>4 DEF PromiseInv

\* What ends or suspends an invocation changes no key of the state.
LEMMA SilenceKeepsPromises ==
    ASSUME PromiseInv,
           UNCHANGED <<tasks, decision, assessment, answering, errors>>,
           phase' = "interrupted" => decision = None
    PROVE  PromiseInv'
<1> USE DEF assessment, answering
<1>1. Ending' = Ending
  BY DEF Ending
<1>2. Verifiable' <=> Verifiable
  BY DEF Verifiable
<1> QED BY <1>1, <1>2 DEF PromiseInv, Runnable

\* The assessment gives reasons exactly when the run will neither answer nor
\* ask for a review.
LEMMA AssessmentKeepsPromises ==
    ASSUME IInv, PromiseInv, AssessEvidence
    PROVE  PromiseInv'
<1> DEFINE missing == plan.required_evidence \ Satisfied
           sufficient ==
              /\ missing = {}
              /\ Cardinality(SelectEvidence) <= limits.max_evidence_items
           paused == /\ plan.intent = Conflict
                     /\ {"competing_evidence", "unresolved_precedence"}
                           \subseteq Satisfied
                     /\ sufficient
           route == RouteAfterAssessment(paused, sufficient)
<1>1. /\ "assess_evidence" \in tasks /\ phase = "running"
      /\ insufficiency_reasons' = missing /\ tasks' = {route}
      /\ UNCHANGED <<phase, decision, answer, claims, errors>>
  BY DEF AssessEvidence, Runs, Schedule
<1>2. Cardinality(SelectEvidence) <= limits.max_evidence_items
  BY SelectionFits DEF IInv, TypeOK
<1>3. /\ route \in {"analyst_review", "synthesize_answer", "reformulate_query",
                    "finalize_insufficient"}
      /\ route \in {"analyst_review", "synthesize_answer"} => missing = {}
      /\ route = "finalize_insufficient" => missing # {}
  BY <1>2 DEF RouteAfterAssessment
<1>4. answer = None /\ errors = {} /\ claims = {} /\ decision = None
  BY <1>1 DEF PromiseInv, Runnable, Gathering
<1> HIDE DEF missing, route
<1> QED BY <1>1, <1>3, <1>4 DEF PromiseInv, Runnable, Gathering, Retrievers

\* The analyst's decision is all that a resumed run adds.
LEMMA ResumeKeepsPromises ==
    ASSUME IInv, PromiseInv, Resume
    PROVE  PromiseInv'
<1>1. tasks = {"analyst_review"} /\ phase' = "running"
  <2>1. tasks = Retrievers \/ \A m, n \in tasks : m = n
    BY DEF IInv, ScheduleInv
  <2> QED BY <2>1 DEF IInv, ScheduleInv, Retrievers, Resume
<1>2. UNCHANGED <<tasks, assessment, answering, errors>>
  BY DEF Resume, record
<1> QED BY <1>1, <1>2
        DEF PromiseInv, Runnable, Gathering, Retrievers, assessment, answering

\* An abstention is given with its reasons, a selection as the whole answer.
LEMMA ReviewKeepsPromises ==
    ASSUME IInv, PromiseInv, AnalystAbstains \/ AnalystSelects
    PROVE  PromiseInv'
<1>1. /\ Runnable({"analyst_review"}) /\ phase = "running" /\ errors = {}
      /\ UNCHANGED <<phase, decision, errors>>
  BY DEF AnalystAbstains, AnalystSelects, Runs, Schedule, Runnable, PromiseInv
<1>2. CASE AnalystAbstains
  <2>1. tasks' = {"finalize_trace"} /\ decision' = Abstain
    BY <1>1, <1>2 DEF AnalystAbstains, Schedule
  <2>2. Ending' = Run!ReviewOutcome(decision)'
    BY <1>1, <1>2, <2>1 DEF AnalystAbstains, Ending, Run!ReviewOutcome
  <2> QED BY <1>1, <2>1, <2>2, MarkersAssumption
          DEF PromiseInv, Runnable, Gathering, Retrievers
<1>3. CASE AnalystSelects
  <2>1. /\ tasks' = {"verify_citations"} /\ UNCHANGED insufficiency_reasons
        /\ decision \in Clauses /\ answer' = decision
        /\ claims' = {{decision}} /\ selected_evidence' = {decision}
    BY <1>3 DEF AnalystSelects, Schedule, IInv, TypeOK
  <2>2. insufficiency_reasons = {}
    BY <1>1 DEF PromiseInv, Runnable
  <2> QED BY <1>1, <2>1, <2>2
          DEF PromiseInv, Runnable, Gathering, Retrievers, Verifiable
<1> QED BY <1>2, <1>3

\* The model answers, or there is nothing to verify.
LEMMA SynthesisKeepsPromises ==
    ASSUME IInv, PromiseInv, SynthesizeAnswer \/ SynthesizeLimitReached
    PROVE  PromiseInv'
<1>1. /\ Runnable({"synthesize_answer"}) /\ phase = "running"
      /\ tasks' = {"verify_citations"}
      /\ UNCHANGED <<phase, decision, insufficiency_reasons>>
  BY DEF SynthesizeAnswer, SynthesizeLimitReached, Runs, Schedule, Runnable,
         assessment
<1>2. /\ answer = None /\ errors = {} /\ claims = {} /\ decision = None
      /\ insufficiency_reasons = {}
  BY <1>1 DEF PromiseInv, Runnable
<1>3. Verifiable'
  BY <1>1, <1>2 DEF Verifiable, SynthesizeAnswer, SynthesizeLimitReached
<1> QED BY <1>1, <1>2, <1>3 DEF PromiseInv, Runnable, Gathering, Retrievers

\* Verified claims are the model's, or the analyst's selection, which always
\* verifies; a run that fails has the model's answer or none.
LEMMA VerificationKeepsPromises ==
    ASSUME IInv, PromiseInv, VerifyCitations
    PROVE  PromiseInv'
<1>1. /\ Runnable({"verify_citations"}) /\ phase = "running"
      /\ tasks' = {"finalize_trace"}
      /\ status' = IF Verified THEN "answered" ELSE "error"
      /\ errors' = errors \cup CitationErrors
      /\ UNCHANGED <<phase, decision, insufficiency_reasons, answer>>
  BY DEF VerifyCitations, Runs, Schedule, Runnable, assessment
<1>2. insufficiency_reasons = {} /\ Verifiable
  BY <1>1 DEF PromiseInv, Runnable
<1>3. Ending' = [status |-> status', answer |-> answer, explained |-> errors' # {}]
  BY <1>1, <1>2 DEF Ending
<1>4. \/ decision' = None /\ Ending' \in Run!RunOutcomes
      \/ decision' # None /\ Ending' = Run!ReviewOutcome(decision)'
  <2>1. CASE decision = None /\ answer = Model /\ errors = {}
    <3>1. CASE Verified
      <4>1. status' = "answered" /\ errors' = {}
        BY <1>1, <2>1, <3>1 DEF Verified
      <4> QED BY <1>1, <1>3, <2>1, <4>1 DEF Run!RunOutcomes
    <3>2. CASE ~ Verified
      <4>1. status' = "error" /\ (errors' # {}) \in BOOLEAN
        BY <1>1, <3>2
      <4> QED BY <1>1, <1>3, <2>1, <4>1 DEF Run!RunOutcomes
    <3> QED BY <3>1, <3>2
  <2>2. CASE decision = None /\ answer = None /\ claims = {}
    <3>1. status' = "error" /\ (errors' # {}) \in BOOLEAN
      BY <1>1, <2>2 DEF Verified
    <3> QED BY <1>1, <1>3, <2>2, <3>1 DEF Run!RunOutcomes
  <2>3. CASE /\ decision \in Clauses /\ answer = decision /\ errors = {}
             /\ claims = {{decision}} /\ selected_evidence = {decision}
    <3>1. CitationErrors = {}
      BY <2>3 DEF CitationErrors
    <3>2. <<{decision}, decision>> \in CitationsFound
      BY <2>3 DEF CitationsFound
    <3>3. status' = "answered" /\ errors' = {}
      BY <1>1, <2>3, <3>1, <3>2 DEF Verified
    <3> QED BY <1>1, <1>3, <2>3, <3>3, MarkersAssumption DEF Run!ReviewOutcome
  <2> QED BY <1>2, <2>1, <2>2, <2>3 DEF Verifiable
<1> HIDE DEF Runnable
<1> QED BY <1>1, <1>4 DEF PromiseInv, Runnable, Gathering, Retrievers

\* An abstention without an analyst names what the evidence lacks, and the last
\* node changes nothing.
LEMMA ClosingKeepsPromises ==
    ASSUME IInv, PromiseInv, FinalizeInsufficient \/ FinalizeTrace
    PROVE  PromiseInv'
<1>1. CASE FinalizeInsufficient
  <2>1. /\ Runnable({"finalize_insufficient"}) /\ phase = "running"
        /\ tasks' = {"finalize_trace"} /\ answer' = None
        /\ status' = "insufficient_evidence"
        /\ UNCHANGED <<phase, decision, insufficiency_reasons, errors>>
    BY <1>1 DEF FinalizeInsufficient, Runs, Schedule, Runnable, assessment
  <2>2. insufficiency_reasons # {} /\ decision = None
    BY <2>1 DEF PromiseInv, Runnable
  <2>3. Ending' \in Run!RunOutcomes
    BY <2>1, <2>2 DEF Ending, Run!RunOutcomes
  <2> QED BY <2>1, <2>2, <2>3 DEF PromiseInv, Runnable, Gathering, Retrievers
<1>2. CASE FinalizeTrace
  <2>1. /\ "finalize_trace" \in tasks /\ phase = "running" /\ tasks' = {}
        /\ UNCHANGED <<phase, decision, insufficiency_reasons, status, answer,
                       errors>>
    BY <1>2 DEF FinalizeTrace, Runs, Schedule, assessment, answering
  <2>2. tasks = {"finalize_trace"}
    BY <2>1 DEF IInv, ScheduleInv, Retrievers
  <2>3. UNCHANGED Ending
    BY <2>1 DEF Ending
  <2> QED BY <2>1, <2>2, <2>3 DEF PromiseInv, Runnable
<1> QED BY <1>1, <1>2

\* Whatever raises, raises before the analyst has decided.
LEMMA FailuresAreUndecided ==
    ASSUME IInv, ResumedInv, ProviderFails \/ GraphRetrieveFails \/ OutOfSteps
    PROVE  decision = None
<1>1. error_type' \in Exceptions /\ [Next]_vars
  BY DEF ProviderFails, GraphRetrieveFails, OutOfSteps, Raise, Exceptions, Next,
         Invoke
<1> QED BY <1>1, ResumedStep, MarkersAssumption

\* What an invocation does without touching its checkpointed state.
LEMMA SilentStepsKeepPromises ==
    ASSUME IInv, ResumedInv, PromiseInv,
           \/ LexicalRetrieve \/ VectorRetrieve \/ VectorTimesOut \/ GraphRetrieve
           \/ Interrupt \/ ProviderFails \/ GraphRetrieveFails \/ OutOfSteps
           \/ Finish \/ UNCHANGED vars
    PROVE  PromiseInv'
<1>1. UNCHANGED <<tasks, decision, assessment, answering, errors>>
  BY DEF LexicalRetrieve, VectorRetrieve, VectorTimesOut, GraphRetrieve, Finishes,
         Interrupt, ProviderFails, GraphRetrieveFails, OutOfSteps, Raise, Finish,
         vars, engine, record
<1>2. phase' = "interrupted" => decision = None
  BY DEF LexicalRetrieve, VectorRetrieve, VectorTimesOut, GraphRetrieve, Finishes,
         Interrupt, ProviderFails, GraphRetrieveFails, OutOfSteps, Raise, Finish,
         vars, engine, PromiseInv
<1> QED BY <1>1, <1>2, SilenceKeepsPromises

\* Every step keeps the reasons, the answer and the decision in accord.
LEMMA StepsKeepPromises ==
    ASSUME IInv, ResumedInv, PromiseInv, [Next]_vars
    PROVE  PromiseInv'
BY GatheringKeepsPromises, AssessmentKeepsPromises, ResumeKeepsPromises,
   ReviewKeepsPromises, SynthesisKeepsPromises, VerificationKeepsPromises,
   ClosingKeepsPromises, SilentStepsKeepPromises DEF Next, Invoke

\* A run starts without an answer and undecided.
LEMMA InitPromises == Init => PromiseInv
BY DEF Init, PromiseInv, Runnable, Gathering, Retrievers

\* Steps inside an invocation are invisible to its caller.
LEMMA RunningIsInvisible ==
    ASSUME phase = "running", phase' = "running", UNCHANGED decision
    PROVE  UNCHANGED Run!absvars
BY DEF Outcome, Run!absvars

\* Every step of the workflow is a step of the abstract run or invisible.
LEMMA StepsFollowTheRun ==
    ASSUME IInv, ResumedInv, PromiseInv, [Next]_vars
    PROVE  [Run!Next]_(Run!absvars)
<1>1. CASE Interrupt
  <2>1. /\ decision = None /\ decision' = None
        /\ phase = "running" /\ phase' = "interrupted"
    BY <1>1 DEF Interrupt, Runs
  <2>2. Outcome = None /\ Outcome' = Run!Paused
    BY <2>1 DEF Outcome, Run!Paused
  <2> QED BY <2>1, <2>2 DEF Run!Next, Run!Settle, Run!RunOutcomes
<1>2. CASE Resume
  <2>1. /\ decision = None /\ decision' \in Clauses \cup {Abstain}
        /\ decision' # None
        /\ phase = "interrupted" /\ phase' = "running"
    BY <1>2, MarkersAssumption DEF Resume, PromiseInv, IInv, TypeOK
  <2>2. Outcome = Run!Paused /\ Outcome' = Run!Paused
    BY <2>1 DEF Outcome, Run!Paused
  <2> QED BY <2>1, <2>2 DEF Run!Next, Run!Decide
<1>3. CASE ProviderFails \/ GraphRetrieveFails \/ OutOfSteps
  <2>1. /\ decision = None /\ decision' = None
        /\ phase = "running" /\ phase' = "raised"
    BY <1>3, FailuresAreUndecided
       DEF ProviderFails, GraphRetrieveFails, OutOfSteps, Raise, Runs
  <2>2. Outcome = None
    BY <2>1 DEF Outcome
  <2>3. Outcome' = [status |-> "error", answer |-> None, explained |-> TRUE]
    BY <2>1 DEF Outcome, Result
  <2>4. Outcome' \in Run!RunOutcomes
    BY <2>3 DEF Run!RunOutcomes
  <2> QED BY <2>1, <2>2, <2>4 DEF Run!Next, Run!Settle
<1>4. CASE Finish
  <2>1. /\ tasks = {} /\ phase = "running" /\ phase' = "done"
        /\ UNCHANGED <<decision, status, answer, insufficiency_reasons, errors>>
    BY <1>4 DEF Finish, answering, assessment, record
  <2>2. Outcome' = Ending
    BY <2>1 DEF Outcome, Result, Ending
  <2>3. CASE decision = None /\ Ending \in Run!RunOutcomes
    <3>1. Outcome = None
      BY <2>1, <2>3 DEF Outcome
    <3> QED BY <2>1, <2>2, <2>3, <3>1 DEF Run!Next, Run!Settle
  <2>4. CASE decision # None /\ Ending = Run!ReviewOutcome(decision)
    <3>1. Outcome = Run!Paused
      BY <2>1, <2>4 DEF Outcome, Run!Paused
    <3> QED BY <2>1, <2>2, <2>4, <3>1 DEF Run!Next, Run!Resolve
  <2> QED BY <2>1, <2>3, <2>4 DEF PromiseInv
<1>5. CASE UNCHANGED vars
  <2>1. UNCHANGED <<phase, decision, status, answer, insufficiency_reasons, errors>>
    BY <1>5 DEF vars, engine, answering, assessment, record
  <2>2. UNCHANGED Outcome
    BY <2>1 DEF Outcome, Result
  <2> QED BY <2>1, <2>2 DEF Run!absvars
<1>6. CASE Invoke /\ ~ (Interrupt \/ ProviderFails \/ GraphRetrieveFails
                         \/ OutOfSteps \/ Finish)
  <2>1. phase = "running" /\ phase' = "running" /\ UNCHANGED decision
    BY <1>6 DEF Invoke, AnalyzeAndPlan, LexicalRetrieve, VectorRetrieve,
                VectorTimesOut, GraphRetrieve, Finishes, FanIn, FuseCandidates,
                RerankCandidates, AssessEvidence, AnalystAbstains, AnalystSelects,
                ReformulateQuery, SynthesizeAnswer, SynthesizeLimitReached,
                VerifyCitations, FinalizeInsufficient, FinalizeTrace, Runs,
                Schedule
  <2> QED BY <2>1, RunningIsInvisible
<1> QED BY <1>1, <1>2, <1>3, <1>4, <1>5, <1>6 DEF Next

\* Every run settles once, is decided at most once, and ends as decided: what
\* the application relies on when it stores rows and packets.
THEOREM PromisesImplemented == Spec => Run!Safety
<1>1. Init => ResumedInv /\ PromiseInv
  BY InitPromises DEF Init, ResumedInv
<1>2. IInv /\ ResumedInv /\ [Next]_vars => ResumedInv'
  BY ResumedStays
<1>3. IInv /\ ResumedInv /\ PromiseInv /\ [Next]_vars => PromiseInv'
  BY StepsKeepPromises
<1>4. Init => Run!Init
  BY DEF Init, Run!Init, Outcome
<1>5. IInv /\ ResumedInv /\ PromiseInv /\ [Next]_vars => [Run!Next]_(Run!absvars)
  BY StepsFollowTheRun
<1> QED BY <1>1, <1>2, <1>3, <1>4, <1>5, WorkflowInvariant, PTL DEF Spec, Run!Safety
==============================================================================
