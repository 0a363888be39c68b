-------------------------- MODULE WorkflowProperties --------------------------
(***************************************************************************)
(* What the retrieval workflow must never do, and what it must always      *)
(* get done.                                                               *)
(***************************************************************************)
EXTENDS Workflow

EventsOf(node) == {i \in DOMAIN trace_events : trace_events[i].node = node}

Purposes == {"analyze_and_plan", "reformulate", "synthesize"}

ModelCalls == {i \in DOMAIN trace_events : trace_events[i].event_type = "model_call"}

\* Every variable holds values of the kind the code's annotations give it.
TypeOK ==
    /\ limits \in RunLimits /\ vector_timeout \in BOOLEAN /\ triples \in Artifacts
    /\ phase \in {"running", "interrupted", "done", "raised"}
    /\ tasks \subseteq Nodes
    /\ DOMAIN writes \subseteq Retrievers
    /\ \A n \in DOMAIN writes :
          /\ \A r \in writes[n].results : r.clause_id \in Clauses
          /\ writes[n].degraded \subseteq {"vector_retrieval_timeout"}
    /\ step \in Nat /\ stop \in Nat
    /\ decision \in Clauses \cup {Abstain, None}
    /\ error_type \in Exceptions \cup {None}
    /\ plan \in Plans \cup {None}
    /\ retrieval_query \in Queries \cup {None}
    /\ \A r \in lexical_results \cup vector_results \cup graph_results :
            r.clause_id \in Clauses
    /\ fused_candidates \subseteq Clauses
    /\ selected_evidence \subseteq Clauses
    /\ evidence_sufficient \in BOOLEAN /\ review_required \in BOOLEAN
    /\ iteration \in Nat /\ model_calls \in Nat
    /\ claims \in Syntheses \cup {{}} \cup {{{c}} : c \in Clauses}
    /\ citations \subseteq claims \X Clauses
    /\ answer \in {None, Model} \cup Clauses
    /\ status \in {"running", "review_required", "review_resolved", "answered",
                   "insufficient_evidence", "error"}
    /\ review_decision \in Clauses \cup {Abstain, None}
    /\ degraded_components \subseteq
            {"vector_retrieval_timeout", "reranker_unavailable"}
    /\ errors \subseteq {"model_call_limit_reached", "unsupported_claim",
                         "unknown_evidence"}

------------------------------------------------------------------------------

\* RunLimits bounds what a run may spend: no path through the recovery loop
\* calls the model or retrieves more often than it was allowed, the calls the
\* result bills are the calls that were counted, and recovery is always entered
\* with a call to spend.  The limit branch of reformulate_query returns to the
\* retrievers without counting anything, so a run that took it would loop until
\* it is out of steps.
BudgetsHold ==
    /\ model_calls <= limits.max_model_calls
    /\ iteration <= limits.max_retrieval_iterations
    /\ Len(provider_calls) = model_calls
    /\ "reformulate_query" \in tasks => model_calls < limits.max_model_calls

\* The step limit cuts off nothing but the recovery of a run configured with
\* less than the 14 steps that recovery takes, and never a resumed review.
StepLimitIsSpare ==
    error_type = "GraphRecursionError" =>
        limits.recursion_limit < 14 /\ iteration = 2 /\ decision = None

\* verify_citations: an answered run makes at least one claim, every claim
\* cites evidence the run selected, and every cited pair is listed.
AnswersAreGrounded ==
    phase = "done" /\ Result.status = "answered" =>
        /\ Result.answer # None
        /\ Result.claims # {} /\ {} \notin Result.claims
        /\ UNION Result.claims \subseteq Result.evidence
        /\ \A c \in Result.claims : \A e \in c : <<c, e>> \in Result.citations

\* A run that answers satisfied the evidence contract of its plan, whatever
\* timed out, was truncated or was retried on the way (ADR 0002).
AnswersMeetTheContract ==
    phase = "done" /\ Result.status = "answered" =>
        plan.required_evidence \subseteq Satisfied

\* A conflict the graph leaves open is never settled by the model: the run
\* answers with the one clause an analyst selected, or not at all.
ConflictsAreTheAnalysts ==
    /\ phase = "done"
    /\ Result.status = "answered"
    /\ plan.intent = Conflict
    /\ {"competing_evidence", "unresolved_precedence"} \subseteq Satisfied
    => /\ Result.answer = decision
       /\ Result.claims = {{decision}} /\ Result.evidence = {decision}

\* Suspicious clauses are retained as evidence, and the trace of the run that
\* hands them out names each of them: the assessment of the last pass, whose
\* selection the evidence is, flagged it, and not only that of a pass before.
SuspiciousEvidenceIsTraced ==
    phase = "done" =>
        \A c \in Result.evidence \cap Suspicious :
            \E i \in EventsOf("assess_evidence") :
                /\ trace_events[i].event_type = "suspicious_evidence_flagged"
                /\ trace_events[i].iteration = Result.iterations
                /\ c \in trace_events[i].findings

\* A retriever that timed out in any pass is named by the result, even when
\* a later pass got its results (ADR 0002: a component failure cannot
\* silently disappear from an otherwise plausible answer).
TimeoutsAreDisclosed ==
    /\ phase = "done"
    /\ \E i \in EventsOf("vector_retrieve") :
          trace_events[i].event_type = "retrieval_timeout"
    => "vector_retrieval_timeout" \in Result.degraded_components

\* The trace accounts for the run: a model_call event for every call, and one
\* event of every retriever for every pass that has been fanned in.
TraceAccountsForTheRun ==
    /\ Cardinality(ModelCalls) = model_calls
    /\ \A n \in Retrievers :
          Cardinality(EventsOf(n)) =
              iteration - (IF tasks = Retrievers THEN 1 ELSE 0)

\* The second pass keeps the plan and the graph results, so it can only make
\* up for a base clause that was not retrieved: every other shortfall stays.
SecondPassOnlyFindsTheBase ==
    [][tasks = {"assess_evidence"} /\ iteration = 2 /\ phase' = "running" =>
          insufficiency_reasons' \ {"base_clause"} =
          insufficiency_reasons \ {"base_clause"}]_vars

\* resume_review runs whichever workflow the application object holds by then:
\* a later run has replaced it by one with another provider, and another
\* process has loaded another artifact (application.py:71).  So a resumed
\* invocation needs nothing but its checkpoint: it calls no model, searches no
\* corpus, only narrows its evidence, and cannot fail.
ResumeNeedsOnlyTheCheckpoint ==
    [][decision # None =>
          /\ UNCHANGED <<retrieval, fused_candidates, planning>>
          /\ tasks' \subseteq {"analyst_review", "verify_citations", "finalize_trace"}
          /\ selected_evidence' \subseteq selected_evidence
          /\ error_type' = None]_vars

\* Every invocation, the first and the resumed one, comes to rest.
InvocationsSettle == phase = "running" ~> phase # "running"

\* The workflow keeps the promises of AbstractRun.
KeepsItsPromise == Run!Spec

------------------------------------------------------------------------------
(* The inductive invariants behind the safety properties.                   *)

\* In the pass numbered by iteration, node n is the k-th superstep after the
\* steps of the earlier passes, and every pass has cost one model call.
Punctual(n, k) ==
    n \in tasks =>
        step = k + 5 * (iteration - 1) /\ iteration >= 1 /\ model_calls = iteration

\* Where the run is fixes how many supersteps and model calls it has used, so
\* both are bounded by the number of passes.
ScheduleInv ==
    /\ tasks = Retrievers \/ \A m, n \in tasks : m = n
    /\ "analyze_and_plan" \in tasks =>
          step = 1 /\ iteration = 0 /\ model_calls = 0 /\ decision = None
    /\ "analyze_and_plan" \notin tasks =>
          /\ plan \in Plans /\ retrieval_query \in Queries
          /\ iteration \in 1..limits.max_retrieval_iterations
          /\ step <= 9 + 5 * (iteration - 1)
    /\ model_calls <= limits.max_model_calls
    /\ provider_calls \in Seq(Purposes) /\ Len(provider_calls) = model_calls
    /\ \A n \in Retrievers : Punctual(n, 2)
    /\ Punctual("fuse_candidates", 3)
    /\ Punctual("rerank_candidates", 4)
    /\ Punctual("assess_evidence", 5)
    /\ \A n \in {"analyst_review", "reformulate_query", "synthesize_answer",
                 "finalize_insufficient"} : Punctual(n, 6)
    /\ "reformulate_query" \in tasks => iteration < limits.max_retrieval_iterations
    /\ "verify_citations" \in tasks => step <= 7 + 5 * (iteration - 1)
    /\ "finalize_trace" \in tasks => step <= 8 + 5 * (iteration - 1)
    /\ phase = "interrupted" => "analyst_review" \in tasks
    /\ decision = None => stop = limits.recursion_limit
    /\ decision # None => stop >= limits.recursion_limit + 7
    /\ error_type # None => phase = "raised"
    /\ error_type = "GraphRecursionError" => step > stop

\* A resumed run has left the planner, the retrievers and the model behind.
ResumedInv ==
    decision # None =>
        /\ tasks \subseteq {"analyst_review", "verify_citations", "finalize_trace"}
        /\ error_type = None

\* The graph shows a conflict of the base clause that nothing supersedes.
OpenConflict ==
    /\ plan.intent = Conflict
    /\ {"competing_evidence", "unresolved_precedence"} \subseteq Satisfied

\* What the nodes that build and verify an answer rely on.
AnsweringInv ==
    /\ claims # {} =>
          answer # None /\ tasks \subseteq {"verify_citations", "finalize_trace"}
    /\ citations # {} => tasks \subseteq {"finalize_trace"}
    /\ \/ "synthesize_answer" \in tasks
       \/ "analyst_review" \in tasks
       \/ "verify_citations" \in tasks
       \/ status = "answered"
       => plan.required_evidence \subseteq Satisfied
    /\ "synthesize_answer" \in tasks => ~ OpenConflict
    /\ ("verify_citations" \in tasks \/ status = "answered") /\ OpenConflict =>
          /\ answer = decision /\ claims = {{decision}}
          /\ selected_evidence = {decision}
    /\ status = "answered" =>
          /\ tasks \subseteq {"finalize_trace"}
          /\ claims # {} /\ CitationErrors = {} /\ citations = CitationsFound

\* The inductive invariant: the types, the schedule and what the answering
\* nodes rely on (build_workflow's edges and the nodes' early returns).
IInv == TypeOK /\ ScheduleInv /\ AnsweringInv

------------------------------------------------------------------------------
(* Statements of the documentation that the code does not live up to.       *)

\* CONTEXT.md: "Superseded conflicts resolve automatically".
SupersededConflictsNeverPause ==
    phase = "interrupted" =>
        \A s \in graph_paths : ~ Edge(triples, s.subject, "SUPERSEDES", s.object)

\* README.md: the review packet comes "with competing clauses".
PacketsHoldBothSides ==
    phase = "interrupted" =>
        \A s \in graph_paths : {s.subject, s.object} \subseteq selected_evidence

\* README.md: "Model economics are visible per call".
EconomicsAreVisible ==
    phase \in {"done", "raised"} => Result.provider_calls = provider_calls
==============================================================================
