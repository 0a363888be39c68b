------------------------- MODULE ApplicationProperties -------------------------
(***************************************************************************)
(* What the rows of a run must never say, whatever processes interleave    *)
(* and wherever one of them vanishes.                                      *)
(***************************************************************************)
EXTENDS Application

ReviewedOutcomes == {ReviewOutcome(d) : d \in Decisions}

RowsOf(trace) == {[sequence |-> i, event |-> trace[i]] : i \in DOMAIN trace}

Stored(trace) == trace_rows = RowsOf(trace)

\* The traces an invocation of this run can return.
Traces ==
    {FirstTrace(o) : o \in RunOutcomes} \cup {ResumedTrace(d) : d \in Decisions}

RunRows == {Running} \cup RunOutcomes \cup ReviewedOutcomes

ReviewRows ==
    [status: {"pending", "resuming", "resolved"},
     checkpoint_id: {"interrupted"}, decision: Decisions \cup {None},
     after_status: {"answered", "insufficient_evidence", None}]

Results == [outcome: RunOutcomes \cup ReviewedOutcomes, trace: Traces]

ASSUME NoneAssumption ==
    None \notin RunRows /\ None \notin ReviewRows /\ None \notin Results

Events == {"planned", "assessed", "completed"} \cup Decisions

RunLabels == {"create_run", "invoke", "count_events", "insert_events",
              "pause_for_review", "complete_run", "returned", "raised", "vanished"}
ResumeLabels == {"read_review", "begin_resolution", "resume", "count_events",
                 "insert_events", "complete_run", "complete_review", "returned",
                 "rejected", "raised", "vanished"}

\* Every row, label and local holds a value of its kind.
TypeOK ==
    /\ run_row \in {None} \cup RunRows
    /\ review_row \in {None} \cup ReviewRows
    /\ trace_rows \subseteq [sequence: 1..4, event: Events]
    /\ checkpoint \in {None, "interrupted", "ended"}
    /\ pc \in [Processes -> RunLabels \cup ResumeLabels]
    /\ pc[Runner] \in RunLabels /\ \A p \in Resumers : pc[p] \in ResumeLabels
    /\ choice \in [Resumers -> Decisions \cup {Unknown}]
    /\ packet \in [Resumers -> {None, "interrupted"}]
    /\ result \in [Processes -> {None} \cup Results]
    /\ existing \in [Processes -> 0..4]

\* agent_runs and analyst_reviews tell the same story at every commit: a run
\* waits for review exactly while its review is open, and a resolved review
\* records the status the run ended with.
StatusesAgree ==
    /\ run_row = Paused => review_row # None
    /\ review_row # None =>
          CASE review_row.status = "pending" -> run_row = Paused
            [] review_row.status = "resuming" ->
                  run_row \in {Paused, ReviewOutcome(review_row.decision)}
            [] review_row.status = "resolved" ->
                  /\ run_row = ReviewOutcome(review_row.decision)
                  /\ review_row.after_status = run_row.status

\* At most one call of resume_review gets past the compare-and-set, and the
\* decision the review row holds is the one that call was made with.
OneResumerWins ==
    \A p, q \in Resumers :
        /\ pc[p] \in {"resume", "count_events", "insert_events", "complete_run",
                      "complete_review", "returned"}
        => /\ review_row # None /\ review_row.decision = choice[p]
           /\ pc[q] \in {"resume", "count_events", "insert_events", "complete_run",
                         "complete_review", "returned"} => q = p

\* Whenever a run is published its stored trace is, event for event, the trace
\* of the result published: numbered from 1 without a gap, and naming the one
\* decision that was accepted.
PublishedTraceIsWhole ==
    run_row \notin {None, Running} =>
        IF review_row = None THEN Stored(FirstTrace(run_row))
        ELSE \/ Stored(ResumedTrace(review_row.decision))
             \/ run_row = Paused /\ Stored(PausedTrace)

------------------------------------------------------------------------------
(* The inductive invariant behind the three invariants above.               *)

Won == {"resume", "count_events", "insert_events", "complete_run",
        "complete_review"}

\* Up to its last statement the runner is alone with the rows.
RunnerInv ==
    LET at == pc[Runner]
        settled == result[Runner]
    IN  /\ at # "returned" => review_row = None /\ run_row \in {None, Running}
        /\ at = "create_run" => run_row = None
        /\ at \in {"invoke", "count_events", "insert_events", "pause_for_review",
                   "complete_run"} => run_row = Running
        /\ at \in {"create_run", "invoke", "count_events", "insert_events"} =>
              trace_rows = {} /\ existing[Runner] = 0
        /\ at \in {"count_events", "insert_events", "pause_for_review",
                   "complete_run"} =>
              /\ settled # None /\ settled.outcome \in RunOutcomes
              /\ settled.trace = FirstTrace(settled.outcome)
              /\ settled.outcome = Paused => checkpoint = "interrupted"
        /\ at \in {"pause_for_review", "complete_run"} => Stored(settled.trace)
        /\ at = "pause_for_review" => settled.outcome = Paused
        /\ at = "complete_run" => settled.outcome # Paused

\* What the stage of the review says about the run's row and its trace.
RowInv ==
    IF review_row = None
    THEN \/ run_row \in {None, Running}
         \/ run_row \in RunOutcomes \ {Paused} /\ Stored(FirstTrace(run_row))
    ELSE LET d == review_row.decision
         IN  /\ review_row.status # "pending" => d \in Decisions
             /\ review_row.status = "pending" =>
                   run_row = Paused /\ Stored(PausedTrace)
             /\ review_row.status = "resuming" =>
                   \/ run_row = Paused /\ Stored(PausedTrace)
                   \/ run_row = Paused /\ Stored(ResumedTrace(d))
                   \/ run_row = ReviewOutcome(d) /\ Stored(ResumedTrace(d))
             /\ review_row.status = "resolved" =>
                   /\ run_row = ReviewOutcome(d) /\ Stored(ResumedTrace(d))
                   /\ review_row.after_status = run_row.status

\* Past the compare-and-set a resumer has the review to itself.
ResumerInv(p) ==
    LET at == pc[p]
        d == choice[p]
    IN  /\ at = "begin_resolution" => review_row # None /\ d \in Decisions
        /\ at \in Won \cup {"returned"} =>
              /\ review_row # None /\ d \in Decisions
              /\ review_row.decision = d
              /\ review_row.status = IF at = "returned" THEN "resolved" ELSE "resuming"
        /\ at \in {"resume", "count_events", "insert_events"} =>
              run_row = Paused /\ Stored(PausedTrace)
        /\ at \in Won \ {"resume"} =>
              result[p] = [outcome |-> ReviewOutcome(d), trace |-> ResumedTrace(d)]
        /\ at = "insert_events" => existing[p] = 2
        /\ at = "complete_run" => run_row = Paused /\ Stored(ResumedTrace(d))
        /\ at = "complete_review" =>
              run_row = ReviewOutcome(d) /\ Stored(ResumedTrace(d))

Alone ==
    \A p, q \in Resumers :
        pc[p] \in Won \cup {"returned"} /\ pc[q] \in Won \cup {"returned"} => p = q

\* The stored trace, the two rows and every process's place agree: each process
\* that still has a statement to execute finds the rows as it left them.
RowsMatchProcesses ==
    /\ RunnerInv
    /\ RowInv
    /\ \A p \in Resumers : ResumerInv(p)
    /\ Alone

\* The inductive invariant: types, and the rows as the processes left them
\* (run, resume_review and the repository's statements).
IInv == TypeOK /\ RowsMatchProcesses

------------------------------------------------------------------------------

\* The protocol that everyone who reads the database relies on.
Protocol == INSTANCE ReviewProtocol WITH
    published <- IF run_row = Running THEN None ELSE run_row,
    review <- IF review_row = None
              THEN [stage |-> "none", decision |-> None]
              ELSE [stage |-> review_row.status, decision |-> review_row.decision]

\* The rows follow ReviewProtocol: nothing published changes, one decision is
\* taken and implies what is published, the review closes last.
RowsFollowProtocol == Protocol!Spec

\* Whoever else comes, goes or dies, a decision that has been accepted is
\* published and its review closed, unless the process that carries it vanishes
\* (resume_review past begin_review_resolution).
AcceptedReviewsClose ==
    \A p \in Resumers :
        pc[p] = "resume" ~>
            \/ pc[p] = "vanished"
            \/ review_row # None /\ review_row.status = "resolved"
               /\ review_row.decision = choice[p]

------------------------------------------------------------------------------

\* ADR 0002: "Security and failure behavior is visible in domain traces".
FailuresReachTheTrace == pc[Runner] = "raised" => trace_rows # {}
==============================================================================
