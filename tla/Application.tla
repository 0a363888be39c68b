----------------------------- MODULE Application -----------------------------
(***************************************************************************)
(* The application facade over its SQLite rows (application.py,            *)
(* persistence.py): one run, the process that executes it, and processes   *)
(* that try to resume its review, each a call of run or resume_review in a *)
(* process of its own on the same state database.                          *)
(*                                                                         *)
(* A step of a process is one committed SQL statement or transaction, or   *)
(* the invocation of the workflow, whose outcomes are those AbstractRun    *)
(* promises.  Between any two steps other processes may act, and a process *)
(* may vanish (killed, or thrown out by an exception such as a locked      *)
(* database).                                                              *)
(***************************************************************************)
EXTENDS Outcomes, Naturals, Sequences, FiniteSets

CONSTANTS
    Runner,        \* the process that calls run
    Resumers,      \* the processes that call resume_review
    Evidence,      \* the evidence ids of the review packet
    Unknown,       \* an evidence id that is not in the packet
    CanVanish      \* whether processes may be killed or fail

Processes == {Runner} \cup Resumers

ASSUME ProcessesAssumption == Runner \notin Resumers
ASSUME DecisionsAssumption ==
    /\ Unknown \notin Evidence \cup {Abstain, None}
    /\ Abstain \notin Evidence /\ None \notin Evidence \cup {Abstain}
ASSUME VanishAssumption == CanVanish \in BOOLEAN

Decisions == Evidence \cup {Abstain}

VARIABLES
    run_row,        \* agent_runs: None, or [outcome, complete]
    review_row,     \* analyst_reviews: None, or [status, checkpoint_id, decision,
                    \*   after_status]
    trace_rows,     \* trace_events: a set of [sequence, event]
    checkpoint,     \* the id of the checkpoint the interrupted thread left
    pc,             \* where each process is
    choice,         \* the decision a resumer was called with
    packet,         \* the checkpoint id in the packet a resumer read
    result,         \* the AnswerResult a process holds: [outcome, trace]
    existing        \* the row count append_events has read

rows == <<run_row, review_row, trace_rows>>
vars == <<run_row, review_row, trace_rows, checkpoint, pc, choice, packet,
          result, existing>>

\* Status "running" of the row as create_run inserts it.
Running == [status |-> "running", answer |-> None, explained |-> FALSE]

\* The trace an invocation returns.  A resumed invocation returns the whole
\* history of the thread: what the first one recorded, the decision, the end.
\* Events are tokens: what matters is how many there are, in which order, and
\* the decision they name.  The single event of an error result is one more
\* trace that is complete at once.
PausedTrace == <<"planned", "assessed">>
FirstTrace(outcome) ==
    IF outcome = Paused THEN PausedTrace ELSE <<"planned", "assessed", "completed">>
ResumedTrace(d) == <<"planned", "assessed", d, "completed">>

Init ==
    /\ run_row = None /\ review_row = None /\ trace_rows = {} /\ checkpoint = None
    /\ pc = [p \in Processes |-> IF p = Runner THEN "create_run" ELSE "read_review"]
    /\ choice \in [Resumers -> Decisions \cup {Unknown}]
    /\ packet = [p \in Resumers |-> None]
    /\ result = [p \in Processes |-> None]
    /\ existing = [p \in Processes |-> 0]

Goto(p, label) == pc' = [pc EXCEPT ![p] = label]

------------------------------------------------------------------------------

CreateRun ==
    /\ pc[Runner] = "create_run"
    /\ run_row' = Running
    /\ Goto(Runner, "invoke")
    /\ UNCHANGED <<review_row, trace_rows, checkpoint, choice, packet, result,
                   existing>>

\* run: the workflow settles.  mark_error takes the first uncertainty reason,
\* so an error without one leaves run with an IndexError.
InvokeRun ==
    /\ pc[Runner] = "invoke"
    /\ \E outcome \in RunOutcomes :
          /\ result' = [result EXCEPT ![Runner] =
                          [outcome |-> outcome, trace |-> FirstTrace(outcome)]]
          /\ checkpoint' = IF outcome = Paused THEN "interrupted" ELSE "ended"
          /\ Goto(Runner, IF outcome.status = "error" /\ ~ outcome.explained
                          THEN "raised" ELSE "count_events")
    /\ UNCHANGED <<rows, choice, packet, existing>>

\* append_events reads how many events are stored, outside any transaction ...
CountEvents(p) ==
    /\ pc[p] = "count_events"
    /\ existing' = [existing EXCEPT ![p] = Cardinality(trace_rows)]
    /\ Goto(p, "insert_events")
    /\ UNCHANGED <<rows, checkpoint, choice, packet, result>>

\* Faults: the numbers are offset twice; the first new event is skipped.
NewRowsOffset(p) ==
    {[sequence |-> existing[p] + i, event |-> result[p].trace[i]] :
        i \in {j \in DOMAIN result[p].trace : j > existing[p]}}
NewRowsSkipped(p) ==
    {[sequence |-> i, event |-> result[p].trace[i]] :
        i \in {j \in DOMAIN result[p].trace : j > existing[p] + 1}}

\* ... and inserts the rest of the result's events under the next numbers.
NewRows(p) ==
    {[sequence |-> i, event |-> result[p].trace[i]] :
        i \in {j \in DOMAIN result[p].trace : j > existing[p]}}

\* UNIQUE(run_id, sequence) rejects the whole insert when a number is taken.
InsertEvents(p) ==
    /\ pc[p] = "insert_events"
    /\ IF \E new \in NewRows(p) : \E old \in trace_rows : new.sequence = old.sequence
       THEN Goto(p, "raised") /\ UNCHANGED trace_rows
       ELSE /\ trace_rows' = trace_rows \cup NewRows(p)
            /\ Goto(p, IF result[p].outcome = Paused THEN "pause_for_review"
                       ELSE "complete_run")
    /\ UNCHANGED <<run_row, review_row, checkpoint, choice, packet, result,
                   existing>>

\* One transaction: the row leaves 'running' and the packet is stored.
PauseForReview ==
    /\ pc[Runner] = "pause_for_review"
    /\ run_row' = IF run_row = Running THEN result[Runner].outcome ELSE run_row
    /\ review_row' = [status |-> "pending", checkpoint_id |-> checkpoint,
                      decision |-> None, after_status |-> None]
    /\ Goto(Runner, "returned")
    /\ UNCHANGED <<trace_rows, checkpoint, choice, packet, result, existing>>

\* Fault: a resumed run is completed and its review is forgotten.
CompleteRunOnly(p) ==
    /\ pc[p] = "complete_run"
    /\ run_row' = result[p].outcome
    /\ Goto(p, "returned")
    /\ UNCHANGED <<review_row, trace_rows, checkpoint, choice, packet, result,
                   existing>>

CompleteRun(p) ==
    /\ pc[p] = "complete_run"
    /\ run_row' = result[p].outcome
    /\ Goto(p, IF p = Runner THEN "returned" ELSE "complete_review")
    /\ UNCHANGED <<review_row, trace_rows, checkpoint, choice, packet, result,
                   existing>>

------------------------------------------------------------------------------

\* resume_review reads the packet and checks the selection against it; without
\* a packet it raises LookupError, with foreign evidence ValueError.
ReadReview(p) ==
    /\ pc[p] = "read_review"
    /\ IF review_row = None
       THEN Goto(p, "rejected") /\ UNCHANGED packet
       ELSE /\ packet' = [packet EXCEPT ![p] = review_row.checkpoint_id]
            /\ Goto(p, IF choice[p] \in Decisions THEN "begin_resolution"
                       ELSE "rejected")
    /\ UNCHANGED <<rows, checkpoint, choice, result, existing>>

\* Fault: the update does not ask for a pending review.
BeginMatchesAny(p) == review_row.checkpoint_id = packet[p]

\* The compare-and-set of begin_review_resolution.
BeginMatches(p) ==
    review_row.status = "pending" /\ review_row.checkpoint_id = packet[p]

BeginResolution(p) ==
    /\ pc[p] = "begin_resolution" /\ BeginMatches(p)
    /\ review_row' = [review_row EXCEPT !.status = "resuming",
                                        !.decision = choice[p]]
    /\ Goto(p, "resume")
    /\ UNCHANGED <<run_row, trace_rows, checkpoint, choice, packet, result,
                   existing>>

BeginIsStale(p) ==
    /\ pc[p] = "begin_resolution" /\ ~ BeginMatches(p)
    /\ Goto(p, "rejected")
    /\ UNCHANGED <<rows, checkpoint, choice, packet, result, existing>>

InvokeResume(p) ==
    /\ pc[p] = "resume"
    /\ result' = [result EXCEPT ![p] = [outcome |-> ReviewOutcome(choice[p]),
                                        trace |-> ResumedTrace(choice[p])]]
    /\ Goto(p, "count_events")
    /\ UNCHANGED <<rows, checkpoint, choice, packet, existing>>

CompleteReview(p) ==
    /\ pc[p] = "complete_review"
    /\ IF review_row.status = "resuming"
       THEN /\ review_row' = [review_row EXCEPT !.status = "resolved",
                                  !.after_status = result[p].outcome.status]
            /\ Goto(p, "returned")
       ELSE Goto(p, "raised") /\ UNCHANGED review_row
    /\ UNCHANGED <<run_row, trace_rows, checkpoint, choice, packet, result,
                   existing>>

------------------------------------------------------------------------------

\* The process is killed or an exception leaves the call; nothing rolls back
\* what it has committed.
Vanish(p) ==
    /\ CanVanish
    /\ pc[p] \notin {"returned", "rejected", "raised", "vanished"}
    /\ Goto(p, "vanished")
    /\ UNCHANGED <<rows, checkpoint, choice, packet, result, existing>>

RunStep ==
    \/ CreateRun \/ InvokeRun \/ PauseForReview
    \/ CountEvents(Runner) \/ InsertEvents(Runner) \/ CompleteRun(Runner)

ResumeStep(p) ==
    \/ ReadReview(p) \/ BeginResolution(p) \/ BeginIsStale(p) \/ InvokeResume(p)
    \/ CountEvents(p) \/ InsertEvents(p) \/ CompleteRun(p) \/ CompleteReview(p)

Next ==
    \/ RunStep
    \/ \E p \in Resumers : ResumeStep(p)
    \/ \E p \in Processes : Vanish(p)

Spec == Init /\ [][Next]_vars

\* A process that is neither killed nor stuck executes its next statement.
FairSpec ==
    /\ Spec
    /\ WF_vars(RunStep)
    /\ \A p \in Resumers : WF_vars(ResumeStep(p))
==============================================================================
