-------------------------- MODULE ApplicationProofs --------------------------
(***************************************************************************)
(* Proofs that the rows of a run stay consistent for any number of         *)
(* resumers and any evidence.                                              *)
(***************************************************************************)
EXTENDS ApplicationProperties, FiniteSetTheorems, TLAPS

\* What a paused and a resumed trace leave in the table.
LEMMA PausedRows ==
    RowsOf(PausedTrace) = {[sequence |-> 1, event |-> "planned"],
                           [sequence |-> 2, event |-> "assessed"]}
<1>1. DOMAIN PausedTrace = {1, 2}
  BY DEF PausedTrace
<1>2. PausedTrace[1] = "planned" /\ PausedTrace[2] = "assessed"
  BY DEF PausedTrace
<1> QED BY <1>1, <1>2 DEF RowsOf

\* A resumed trace extends the paused one by two rows.
LEMMA ResumedRows ==
    ASSUME NEW d
    PROVE  RowsOf(ResumedTrace(d)) = RowsOf(PausedTrace) \cup
              {[sequence |-> 3, event |-> d], [sequence |-> 4, event |-> "completed"]}
<1>1. DOMAIN ResumedTrace(d) = {1, 2, 3, 4}
  BY DEF ResumedTrace
<1>2. /\ ResumedTrace(d)[1] = "planned" /\ ResumedTrace(d)[2] = "assessed"
      /\ ResumedTrace(d)[3] = d /\ ResumedTrace(d)[4] = "completed"
  BY DEF ResumedTrace
<1> QED BY <1>1, <1>2, PausedRows DEF RowsOf

\* append_events finds two rows stored by a run that paused.
LEMMA PausedCount ==
    ASSUME Stored(PausedTrace) PROVE Cardinality(trace_rows) = 2
<1> DEFINE first == [sequence |-> 1, event |-> "planned"]
           second == [sequence |-> 2, event |-> "assessed"]
<1>1. trace_rows = {first} \cup {second} /\ first # second
  BY PausedRows DEF Stored
<1>2. IsFiniteSet({first}) /\ Cardinality({first}) = 1
  BY FS_Singleton
<1>3. second \notin {first}
  BY <1>1
<1> HIDE DEF first, second
<1>4. Cardinality({first} \cup {second}) = 2
  BY <1>2, <1>3, FS_AddElement
<1> QED BY <1>1, <1>4

\* The rows the runner inserts into an empty table are its whole trace.
LEMMA FirstInsert ==
    ASSUME NEW p \in Processes, existing[p] = 0, trace_rows = {},
           DOMAIN result[p].trace \subseteq Nat \ {0}
    PROVE  trace_rows \cup NewRows(p) = RowsOf(result[p].trace)
BY DEF NewRows, RowsOf

\* The rows a resumer inserts collide with none and complete its trace.
LEMMA ResumedInsert ==
    ASSUME NEW p \in Processes, NEW d, existing[p] = 2, Stored(PausedTrace),
           result[p].trace = ResumedTrace(d)
    PROVE  /\ \A new \in NewRows(p), old \in trace_rows : new.sequence # old.sequence
           /\ trace_rows \cup NewRows(p) = RowsOf(ResumedTrace(d))
<1>1. DOMAIN ResumedTrace(d) = {1, 2, 3, 4}
  BY DEF ResumedTrace
<1>2. ResumedTrace(d)[3] = d /\ ResumedTrace(d)[4] = "completed"
  BY DEF ResumedTrace
<1>3. {j \in DOMAIN ResumedTrace(d) : j > 2} = {3, 4}
  BY <1>1
<1>4. NewRows(p) = {[sequence |-> 3, event |-> d],
                    [sequence |-> 4, event |-> "completed"]}
  BY <1>2, <1>3 DEF NewRows
<1>5. trace_rows = {[sequence |-> 1, event |-> "planned"],
                    [sequence |-> 2, event |-> "assessed"]}
  BY PausedRows DEF Stored
<1> QED BY <1>4, <1>5, PausedRows, ResumedRows

------------------------------------------------------------------------------

\* The outcomes are told apart by their status.
LEMMA OutcomeFacts ==
    /\ Paused \in RunOutcomes /\ Running \notin RunOutcomes
    /\ \A d \in Decisions : /\ ReviewOutcome(d) \in ReviewedOutcomes
                            /\ ReviewOutcome(d) # Paused /\ ReviewOutcome(d) # Running
                            /\ ReviewOutcome(d).status \in
                                  {"answered", "insufficient_evidence"}
BY DEF Paused, Running, RunOutcomes, ReviewedOutcomes, ReviewOutcome

\* Every trace an invocation returns numbers known events from 1 to at most 4.
LEMMA TraceFacts ==
    \A t \in Traces : /\ DOMAIN t \subseteq 1..4
                      /\ \A i \in DOMAIN t : t[i] \in Events
<1>1. \A o \in RunOutcomes :
        /\ DOMAIN FirstTrace(o) \subseteq 1..4
        /\ \A i \in DOMAIN FirstTrace(o) : FirstTrace(o)[i] \in Events
  <2>1. DOMAIN PausedTrace = 1..2 /\ \A i \in 1..2 : PausedTrace[i] \in Events
    BY DEF PausedTrace, Events
  <2>2. /\ DOMAIN <<"planned", "assessed", "completed">> = 1..3
        /\ \A i \in 1..3 : <<"planned", "assessed", "completed">>[i] \in Events
    BY DEF Events
  <2> QED BY <2>1, <2>2 DEF FirstTrace
<1>2. \A d \in Decisions :
        /\ DOMAIN ResumedTrace(d) \subseteq 1..4
        /\ \A i \in DOMAIN ResumedTrace(d) : ResumedTrace(d)[i] \in Events
  <2> SUFFICES ASSUME NEW d \in Decisions
               PROVE  /\ DOMAIN ResumedTrace(d) = 1..4
                      /\ \A i \in 1..4 : ResumedTrace(d)[i] \in Events
    OBVIOUS
  <2>1. DOMAIN ResumedTrace(d) = 1..4
    BY DEF ResumedTrace
  <2>2. /\ ResumedTrace(d)[1] = "planned" /\ ResumedTrace(d)[2] = "assessed"
        /\ ResumedTrace(d)[3] = d /\ ResumedTrace(d)[4] = "completed"
    BY DEF ResumedTrace
  <2> QED BY <2>1, <2>2 DEF Events
<1> QED BY <1>1, <1>2 DEF Traces

\* No row is stored before the run is created.
LEMMA InitInvariant == Init => IInv
<1> SUFFICES ASSUME Init PROVE IInv
  OBVIOUS
<1>1. TypeOK
  BY ProcessesAssumption
     DEF Init, TypeOK, Processes, RunLabels, ResumeLabels, RunRows
<1>2. RowsMatchProcesses
  BY ProcessesAssumption
     DEF Init, RowsMatchProcesses, RunnerInv, RowInv, ResumerInv, Alone, Won,
         Processes
<1> QED BY <1>1, <1>2 DEF IInv

\* The run row appears while nobody else can have seen it.
LEMMA CreateRunKeeps == IInv /\ CreateRun => IInv'
<1> SUFFICES ASSUME IInv, CreateRun PROVE IInv'
  OBVIOUS
<1> USE DEF IInv, CreateRun, Goto
<1>1. TypeOK'
  BY DEF TypeOK, Processes, RunLabels, ResumeLabels, RunRows
<1>2. RunnerInv'
  BY DEF TypeOK, Processes, RowsMatchProcesses, RunnerInv
<1>3. RowInv'
  BY DEF RowsMatchProcesses, RunnerInv, RowInv
<1>4. \A p \in Resumers : ResumerInv(p)'
  BY ProcessesAssumption DEF RowsMatchProcesses, RunnerInv, ResumerInv, TypeOK, Processes, Won
<1>5. Alone'
  BY ProcessesAssumption DEF RowsMatchProcesses, Alone, TypeOK, Processes
<1> QED BY <1>1, <1>2, <1>3, <1>4, <1>5 DEF RowsMatchProcesses

\* The first invocation returns a trace that is not yet stored.
LEMMA InvokeRunKeeps == IInv /\ InvokeRun => IInv'
<1> SUFFICES ASSUME IInv, NEW outcome \in RunOutcomes, pc[Runner] = "invoke",
               result' = [result EXCEPT ![Runner] =
                            [outcome |-> outcome, trace |-> FirstTrace(outcome)]],
               checkpoint' = IF outcome = Paused THEN "interrupted" ELSE "ended",
               Goto(Runner, IF outcome.status = "error" /\ ~ outcome.explained
                            THEN "raised" ELSE "count_events"),
               UNCHANGED <<rows, choice, packet, existing>>
             PROVE  IInv'
  BY DEF InvokeRun
<1> USE DEF IInv, Goto, rows
<1>1. [outcome |-> outcome, trace |-> FirstTrace(outcome)] \in Results
  BY DEF Results, Traces
<1>2. TypeOK'
  BY <1>1 DEF TypeOK, Processes, RunLabels, ResumeLabels
<1>3. RunnerInv'
  <2>1. [outcome |-> outcome, trace |-> FirstTrace(outcome)] # None
    BY <1>1, NoneAssumption
  <2>2. result'[Runner] = [outcome |-> outcome, trace |-> FirstTrace(outcome)]
    BY DEF TypeOK, Processes
  <2>3. pc'[Runner] \in {"raised", "count_events"}
    BY DEF TypeOK, Processes
  <2> QED BY <2>1, <2>2, <2>3, ProcessesAssumption
          DEF TypeOK, Processes, RowsMatchProcesses, RunnerInv
<1>4. RowInv'
  BY DEF RowsMatchProcesses, RunnerInv, RowInv
<1>5. \A p \in Resumers : ResumerInv(p)'
  BY ProcessesAssumption
     DEF RowsMatchProcesses, RunnerInv, ResumerInv, TypeOK, Processes, Won, Stored
<1>6. Alone'
  BY ProcessesAssumption DEF RowsMatchProcesses, Alone, TypeOK, Processes
<1> QED BY <1>2, <1>3, <1>4, <1>5, <1>6 DEF RowsMatchProcesses

\* The runner finds the trace table empty.
LEMMA CountEventsOfRun == IInv /\ CountEvents(Runner) => IInv'
<1> SUFFICES ASSUME IInv, CountEvents(Runner) PROVE IInv'
  OBVIOUS
<1> USE DEF IInv, CountEvents, Goto, rows
<1>1. trace_rows = {} /\ Cardinality(trace_rows) = 0
  BY FS_EmptySet DEF RowsMatchProcesses, RunnerInv
<1>2. TypeOK'
  BY <1>1 DEF TypeOK, Processes, RunLabels, ResumeLabels
<1>3. RunnerInv'
  BY <1>1 DEF TypeOK, Processes, RowsMatchProcesses, RunnerInv, Stored
<1>4. RowInv'
  BY DEF RowsMatchProcesses, RowInv, Stored
<1>5. \A p \in Resumers : ResumerInv(p)'
  BY ProcessesAssumption
     DEF RowsMatchProcesses, RunnerInv, ResumerInv, TypeOK, Processes, Won, Stored
<1>6. Alone'
  BY ProcessesAssumption DEF RowsMatchProcesses, Alone, TypeOK, Processes
<1> QED BY <1>2, <1>3, <1>4, <1>5, <1>6 DEF RowsMatchProcesses

\* The runner's rows are the first of its trace.
LEMMA InsertEventsOfRun == IInv /\ InsertEvents(Runner) => IInv'
<1> SUFFICES ASSUME IInv, InsertEvents(Runner) PROVE IInv'
  OBVIOUS
<1> USE DEF IInv, Goto
<1> DEFINE settled == result[Runner]
<1>1. /\ pc[Runner] = "insert_events" /\ trace_rows = {} /\ existing[Runner] = 0
      /\ run_row = Running /\ review_row = None
      /\ settled # None /\ settled.outcome \in RunOutcomes
      /\ settled.trace = FirstTrace(settled.outcome)
      /\ settled.outcome = Paused => checkpoint = "interrupted"
  BY DEF InsertEvents, RowsMatchProcesses, RunnerInv
<1>2. settled.trace \in Traces /\ Runner \in Processes
  BY <1>1 DEF Traces, Processes
<1>3. DOMAIN settled.trace \subseteq 1..4 /\ \A i \in DOMAIN settled.trace :
                                                settled.trace[i] \in Events
  BY <1>2, TraceFacts
<1>4. trace_rows \cup NewRows(Runner) = RowsOf(settled.trace)
  BY <1>1, <1>2, <1>3, FirstInsert
<1>5. /\ trace_rows' = RowsOf(settled.trace)
      /\ pc' = [pc EXCEPT ![Runner] = IF settled.outcome = Paused
                                      THEN "pause_for_review" ELSE "complete_run"]
      /\ UNCHANGED <<run_row, review_row, checkpoint, choice, packet, result, existing>>
  BY <1>1, <1>4 DEF InsertEvents
<1>6. trace_rows' \subseteq [sequence: 1..4, event: Events]
  BY <1>3, <1>5 DEF RowsOf
<1>7. TypeOK'
  <2>1. /\ pc' \in [Processes -> RunLabels \cup ResumeLabels]
        /\ pc'[Runner] \in RunLabels /\ \A p \in Resumers : pc'[p] \in ResumeLabels
    BY <1>5, ProcessesAssumption DEF TypeOK, Processes, RunLabels
  <2> HIDE DEF settled
  <2> QED BY <1>5, <1>6, <2>1 DEF TypeOK
<1>8. RunnerInv'
  BY <1>1, <1>5 DEF TypeOK, Processes, RunnerInv, Stored
<1>9. RowInv'
  BY <1>1, <1>5 DEF RowInv
<1>10. \A p \in Resumers : ResumerInv(p)'
  BY <1>1, <1>5, ProcessesAssumption
     DEF RowsMatchProcesses, ResumerInv, TypeOK, Processes, Won
<1>11. Alone'
  BY <1>5, ProcessesAssumption DEF RowsMatchProcesses, Alone, TypeOK, Processes
<1> QED BY <1>7, <1>8, <1>9, <1>10, <1>11 DEF RowsMatchProcesses

\* The review row and the two statuses change in one transaction.
LEMMA PauseForReviewKeeps == IInv /\ PauseForReview => IInv'
<1> SUFFICES ASSUME IInv, PauseForReview PROVE IInv'
  OBVIOUS
<1> USE DEF IInv, PauseForReview, Goto
<1> DEFINE fresh == [status |-> "pending", checkpoint_id |-> checkpoint,
                     decision |-> None, after_status |-> None]
<1>1. /\ run_row = Running /\ review_row = None /\ Stored(PausedTrace)
      /\ result[Runner].outcome = Paused /\ checkpoint = "interrupted"
  BY DEF RowsMatchProcesses, RunnerInv, FirstTrace
<1>2. fresh \in ReviewRows /\ fresh # None
  BY <1>1, NoneAssumption DEF ReviewRows
<1>3. run_row' = Paused /\ review_row' = fresh
  BY <1>1
<1>4. TypeOK'
  BY <1>2, <1>3, OutcomeFacts DEF TypeOK, Processes, RunLabels, ResumeLabels, RunRows
<1>5. RunnerInv'
  BY DEF TypeOK, Processes, RunnerInv
<1>6. RowInv'
  BY <1>1, <1>2, <1>3 DEF RowInv, Stored
<1>7. \A p \in Resumers : ResumerInv(p)'
  BY <1>1, <1>2, <1>3, ProcessesAssumption
     DEF RowsMatchProcesses, ResumerInv, TypeOK, Processes, Won
<1>8. Alone'
  BY ProcessesAssumption DEF RowsMatchProcesses, Alone, TypeOK, Processes
<1> QED BY <1>4, <1>5, <1>6, <1>7, <1>8 DEF RowsMatchProcesses

\* A run that does not pause publishes the trace it stored.
LEMMA CompleteRunOfRun == IInv /\ CompleteRun(Runner) => IInv'
<1> SUFFICES ASSUME IInv, CompleteRun(Runner) PROVE IInv'
  OBVIOUS
<1> USE DEF IInv, CompleteRun, Goto
<1>1. /\ review_row = None /\ result[Runner].outcome \in RunOutcomes \ {Paused}
      /\ Stored(FirstTrace(result[Runner].outcome))
  BY DEF RowsMatchProcesses, RunnerInv
<1>2. TypeOK'
  BY <1>1 DEF TypeOK, Processes, RunLabels, ResumeLabels, RunRows
<1>3. RunnerInv'
  BY DEF TypeOK, Processes, RunnerInv
<1>4. RowInv'
  BY <1>1 DEF RowInv, Stored
<1>5. \A p \in Resumers : ResumerInv(p)'
  BY <1>1, ProcessesAssumption
     DEF RowsMatchProcesses, ResumerInv, TypeOK, Processes, Won
<1>6. Alone'
  BY ProcessesAssumption DEF RowsMatchProcesses, Alone, TypeOK, Processes
<1> QED BY <1>2, <1>3, <1>4, <1>5, <1>6 DEF RowsMatchProcesses

------------------------------------------------------------------------------

\* Reading a packet claims nothing.
LEMMA ReadReviewKeeps == ASSUME NEW p \in Resumers, IInv, ReadReview(p) PROVE IInv'
<1> USE DEF IInv, Goto, rows
<1>1. /\ pc[p] = "read_review"
      /\ \/ pc' = [pc EXCEPT ![p] = "rejected"]
         \/ /\ pc' = [pc EXCEPT ![p] = "begin_resolution"]
            /\ review_row # None /\ choice[p] \in Decisions
      /\ \/ packet' = packet
         \/ /\ review_row # None
            /\ packet' = [packet EXCEPT ![p] = review_row.checkpoint_id]
      /\ UNCHANGED <<run_row, review_row, trace_rows, checkpoint, choice, result,
                     existing>>
  <2>1. CASE review_row = None
    BY <2>1 DEF ReadReview
  <2>2. CASE review_row # None /\ choice[p] \in Decisions
    BY <2>2 DEF ReadReview
  <2>3. CASE review_row # None /\ choice[p] \notin Decisions
    BY <2>3 DEF ReadReview
  <2> QED BY <2>1, <2>2, <2>3
<1>2. TypeOK'
  <2>1. /\ pc' \in [Processes -> RunLabels \cup ResumeLabels]
        /\ pc'[Runner] \in RunLabels /\ \A q \in Resumers : pc'[q] \in ResumeLabels
    BY <1>1, ProcessesAssumption DEF TypeOK, Processes, ResumeLabels
  <2>2. packet' \in [Resumers -> {None, "interrupted"}]
    BY <1>1 DEF TypeOK, ReviewRows
  <2> QED BY <1>1, <2>1, <2>2 DEF TypeOK
<1>3. RunnerInv'
  BY <1>1, ProcessesAssumption DEF TypeOK, Processes, RowsMatchProcesses, RunnerInv, Stored
<1>4. RowInv'
  BY <1>1 DEF RowsMatchProcesses, RowInv, Stored
<1>5. \A q \in Resumers : ResumerInv(q)'
  BY <1>1 DEF RowsMatchProcesses, ResumerInv, TypeOK, Processes, Won, Stored
<1>6. Alone'
  BY <1>1 DEF RowsMatchProcesses, Alone, TypeOK, Processes, Won
<1> QED BY <1>2, <1>3, <1>4, <1>5, <1>6 DEF RowsMatchProcesses

\* The conditional update lets one resumer through, who is alone from there
\* on.
LEMMA BeginResolutionKeeps ==
    ASSUME NEW p \in Resumers, IInv, BeginResolution(p) PROVE IInv'
<1> USE DEF IInv, Goto
<1>1. /\ pc[p] = "begin_resolution"
      /\ review_row # None /\ review_row.status = "pending"
      /\ choice[p] \in Decisions
      /\ run_row = Paused /\ Stored(PausedTrace) /\ pc[Runner] = "returned"
  BY DEF BeginResolution, BeginMatches, RowsMatchProcesses, ResumerInv, RowInv,
         RunnerInv
<1>2. /\ review_row' = [review_row EXCEPT !.status = "resuming",
                                          !.decision = choice[p]]
      /\ pc' = [pc EXCEPT ![p] = "resume"]
      /\ UNCHANGED <<run_row, trace_rows, checkpoint, choice, packet, result,
                     existing>>
  BY DEF BeginResolution
<1>3. /\ review_row' \in ReviewRows /\ review_row' # None
      /\ review_row'.status = "resuming" /\ review_row'.decision = choice[p]
  BY <1>1, <1>2, NoneAssumption DEF TypeOK, ReviewRows
<1>4. TypeOK'
  <2>1. /\ pc' \in [Processes -> RunLabels \cup ResumeLabels]
        /\ pc'[Runner] \in RunLabels /\ \A q \in Resumers : pc'[q] \in ResumeLabels
    BY <1>2, ProcessesAssumption DEF TypeOK, Processes, ResumeLabels
  <2> QED BY <1>2, <1>3, <2>1 DEF TypeOK
<1>5. RunnerInv'
  BY <1>1, <1>2, ProcessesAssumption DEF TypeOK, Processes, RunnerInv
<1>6. RowInv'
  BY <1>1, <1>2, <1>3 DEF RowInv, Stored
<1>7. \A q \in Resumers : pc[q] \notin Won \cup {"returned"}
  BY <1>1 DEF RowsMatchProcesses, ResumerInv
<1>8. \A q \in Resumers : ResumerInv(q)'
  BY <1>1, <1>2, <1>3, <1>7
     DEF RowsMatchProcesses, ResumerInv, TypeOK, Processes, Won, Stored
<1>9. Alone'
  BY <1>2, <1>7 DEF Alone, TypeOK, Processes
<1> QED BY <1>4, <1>5, <1>6, <1>8, <1>9 DEF RowsMatchProcesses

\* A step that leaves the rows and the locals alone and takes one process to a
\* place where it executes nothing more.
LEMMA RetiringKeeps ==
    ASSUME NEW p \in Processes, NEW label \in {"rejected", "vanished"}, IInv,
           label = "rejected" => p \in Resumers,
           pc[p] # "returned", Goto(p, label),
           UNCHANGED <<rows, checkpoint, choice, packet, result, existing>>
    PROVE  IInv'
<1> USE DEF IInv, Goto, rows
<1>1. TypeOK'
  BY ProcessesAssumption DEF TypeOK, Processes, RunLabels, ResumeLabels
<1>2. RunnerInv'
  BY ProcessesAssumption DEF TypeOK, Processes, RowsMatchProcesses, RunnerInv, Stored
<1>3. RowInv'
  BY DEF RowsMatchProcesses, RowInv, Stored
<1>4. \A q \in Resumers : ResumerInv(q)'
  BY DEF RowsMatchProcesses, ResumerInv, TypeOK, Processes, Won, Stored
<1>5. Alone'
  BY DEF RowsMatchProcesses, Alone, TypeOK, Processes, Won
<1> QED BY <1>1, <1>2, <1>3, <1>4, <1>5 DEF RowsMatchProcesses

\* What the resumer that won knows about everybody else.
LEMMA WinnerFacts ==
    ASSUME NEW p \in Resumers, IInv, pc[p] \in Won
    PROVE  /\ review_row # None /\ review_row \in ReviewRows
           /\ review_row.status = "resuming" /\ review_row.decision = choice[p]
           /\ choice[p] \in Decisions /\ pc[Runner] = "returned"
           /\ \A q \in Resumers \ {p} : pc[q] \notin Won \cup {"returned"}
           /\ p # Runner /\ p \in Processes
BY ProcessesAssumption
   DEF IInv, RowsMatchProcesses, RunnerInv, ResumerInv, Alone, Won, TypeOK, Processes

\* The resumed invocation extends the trace of the paused one.
LEMMA InvokeResumeKeeps ==
    ASSUME NEW p \in Resumers, IInv, InvokeResume(p) PROVE IInv'
<1> USE DEF IInv, Goto, rows, InvokeResume
<1> DEFINE settled == [outcome |-> ReviewOutcome(choice[p]),
                       trace |-> ResumedTrace(choice[p])]
<1>1. pc[p] \in Won
  BY DEF Won
<1>2. settled \in Results
  BY <1>1, WinnerFacts DEF Results, ReviewedOutcomes, Traces
<1>3. result' = [result EXCEPT ![p] = settled] /\ pc' = [pc EXCEPT ![p] = "count_events"]
  OBVIOUS
<1> HIDE DEF settled
<1>4. TypeOK'
  <2>1. /\ pc' \in [Processes -> RunLabels \cup ResumeLabels]
        /\ pc'[Runner] \in RunLabels /\ \A q \in Resumers : pc'[q] \in ResumeLabels
    BY <1>3, ProcessesAssumption DEF TypeOK, Processes, ResumeLabels
  <2> QED BY <1>2, <1>3, <2>1 DEF TypeOK
<1>5. RunnerInv'
  BY <1>1, <1>3, WinnerFacts DEF TypeOK, Processes, RowsMatchProcesses, RunnerInv
<1>6. RowInv'
  BY DEF RowsMatchProcesses, RowInv, Stored
<1>7. \A q \in Resumers \ {p} : ResumerInv(q)'
  BY <1>1, <1>3, WinnerFacts
     DEF RowsMatchProcesses, ResumerInv, TypeOK, Processes, Won, Stored
<1>8. ResumerInv(p)'
  BY <1>1, <1>3, WinnerFacts
     DEF settled, RowsMatchProcesses, ResumerInv, TypeOK, Processes, Won, Stored
<1>9. Alone'
  BY <1>1, <1>3, WinnerFacts DEF Alone, TypeOK, Processes
<1> QED BY <1>4, <1>5, <1>6, <1>7, <1>8, <1>9 DEF RowsMatchProcesses

\* The resumer that won counts the rows of the paused trace.
LEMMA CountEventsOfResumer ==
    ASSUME NEW p \in Resumers, IInv, CountEvents(p) PROVE IInv'
<1> USE DEF IInv, Goto, rows, CountEvents
<1>1. pc[p] \in Won
  BY DEF Won
<1>2. Stored(PausedTrace) /\ Cardinality(trace_rows) = 2
  BY PausedCount DEF RowsMatchProcesses, ResumerInv
<1>3. existing' = [existing EXCEPT ![p] = 2] /\ pc' = [pc EXCEPT ![p] = "insert_events"]
  BY <1>2
<1>4. TypeOK'
  <2>1. /\ pc' \in [Processes -> RunLabels \cup ResumeLabels]
        /\ pc'[Runner] \in RunLabels /\ \A q \in Resumers : pc'[q] \in ResumeLabels
    BY <1>3, ProcessesAssumption DEF TypeOK, Processes, ResumeLabels
  <2> QED BY <1>3, <2>1 DEF TypeOK
<1>5. RunnerInv'
  BY <1>1, <1>3, WinnerFacts DEF TypeOK, Processes, RowsMatchProcesses, RunnerInv
<1>6. RowInv'
  BY DEF RowsMatchProcesses, RowInv, Stored
<1>7. \A q \in Resumers \ {p} : ResumerInv(q)'
  BY <1>1, <1>3, WinnerFacts
     DEF RowsMatchProcesses, ResumerInv, TypeOK, Processes, Won, Stored
<1>8. ResumerInv(p)'
  BY <1>1, <1>3, WinnerFacts
     DEF RowsMatchProcesses, ResumerInv, TypeOK, Processes, Won, Stored
<1>9. Alone'
  BY <1>1, <1>3, WinnerFacts DEF Alone, TypeOK, Processes
<1> QED BY <1>4, <1>5, <1>6, <1>7, <1>8, <1>9 DEF RowsMatchProcesses

\* The resumer that won stores the rest of its trace.
LEMMA InsertEventsOfResumer ==
    ASSUME NEW p \in Resumers, IInv, InsertEvents(p) PROVE IInv'
<1> USE DEF IInv, Goto
<1>1. pc[p] = "insert_events" /\ pc[p] \in Won
  BY DEF InsertEvents, Won
<1>2. /\ run_row = Paused /\ Stored(PausedTrace) /\ existing[p] = 2
      /\ result[p] = [outcome |-> ReviewOutcome(choice[p]),
                      trace |-> ResumedTrace(choice[p])]
  BY <1>1 DEF RowsMatchProcesses, ResumerInv, Won
<1>3. /\ \A new \in NewRows(p), old \in trace_rows : new.sequence # old.sequence
      /\ trace_rows \cup NewRows(p) = RowsOf(ResumedTrace(choice[p]))
  BY <1>1, <1>2, WinnerFacts, ResumedInsert
<1>4. result[p].outcome # Paused
  BY <1>1, <1>2, WinnerFacts, OutcomeFacts
<1>5. /\ trace_rows' = RowsOf(ResumedTrace(choice[p]))
      /\ pc' = [pc EXCEPT ![p] = "complete_run"]
      /\ UNCHANGED <<run_row, review_row, checkpoint, choice, packet, result,
                     existing>>
  BY <1>3, <1>4 DEF InsertEvents
<1>6. trace_rows' \subseteq [sequence: 1..4, event: Events]
  <2>1. ResumedTrace(choice[p]) \in Traces
    BY <1>1, WinnerFacts DEF Traces
  <2> QED BY <1>5, <2>1, TraceFacts DEF RowsOf
<1>7. TypeOK'
  <2>1. /\ pc' \in [Processes -> RunLabels \cup ResumeLabels]
        /\ pc'[Runner] \in RunLabels /\ \A q \in Resumers : pc'[q] \in ResumeLabels
    BY <1>5, ProcessesAssumption DEF TypeOK, Processes, ResumeLabels
  <2> QED BY <1>5, <1>6, <2>1 DEF TypeOK
<1>8. RunnerInv'
  BY <1>1, <1>5, WinnerFacts DEF TypeOK, Processes, RowsMatchProcesses, RunnerInv
<1>9. RowInv'
  BY <1>1, <1>2, <1>5, WinnerFacts DEF RowInv, Stored
<1>10. \A q \in Resumers \ {p} : ResumerInv(q)'
  BY <1>1, <1>5, WinnerFacts
     DEF RowsMatchProcesses, ResumerInv, TypeOK, Processes, Won
<1>11. ResumerInv(p)'
  BY <1>1, <1>2, <1>5, WinnerFacts DEF ResumerInv, TypeOK, Processes, Won, Stored
<1>12. Alone'
  BY <1>1, <1>5, WinnerFacts DEF Alone, TypeOK, Processes
<1> QED BY <1>7, <1>8, <1>9, <1>10, <1>11, <1>12 DEF RowsMatchProcesses

\* The resumer that won publishes the whole trace.
LEMMA CompleteRunOfResumer ==
    ASSUME NEW p \in Resumers, IInv, CompleteRun(p) PROVE IInv'
<1> USE DEF IInv, Goto, CompleteRun
<1>1. pc[p] = "complete_run" /\ pc[p] \in Won
  BY DEF Won
<1>2. /\ Stored(ResumedTrace(choice[p]))
      /\ result[p] = [outcome |-> ReviewOutcome(choice[p]),
                      trace |-> ResumedTrace(choice[p])]
  BY <1>1 DEF RowsMatchProcesses, ResumerInv, Won
<1>3. /\ run_row' = ReviewOutcome(choice[p]) /\ run_row' \in ReviewedOutcomes
      /\ pc' = [pc EXCEPT ![p] = "complete_review"]
  <2>1. p # Runner /\ choice[p] \in Decisions
    BY <1>1, WinnerFacts
  <2>2. run_row' = result[p].outcome /\ ReviewOutcome(choice[p]) \in ReviewedOutcomes
    BY <2>1, OutcomeFacts
  <2> QED BY <1>2, <2>1, <2>2
<1>4. TypeOK'
  <2>1. /\ pc' \in [Processes -> RunLabels \cup ResumeLabels]
        /\ pc'[Runner] \in RunLabels /\ \A q \in Resumers : pc'[q] \in ResumeLabels
    BY <1>3, ProcessesAssumption DEF TypeOK, Processes, ResumeLabels
  <2> QED BY <1>3, <2>1 DEF TypeOK, RunRows
<1>5. RunnerInv'
  BY <1>1, <1>3, WinnerFacts DEF TypeOK, Processes, RowsMatchProcesses, RunnerInv
<1>6. RowInv'
  BY <1>1, <1>2, <1>3, WinnerFacts DEF RowInv, Stored
<1>7. \A q \in Resumers \ {p} : ResumerInv(q)'
  BY <1>1, <1>3, WinnerFacts
     DEF RowsMatchProcesses, ResumerInv, TypeOK, Processes, Won
<1>8. ResumerInv(p)'
  BY <1>1, <1>2, <1>3, WinnerFacts DEF ResumerInv, TypeOK, Processes, Won, Stored
<1>9. Alone'
  BY <1>1, <1>3, WinnerFacts DEF Alone, TypeOK, Processes
<1> QED BY <1>4, <1>5, <1>6, <1>7, <1>8, <1>9 DEF RowsMatchProcesses

\* The review closes after its run has been published.
LEMMA CompleteReviewKeeps ==
    ASSUME NEW p \in Resumers, IInv, CompleteReview(p) PROVE IInv'
<1> USE DEF IInv, Goto
<1>1. pc[p] = "complete_review" /\ pc[p] \in Won
  BY DEF CompleteReview, Won
<1>2. /\ run_row = ReviewOutcome(choice[p]) /\ Stored(ResumedTrace(choice[p]))
      /\ result[p] = [outcome |-> ReviewOutcome(choice[p]),
                      trace |-> ResumedTrace(choice[p])]
  BY <1>1 DEF RowsMatchProcesses, ResumerInv, Won
<1>3. /\ review_row' = [review_row EXCEPT !.status = "resolved",
                                          !.after_status = run_row.status]
      /\ pc' = [pc EXCEPT ![p] = "returned"]
      /\ UNCHANGED <<run_row, trace_rows, checkpoint, choice, packet, result,
                     existing>>
  BY <1>1, <1>2, WinnerFacts DEF CompleteReview
<1>4. run_row.status \in {"answered", "insufficient_evidence"}
  BY <1>1, <1>2, WinnerFacts, OutcomeFacts
<1>5. /\ review_row' \in ReviewRows /\ review_row' # None
      /\ review_row'.status = "resolved" /\ review_row'.decision = choice[p]
      /\ review_row'.after_status = run_row.status
  BY <1>1, <1>3, <1>4, WinnerFacts, NoneAssumption DEF ReviewRows
<1>6. TypeOK'
  <2>1. /\ pc' \in [Processes -> RunLabels \cup ResumeLabels]
        /\ pc'[Runner] \in RunLabels /\ \A q \in Resumers : pc'[q] \in ResumeLabels
    BY <1>3, ProcessesAssumption DEF TypeOK, Processes, ResumeLabels
  <2> QED BY <1>3, <1>5, <2>1 DEF TypeOK
<1>7. RunnerInv'
  BY <1>1, <1>3, WinnerFacts DEF TypeOK, Processes, RowsMatchProcesses, RunnerInv
<1>8. RowInv'
  BY <1>1, <1>2, <1>3, <1>5, WinnerFacts DEF RowInv, Stored
<1>9. \A q \in Resumers \ {p} : ResumerInv(q)'
  BY <1>1, <1>3, <1>5, WinnerFacts
     DEF RowsMatchProcesses, ResumerInv, TypeOK, Processes, Won
<1>10. ResumerInv(p)'
  BY <1>1, <1>2, <1>3, <1>5, WinnerFacts DEF ResumerInv, TypeOK, Processes, Won
<1>11. Alone'
  BY <1>1, <1>3, WinnerFacts DEF Alone, TypeOK, Processes
<1> QED BY <1>6, <1>7, <1>8, <1>9, <1>10, <1>11 DEF RowsMatchProcesses

------------------------------------------------------------------------------

\* Every step keeps the invariant.
LEMMA NextKeeps == IInv /\ [Next]_vars => IInv'
<1> SUFFICES ASSUME IInv, [Next]_vars PROVE IInv'
  OBVIOUS
<1>1. CASE RunStep
  BY <1>1, CreateRunKeeps, InvokeRunKeeps, PauseForReviewKeeps, CountEventsOfRun,
     InsertEventsOfRun, CompleteRunOfRun DEF RunStep
<1>2. ASSUME NEW p \in Resumers, ResumeStep(p) PROVE IInv'
  <2>1. CASE BeginIsStale(p)
    BY <2>1, RetiringKeeps DEF BeginIsStale, Processes
  <2> QED
    BY <1>2, <2>1, ReadReviewKeeps, BeginResolutionKeeps, InvokeResumeKeeps,
       CountEventsOfResumer, InsertEventsOfResumer, CompleteRunOfResumer,
       CompleteReviewKeeps DEF ResumeStep
<1>3. ASSUME NEW p \in Processes, Vanish(p) PROVE IInv'
  BY <1>3, RetiringKeeps DEF Vanish
<1>4. CASE UNCHANGED vars
  BY <1>4 DEF vars, IInv, TypeOK, RowsMatchProcesses, RunnerInv, RowInv,
              ResumerInv, Alone, Stored, NewRows
<1> QED BY <1>1, <1>2, <1>3, <1>4 DEF Next

\* The inductive invariant holds in every reachable state: every process that
\* can still execute a statement of application.py finds the rows as it left
\* them.
THEOREM RowsInvariant == Spec => []IInv
<1>1. Init => IInv
  BY InitInvariant
<1>2. IInv /\ [Next]_vars => IInv'
  BY NextKeeps
<1> QED BY <1>1, <1>2, PTL DEF Spec

\* Every row, label and local of run and resume_review keeps its type.
THEOREM TypeCorrect == Spec => []TypeOK
BY RowsInvariant, PTL DEF IInv

\* agent_runs and analyst_reviews never contradict each other, for any number
\* of concurrent resumers and any process that vanishes.
THEOREM StatusesAlwaysAgree == Spec => []StatusesAgree
<1>1. IInv => StatusesAgree
  <2> SUFFICES ASSUME IInv PROVE StatusesAgree
    OBVIOUS
  <2>1. CASE review_row = None
    BY <2>1, NoneAssumption DEF IInv, RowsMatchProcesses, RowInv, StatusesAgree,
                                Running, Paused, RunRows, RunOutcomes
  <2>2. CASE review_row # None
    BY <2>2 DEF IInv, TypeOK, ReviewRows, RowsMatchProcesses, RowInv, StatusesAgree
  <2> QED BY <2>1, <2>2
<1> QED BY <1>1, RowsInvariant, PTL

\* The compare-and-set lets at most one resume_review through.
THEOREM OnlyOneResumerWins == Spec => []OneResumerWins
<1>1. IInv => OneResumerWins
  BY DEF IInv, RowsMatchProcesses, ResumerInv, Alone, Won, OneResumerWins
<1> QED BY <1>1, RowsInvariant, PTL

\* append_events counts and inserts in two steps, yet whatever is published
\* comes with exactly the trace of the published result.
THEOREM PublishedTraceIsAlwaysWhole == Spec => []PublishedTraceIsWhole
<1>1. IInv => PublishedTraceIsWhole
  <2> SUFFICES ASSUME IInv, run_row \notin {None, Running}
               PROVE  IF review_row = None THEN Stored(FirstTrace(run_row))
                      ELSE \/ Stored(ResumedTrace(review_row.decision))
                           \/ run_row = Paused /\ Stored(PausedTrace)
    BY DEF PublishedTraceIsWhole
  <2>1. CASE review_row = None
    BY <2>1 DEF IInv, RowsMatchProcesses, RowInv
  <2>2. CASE review_row # None
    BY <2>2 DEF IInv, TypeOK, ReviewRows, RowsMatchProcesses, RowInv
  <2> QED BY <2>1, <2>2
<1> QED BY <1>1, RowsInvariant, PTL

------------------------------------------------------------------------------

\* A step that writes neither agent_runs nor analyst_reviews is invisible to
\* those who read them.
LEMMA InvisibleSteps ==
    ASSUME run_row' = run_row, review_row' = review_row
    PROVE  UNCHANGED Protocol!protvars
BY DEF Protocol!protvars

\* Every step is one of the protocol's or leaves its variables alone.
LEMMA VisibleSteps == IInv /\ [Next]_vars => [Protocol!Next]_(Protocol!protvars)
<1> SUFFICES ASSUME IInv, [Next]_vars PROVE [Protocol!Next]_(Protocol!protvars)
  OBVIOUS
<1>1. CASE CreateRun
  <2>1. run_row = None /\ run_row' = Running /\ review_row' = review_row
    BY <1>1 DEF CreateRun, IInv, RowsMatchProcesses, RunnerInv
  <2> QED BY <2>1, NoneAssumption DEF Protocol!protvars, RunRows
<1>2. CASE PauseForReview
  <2>1. run_row = Running /\ review_row = None /\ result[Runner].outcome = Paused
    BY <1>2 DEF PauseForReview, IInv, RowsMatchProcesses, RunnerInv
  <2>2. /\ run_row' = Paused /\ Paused # Running
        /\ review_row' = [status |-> "pending", checkpoint_id |-> checkpoint,
                          decision |-> None, after_status |-> None]
    BY <1>2, <2>1, OutcomeFacts DEF PauseForReview
  <2>3. review_row' # None
    <3>1. checkpoint = "interrupted"
      BY <1>2, <2>1 DEF PauseForReview, IInv, RowsMatchProcesses, RunnerInv
    <3>2. review_row' \in ReviewRows
      BY <2>2, <3>1 DEF ReviewRows
    <3> QED BY <3>2, NoneAssumption
  <2>4. Protocol!Pause
    BY <2>1, <2>2, <2>3 DEF Protocol!Pause, Protocol!Paused, Paused
  <2> QED BY <2>4 DEF Protocol!Next
<1>3. CASE CompleteRun(Runner)
  <2>1. /\ run_row = Running /\ review_row = None
        /\ result[Runner].outcome \in RunOutcomes \ {Paused}
    BY <1>3 DEF CompleteRun, IInv, RowsMatchProcesses, RunnerInv
  <2>2. /\ run_row' \in RunOutcomes \ {Paused} /\ run_row' # Running
        /\ review_row' = review_row
    BY <1>3, <2>1, OutcomeFacts DEF CompleteRun
  <2>3. Protocol!Publish
    BY <2>1, <2>2 DEF Protocol!Publish, Protocol!RunOutcomes, Protocol!Paused,
                      RunOutcomes, Paused
  <2> QED BY <2>3 DEF Protocol!Next
<1>4. ASSUME NEW p \in Resumers, BeginResolution(p)
      PROVE  Protocol!Next
  <2>1. /\ review_row # None /\ review_row.status = "pending"
        /\ review_row \in ReviewRows /\ choice[p] \in Decisions
    BY <1>4 DEF BeginResolution, BeginMatches, IInv, TypeOK, RowsMatchProcesses,
                ResumerInv
  <2>2. /\ review_row' = [review_row EXCEPT !.status = "resuming",
                                            !.decision = choice[p]]
        /\ run_row' = run_row
    BY <1>4 DEF BeginResolution
  <2>3. review_row' # None
    BY <2>1, <2>2, NoneAssumption DEF ReviewRows
  <2>4. review_row'.status = "resuming" /\ review_row'.decision = choice[p]
    BY <2>1, <2>2 DEF ReviewRows
  <2>5. Protocol!Accept
    BY <2>1, <2>2, <2>3, <2>4 DEF Protocol!Accept
  <2> QED BY <2>5 DEF Protocol!Next
<1>5. ASSUME NEW p \in Resumers, CompleteRun(p)
      PROVE  Protocol!Next
  <2>1. pc[p] = "complete_run" /\ pc[p] \in Won
    BY <1>5 DEF CompleteRun, Won
  <2>2. /\ run_row = Paused
        /\ result[p] = [outcome |-> ReviewOutcome(choice[p]),
                        trace |-> ResumedTrace(choice[p])]
    BY <2>1 DEF IInv, RowsMatchProcesses, ResumerInv, Won
  <2>3. /\ review_row # None /\ review_row.status = "resuming"
        /\ review_row.decision = choice[p] /\ choice[p] \in Decisions
    BY <2>1, WinnerFacts
  <2>4. run_row' = ReviewOutcome(choice[p]) /\ review_row' = review_row
    BY <1>5, <2>2 DEF CompleteRun
  <2>5. Paused # Running /\ ReviewOutcome(choice[p]) # Running
    BY <2>3, OutcomeFacts
  <2>6. Protocol!PublishReviewed
    BY <2>2, <2>3, <2>4, <2>5
       DEF Protocol!PublishReviewed, Protocol!ReviewOutcome, Protocol!Paused,
           ReviewOutcome, Paused
  <2> QED BY <2>6 DEF Protocol!Next
<1>6. ASSUME NEW p \in Resumers, CompleteReview(p)
      PROVE  Protocol!Next
  <2>1. pc[p] = "complete_review" /\ pc[p] \in Won
    BY <1>6 DEF CompleteReview, Won
  <2>2. run_row = ReviewOutcome(choice[p])
    BY <2>1 DEF IInv, RowsMatchProcesses, ResumerInv, Won
  <2>3. /\ review_row # None /\ review_row \in ReviewRows
        /\ review_row.status = "resuming" /\ choice[p] \in Decisions
    BY <2>1, WinnerFacts
  <2>4. /\ review_row' = [review_row EXCEPT !.status = "resolved",
                                !.after_status = result[p].outcome.status]
        /\ run_row' = run_row
    BY <1>6, <2>3 DEF CompleteReview
  <2>5. review_row' # None
    <3>1. pc'[p] = "returned"
      BY <1>6, <2>1, <2>3 DEF CompleteReview, Goto, IInv, TypeOK, Processes
    <3> QED
      BY <1>6, <3>1, CompleteReviewKeeps DEF IInv, RowsMatchProcesses, ResumerInv
  <2>6. /\ review_row'.status = "resolved"
        /\ review_row'.decision = review_row.decision
    BY <2>3, <2>4 DEF ReviewRows
  <2>7. run_row # Paused /\ run_row # Running
    BY <2>2, <2>3, OutcomeFacts
  <2>8. Protocol!Close
    BY <2>3, <2>4, <2>5, <2>6, <2>7 DEF Protocol!Close, Protocol!Paused, Paused
  <2> QED BY <2>8 DEF Protocol!Next
<1>7. CASE InvokeRun \/ CountEvents(Runner) \/ InsertEvents(Runner)
  BY <1>7, InvisibleSteps DEF InvokeRun, CountEvents, InsertEvents, rows
<1>8. ASSUME NEW p \in Resumers,
             ReadReview(p) \/ BeginIsStale(p) \/ InvokeResume(p) \/ CountEvents(p)
             \/ InsertEvents(p)
      PROVE  UNCHANGED Protocol!protvars
  BY <1>8, InvisibleSteps
     DEF ReadReview, BeginIsStale, InvokeResume, CountEvents, InsertEvents, rows
<1>9. ASSUME NEW p \in Processes, Vanish(p)
      PROVE  UNCHANGED Protocol!protvars
  BY <1>9, InvisibleSteps DEF Vanish, rows
<1>10. CASE UNCHANGED vars
  BY <1>10, InvisibleSteps DEF vars
<1> QED
  BY <1>1, <1>2, <1>3, <1>4, <1>5, <1>6, <1>7, <1>8, <1>9, <1>10
     DEF Next, RunStep, ResumeStep

\* Through their rows, run and resume_review implement ReviewProtocol: what is
\* published never changes, one decision is taken, and it alone determines how
\* the reviewed run ends.
THEOREM ProtocolImplemented == Spec => RowsFollowProtocol
<1>1. Init => Protocol!Init
  BY NoneAssumption DEF Init, Protocol!Init, RunRows
<1>2. IInv /\ [Next]_vars => [Protocol!Next]_(Protocol!protvars)
  BY VisibleSteps
<1> QED BY <1>1, <1>2, RowsInvariant, PTL DEF Spec, RowsFollowProtocol, Protocol!Spec
=============================================================================
