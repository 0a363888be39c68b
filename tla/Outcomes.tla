------------------------------- MODULE Outcomes -------------------------------
(***************************************************************************)
(* How a run of the workflow can end, as far as the application can tell:  *)
(* the status of its AnswerResult, its answer (none, the model's, or the   *)
(* text of one piece of evidence), and whether it gives an uncertainty     *)
(* reason.                                                                 *)
(***************************************************************************)
CONSTANTS
    None,         \* Python's None
    Model,        \* the answer the model synthesized
    Abstain       \* the analyst's decision to abstain

Paused == [status |-> "review_required", answer |-> None, explained |-> FALSE]

\* An abstention always names its reasons.  A failed run may still hold the
\* answer whose citations did not verify, and may give no reason at all.
RunOutcomes ==
    {Paused,
     [status |-> "answered", answer |-> Model, explained |-> FALSE],
     [status |-> "insufficient_evidence", answer |-> None, explained |-> TRUE]}
    \cup [status: {"error"}, answer: {None, Model}, explained: BOOLEAN]

ReviewOutcome(d) ==
    IF d = Abstain
    THEN [status |-> "insufficient_evidence", answer |-> None, explained |-> TRUE]
    ELSE [status |-> "answered", answer |-> d, explained |-> FALSE]
==============================================================================
