----------------------------- MODULE AbstractRun -----------------------------
(***************************************************************************)
(* What one run of the workflow promises the application.                  *)
(*                                                                         *)
(* A run settles once.  It is answered with the model's answer, abstains   *)
(* without one, fails, or asks for a review; a review is decided once, and *)
(* the decision alone then fixes how the run ends: a paused run never      *)
(* fails and is never answered by the model.                               *)
(***************************************************************************)
EXTENDS Outcomes

CONSTANT Decisions    \* what an analyst may decide

VARIABLES
    outcome,      \* None while running, else what the caller is given
    accepted      \* the analyst's decision, or None

absvars == <<outcome, accepted>>

Init == outcome = None /\ accepted = None

Settle ==
    /\ outcome = None
    /\ outcome' \in RunOutcomes
    /\ UNCHANGED accepted

Decide ==
    /\ outcome = Paused /\ accepted = None
    /\ accepted' \in Decisions
    /\ UNCHANGED outcome

Resolve ==
    /\ outcome = Paused /\ accepted # None
    /\ outcome' = ReviewOutcome(accepted)
    /\ UNCHANGED accepted

Next == Settle \/ Decide \/ Resolve

Safety == Init /\ [][Next]_absvars

\* A run that was started settles and one that was decided ends; nobody
\* promises a decision.
Spec == Safety /\ WF_absvars(Settle \/ Resolve)
==============================================================================
