---------------------------- MODULE ReviewProtocol ----------------------------
(***************************************************************************)
(* What the application promises everyone who can see a run: its published *)
(* outcome and the state of its review.                                    *)
(*                                                                         *)
(* A run is published once, or it pauses; a paused run takes exactly one   *)
(* decision, is published once with what that decision implies, and only   *)
(* then is its review closed.  Nothing published ever changes.  A process  *)
(* may disappear at any moment, so no step is promised to happen.          *)
(***************************************************************************)
EXTENDS Outcomes

CONSTANT Decisions

VARIABLES
    published,    \* None until an outcome is recorded
    review        \* [stage, decision], stage "none", "pending", "resuming", "resolved"

protvars == <<published, review>>

Init ==
    /\ published = None
    /\ review = [stage |-> "none", decision |-> None]

Publish ==
    /\ published = None
    /\ published' \in RunOutcomes \ {Paused}
    /\ UNCHANGED review

Pause ==
    /\ published = None
    /\ published' = Paused
    /\ review' = [stage |-> "pending", decision |-> None]

Accept ==
    /\ review.stage = "pending"
    /\ \E d \in Decisions : review' = [stage |-> "resuming", decision |-> d]
    /\ UNCHANGED published

PublishReviewed ==
    /\ review.stage = "resuming" /\ published = Paused
    /\ published' = ReviewOutcome(review.decision)
    /\ UNCHANGED review

Close ==
    /\ review.stage = "resuming" /\ published # Paused
    /\ review' = [review EXCEPT !.stage = "resolved"]
    /\ UNCHANGED published

Next == Publish \/ Pause \/ Accept \/ PublishReviewed \/ Close

Spec == Init /\ [][Next]_protvars
==============================================================================
