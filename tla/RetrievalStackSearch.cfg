\* Three clauses, two candidates: every list, every score, every failure.
SPECIFICATION Spec
CONSTANTS
    Clauses = {1, 2, 3}
    Unknown = {9}
    Limit = 2
    Scores = {1, 2}
    NoScore = 0
INVARIANTS
    RerankingIsInspectable
    DegradationIsVisible
    DominatedNeverAbove
