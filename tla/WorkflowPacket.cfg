SPECIFICATION Spec
CONSTANTS
    None = None
    Abstain = Abstain
    Model = Model
    Agreement = Agreement
    Ghost = Ghost
    FirstAmendment = FirstAmendment
    SecondAmendment = SecondAmendment
    Contracts = {Agreement}
    Clauses = {1, 2, 3, 4}
    Suspicious = {3}
    Artifacts <- AllArtifacts
    Plans <- AllPlans
    Queries <- MCQueries
    LexicalRanking <- MCLexicalRanking
    VectorRanking <- MCVectorRanking
    Syntheses <- MCSyntheses
    LimitChoices <- AllLimits
INVARIANT
    PacketsHoldBothSides
CHECK_DEADLOCK FALSE
