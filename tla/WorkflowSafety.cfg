\* Every limit the code treats differently, every plan, every graph.
SPECIFICATION FairSpec
CONSTANTS
    None = None
    Abstain = Abstain
    Model = Model
    Agreement = Agreement
    Ghost = Ghost
    FirstAmendment = FirstAmendment
    SecondAmendment = SecondAmendment
    Contracts = {Agreement}
    Clauses = {1, 2, 3, 4}
    Suspicious = {3}
    Artifacts <- AllArtifacts
    Plans <- AllPlans
    Queries <- MCQueries
    LexicalRanking <- MCLexicalRanking
    VectorRanking <- MCVectorRanking
    Syntheses <- MCSyntheses
    LimitChoices <- AllLimits
INVARIANTS
    BudgetsHold
    StepLimitIsSpare
    AnswersAreGrounded
    AnswersMeetTheContract
    ConflictsAreTheAnalysts
    SuspiciousEvidenceIsTraced
    TimeoutsAreDisclosed
    TraceAccountsForTheRun
    IInv
PROPERTIES
    SecondPassOnlyFindsTheBase
    ResumeNeedsOnlyTheCheckpoint
    InvocationsSettle
    KeepsItsPromise
CHECK_DEADLOCK FALSE
