\* The command ends: a finished evaluation has no next step.
SPECIFICATION Spec
CHECK_DEADLOCK FALSE
CONSTANTS
    Clauses = {1, 2, 3, 4}
    ContractOf <- MCContractOf
    Obsolete = {1}
    GoldenSets <- MCGoldenSets
    Distribution <- MCDistribution
    LexicalRankings <- MCLexicalRankings
    VectorRankings <- MCVectorRankings
    GraphAnswers <- MCGraphAnswers
    K = 2
    Hero = 10
    Demo = {10, 14}
    Negative = 23
    Adversarial = 14
    HeroClause = 3
    AdversarialClause = 4
INVARIANTS
    GraphEvidenceLeads
    ExitCodeIsTheVerdict
    ClassesMeanWhatTheySay
    ReportAddsUp
