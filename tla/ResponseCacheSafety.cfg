\* Three calls in any configuration, any of which may vanish.
SPECIFICATION Spec
CONSTANTS
    None = None
    Luna = Luna
    Sol = Sol
    Good = Good
    Better = Better
    Malformed = Malformed
    Calls = {c1, c2, c3}
    Configurations <- MCConfigurations
    Fold <- MCFold
    Asymmetric = {"compare"}
    EconomicalModel = Luna
    HigherModel = Sol
    Priced = {Luna}
    Answers <- MCAnswers
    ValidAnswers <- MCValidAnswers
SYMMETRY CallSymmetry
INVARIANTS
    HitsAnswerTheSameRequest
    PoisonIsTheFixtures
    CostsAreHonest
    IInv
PROPERTY
    RepeatsHit
CHECK_DEADLOCK FALSE
