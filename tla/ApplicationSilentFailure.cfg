SPECIFICATION Spec
CONSTANTS
    None = None
    Model = Model
    Abstain = Abstain
    Runner = runner
    Evidence = {e1, e2}
    Unknown = unknown
    Resumers = {r1}
    CanVanish = FALSE
INVARIANT
    FailuresReachTheTrace
CHECK_DEADLOCK FALSE
