\* The runner and any of three resumers may vanish between two statements.
SPECIFICATION FairSpec
CONSTANTS
    None = None
    Model = Model
    Abstain = Abstain
    Runner = runner
    Evidence = {e1, e2}
    Unknown = unknown
    Resumers = {r1, r2, r3}
    CanVanish = TRUE
INVARIANTS
    StatusesAgree
    OneResumerWins
    PublishedTraceIsWhole
    IInv
PROPERTIES
    RowsFollowProtocol
    AcceptedReviewsClose
CHECK_DEADLOCK FALSE
