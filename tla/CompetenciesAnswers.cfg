\* Small sources with every defect, rearranged and rebuilt; every question about
\* every corpus that is accepted, two results at most.
SPECIFICATION Spec
CONSTANTS
    PageId <- MCPageId
    ChunkId <- MCChunkId
    Sources <- MCSources
    Unbuilt = Unbuilt
    MaxListed = 3
    Contracts = {10, 11, 12}
    AskedClauses = {21, 31, 41, 51, 90}
    Parties = {81, 82, 90}
    Events = {83, 84}
    Titles = {"odd", "even"}
    Sentinels = {88}
    MaxResults = 2
    MaxCompared = 2
INVARIANTS
    ProvenanceIsUnique
    ClausesAreInReadingOrder
    PathsAreReviewed
    AnswersMatchTheCorpus
    OperativeLanguageIsCurrent
PROPERTIES
    RebuildingAgrees
