SPECIFICATION FairRecommendSpec
CONSTANTS
    a = a
    b = b
    today = today
    NoRun = NoRun
    Old = Old
    Absent = Absent
    Runs <- MCRuns
    Needs <- MCNeeds
    Recommends <- OneRecommend
    LastArtifact = 2
INVARIANTS
    RecommendTypeOK
    MutualExclusion
    NoDoubleRefusal
    NoSwapUnderReader
PROPERTIES
    StartedRunEnds
    PublicationIsWhole
CHECK_DEADLOCK FALSE
